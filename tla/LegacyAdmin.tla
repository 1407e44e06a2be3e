---------------------------- MODULE LegacyAdmin ----------------------------
(***************************************************************************)
(* The administration of the process-level bridge (src/bridge/admin.go,    *)
(* config.go, gitlab.go): the copy-on-write configuration that requests    *)
(* load, the index from project to signing token, the two files that       *)
(* survive a restart, and the hooks at GitLab.                             *)
(*                                                                         *)
(* A request holds the handler's mutex only while it edits configuration   *)
(* and index; it calls GitLab before that and saves the index after it.    *)
(* Lookups at the providers that only validate input are not modelled.     *)
(***************************************************************************)
EXTENDS Naturals, Sequences, FiniteSets

CONSTANTS
    Project,
    Target,           \* Multica projects that an administrator chooses
    DefaultTarget,    \* SPECWIRE_MULTICA_PROJECT_ID
    Unmapped,         \* not a target
    FirstAllowed,     \* allowlist of the first start
    SharedTokens,     \* signing tokens of the first start: 1 .. SharedTokens
    AdminRequests,    \* concurrently served admin requests
    MaxTokens,        \* bound: tokens, the shared ones included
    MaxStops          \* bound: crashes and restarts

ASSUME AdminConstants ==
    /\ Unmapped \notin Target \cup {DefaultTarget}
    /\ FirstAllowed \subseteq Project /\ FirstAllowed # {}
    /\ SharedTokens \in Nat \ {0} /\ MaxTokens \in Nat /\ SharedTokens <= MaxTokens /\ MaxStops \in Nat

VARIABLES
    running,
    config,           \* the Config that cfgPtr points to
    index,            \* adminState.SecretByPath
    envFile,          \* what apply has written
    stateFile,        \* admin-state.json
    hooks,            \* tokens of the hooks at GitLab with this bridge's URL, oldest first
    issued,           \* tokens generated so far
    admin,            \* locals of a request
    holder,           \* apply holds the mutex while it saves
    stops

settings == <<config, index>>
files == <<envFile, stateFile>>
adminVars == <<running, settings, files, hooks, issued, admin, holder, stops>>

Token == 1 .. MaxTokens
NoToken == 0
Nobody == "nobody"
Config == [allowed : SUBSET Project, target : [Project -> Target \cup {DefaultTarget, Unmapped}], secrets : SUBSET Token]
Index == [Project -> {NoToken} \cup Token]

AdminPc == {"idle", "call", "record", "persist", "write", "applied"}
AdminIdle(p) == [pc |-> "idle", project |-> p, rotate |-> FALSE, token |-> NoToken, found |-> FALSE,
                 saved |-> [q \in Project |-> NoToken]]
Rest == AdminIdle(CHOOSE p \in Project : TRUE)

FirstConfig == [allowed |-> FirstAllowed, target |-> [p \in Project |-> Unmapped], secrets |-> 1 .. SharedTokens]

AdminInit ==
    /\ running = TRUE
    /\ config = FirstConfig
    /\ index = [p \in Project |-> NoToken]
    /\ envFile = FirstConfig
    /\ stateFile = [p \in Project |-> NoToken]
    /\ hooks \in [Project -> {<<>>, <<1>>}]
    /\ issued = SharedTokens
    /\ admin = [r \in AdminRequests |-> Rest]
    /\ holder = Nobody
    /\ stops = 0

AdminTypeOK ==
    /\ running \in BOOLEAN
    /\ config \in Config /\ envFile \in Config
    /\ index \in Index /\ stateFile \in Index
    /\ hooks \in [Project -> Seq(Token)]
    /\ issued \in SharedTokens .. MaxTokens
    /\ admin \in [AdminRequests ->
         [pc : AdminPc, project : Project, rotate : BOOLEAN, token : {NoToken} \cup Token,
          found : BOOLEAN, saved : Index]]
    /\ holder \in AdminRequests \cup {Nobody}
    /\ stops \in 0 .. MaxStops

Mapped(c) == {p \in Project : c.target[p] # Unmapped}

-----------------------------------------------------------------------------
(***************************************************************************)
(* Configuration.                                                          *)
(***************************************************************************)
\* cloneConfig and the swap of the pointer, under the mutex.
Locked == running /\ holder = Nobody

\* Mutant: the other projects keep what mapping they have.
MapOnly(p, t) == [config.target EXCEPT ![p] = t]

\* The first project with a target of its own gives every other one the default.
MapBackfilled(p, t) ==
    [q \in Project |->
        CASE q = p -> t
          [] q # p /\ q \in config.allowed ->
                IF config.target[q] # Unmapped THEN config.target[q] ELSE DefaultTarget
          [] OTHER -> Unmapped]

handleAddProject(p, t) ==
    /\ Locked
    /\ p \notin config.allowed
    /\ config' = [config EXCEPT !.allowed = @ \cup {p}, !.target = MapBackfilled(p, t)]
    /\ UNCHANGED <<running, index, files, hooks, issued, admin, holder, stops>>

\* The project's own token goes with it.
ForgetToken(p) == [index EXCEPT ![p] = NoToken]

handleRemoveProject(r, p) ==
    /\ Locked
    /\ admin[r].pc = "idle"
    /\ p \in config.allowed
    /\ config' = [allowed |-> config.allowed \ {p},
                  target |-> [config.target EXCEPT ![p] = Unmapped],
                  secrets |-> config.secrets \ {index[p]}]
    /\ index' = ForgetToken(p)
    /\ admin' = [admin EXCEPT ![r] = [Rest EXCEPT !.pc = "persist"]]
    /\ UNCHANGED <<running, files, hooks, issued, holder, stops>>

-----------------------------------------------------------------------------
(***************************************************************************)
(* Hooks and tokens.                                                       *)
(***************************************************************************)
\* ListHooks, FindHookByURL: a rotation needs the hook.
ListHooks(r, p, rotate) ==
    /\ running
    /\ admin[r].pc = "idle"
    /\ p \in config.allowed
    /\ rotate => hooks[p] # <<>>
    /\ issued < MaxTokens
    /\ issued' = issued + 1
    /\ admin' = [admin EXCEPT ![r] = [Rest EXCEPT !.pc = "call", !.project = p, !.rotate = rotate,
                                                  !.token = issued + 1, !.found = (hooks[p] # <<>>)]]
    /\ UNCHANGED <<running, settings, files, hooks, holder, stops>>

\* UpdateHook, CreateHook; the answer may be lost.
PutHook(r) ==
    LET a == admin[r]
    IN  /\ running
        /\ a.pc = "call"
        /\ hooks' = [hooks EXCEPT ![a.project] =
                        IF a.found THEN [@ EXCEPT ![1] = a.token] ELSE Append(@, a.token)]
        /\ \E pc \in {"record", "idle"} : admin' = [admin EXCEPT ![r] = IF pc = "idle" THEN Rest ELSE [@ EXCEPT !.pc = pc]]
        /\ UNCHANGED <<running, settings, files, issued, holder, stops>>

PutHookFails(r) ==
    /\ running
    /\ admin[r].pc = "call"
    /\ admin' = [admin EXCEPT ![r] = Rest]
    /\ UNCHANGED <<running, settings, files, hooks, issued, holder, stops>>

\* The token a rotation replaces: the indexed one, or the only one there is.
Replaced(p) ==
    CASE index[p] # NoToken -> {index[p]}
      [] index[p] = NoToken /\ Cardinality(config.secrets) = 1 -> config.secrets
      [] OTHER -> {}

\* handleUpsertHook adds the new token, handleRotateToken replaces the old one.
RecordToken(r) ==
    LET a == admin[r]
        old == IF a.rotate THEN Replaced(a.project) ELSE {}
    IN  /\ Locked
        /\ a.pc = "record"
        /\ config' = [config EXCEPT !.secrets = (@ \ old) \cup {a.token}]
        /\ index' = [index EXCEPT ![a.project] = a.token]
        /\ admin' = [admin EXCEPT ![r].pc = "persist"]
        /\ UNCHANGED <<running, files, hooks, issued, holder, stops>>

-----------------------------------------------------------------------------
(***************************************************************************)
(* Files and restarts.                                                     *)
(***************************************************************************)
\* persistState, outside of the mutex: what it has encoded may be old when
\* it is renamed into place.
EncodeState(r) ==
    /\ running
    /\ admin[r].pc = "persist"
    /\ admin' = [admin EXCEPT ![r] = [Rest EXCEPT !.pc = "write", !.saved = index]]
    /\ UNCHANGED <<running, settings, files, hooks, issued, holder, stops>>

persistState(r) ==
    /\ running
    /\ admin[r].pc = "write"
    /\ stateFile' \in {admin[r].saved, stateFile}
    /\ admin' = [admin EXCEPT ![r] = Rest]
    /\ UNCHANGED <<running, settings, envFile, hooks, issued, holder, stops>>

\* rewriteEnvFile; persistState follows before the mutex is released.
handleApply(r) ==
    /\ Locked
    /\ admin[r].pc = "idle"
    /\ envFile' = [config EXCEPT !.target =
                      [p \in Project |->
                          IF p \notin config.allowed THEN Unmapped
                          ELSE IF config.target[p] = Unmapped THEN DefaultTarget ELSE config.target[p]]]
    /\ holder' = r
    /\ admin' = [admin EXCEPT ![r] = [Rest EXCEPT !.pc = "applied"]]
    /\ UNCHANGED <<running, settings, stateFile, hooks, issued, stops>>

ApplyState(r) ==
    /\ running
    /\ admin[r].pc = "applied"
    /\ stateFile' \in {index, stateFile}
    /\ holder' = Nobody
    /\ admin' = [admin EXCEPT ![r] = Rest]
    /\ UNCHANGED <<running, settings, envFile, hooks, issued, stops>>

\* Also an error of the server, and the map race that the Go runtime may
\* detect when persistState encodes the index while another request edits it.
AdminCrash ==
    /\ running
    /\ stops < MaxStops
    /\ stops' = stops + 1
    /\ running' = FALSE
    /\ admin' = [r \in AdminRequests |-> Rest]
    /\ holder' = Nobody
    /\ UNCHANGED <<settings, files, hooks, issued>>

\* LoadConfig and loadProjectMap refuse to start without projects or secrets,
\* and with a map that misses a project.
Loadable(c) ==
    /\ c.allowed # {}
    /\ c.secrets # {}
    /\ Mapped(c) # {} => c.allowed \subseteq Mapped(c)

\* Mutant: the index is loaded as it was saved.
KeepLoaded(c) == stateFile

\* newAdminHandler: tokens that are no longer accepted leave the index.
PruneLoaded(c) == [p \in Project |-> IF stateFile[p] \in c.secrets THEN stateFile[p] ELSE NoToken]

Start ==
    /\ ~running
    /\ Loadable(envFile)
    /\ running' = TRUE
    /\ config' = envFile
    /\ index' = PruneLoaded(envFile)
    /\ UNCHANGED <<files, hooks, issued, admin, holder, stops>>

AdminNext ==
    \/ \E p \in Project, t \in Target : handleAddProject(p, t)
    \/ \E r \in AdminRequests :
          \/ \E p \in Project : handleRemoveProject(r, p) \/ \E rotate \in BOOLEAN : ListHooks(r, p, rotate)
          \/ PutHook(r)
          \/ PutHookFails(r)
          \/ RecordToken(r)
          \/ EncodeState(r)
          \/ persistState(r)
          \/ handleApply(r)
          \/ ApplyState(r)

AdminSpec == AdminInit /\ [][AdminNext \/ AdminCrash \/ Start]_adminVars

-----------------------------------------------------------------------------
(***************************************************************************)
(* A token that the index names for a project is accepted, through         *)
(* restarts and overlapping requests: a rotation finds and replaces it, and *)
(* the page's "dedicated" secret is one that verifies deliveries.  It      *)
(* needs two shared tokens: with a single one a rotation of a project that *)
(* the index does not name takes that token for the old one (the fallback  *)
(* in handleRotateToken) and replaces it for all projects.                 *)
(***************************************************************************)
IndexedIsAccepted ==
    running => \A p \in Project : index[p] # NoToken => index[p] \in config.secrets

(***************************************************************************)
(* As soon as one project has a mapping all of them have one, which the    *)
(* webhook handler relies on and the next start demands.                   *)
(***************************************************************************)
MapCoversAllowlist ==
    /\ Mapped(config) # {} => config.allowed \subseteq Mapped(config)
    /\ Mapped(config) \subseteq config.allowed
=============================================================================
