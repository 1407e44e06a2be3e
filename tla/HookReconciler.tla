--------------------------- MODULE HookReconciler ---------------------------
(***************************************************************************)
(* The webhook of a source project and the secret that signs it:           *)
(* internal/controlplane/hooks.go, internal/store/hooks.go, the secrets    *)
(* table of internal/store/claims.go and EnsureHook of the GitLab adapter. *)
(*                                                                         *)
(* A project has one row in hooks and one hook at GitLab; the token of the *)
(* two must be the same, or every delivery is refused.  Requests of the    *)
(* control plane change both, one database statement or provider call at a *)
(* time and without a lock.  A secret is never replaced: a new token is    *)
(* stored under a new reference, so a reference stands for its token.      *)
(***************************************************************************)
EXTENDS Naturals, FiniteSets

CONSTANTS
    Requests,         \* concurrently served requests of the control plane
    MaxSecrets,       \* bound: signing secrets ever stored
    MaxFaults         \* bound: failed statements and provider calls, crashes, and
                      \* disables of the Connection

ASSUME HookConstants ==
    /\ MaxSecrets \in Nat
    /\ MaxFaults \in Nat

Refs == 1 .. MaxSecrets
NoRef == 0

VARIABLES
    hookRef,          \* signing_ref_id of the hooks row; NoRef: there is no row
    secrets,          \* alias of every stored secret; "absent": not stored
    gitlabToken,      \* the token GitLab signs with; NoRef: GitLab has no hook
    pc,               \* where a request is
    rRef,             \* the reference a request puts into the provider
    rOld,             \* the reference a rotation replaces
    faults,
    (***********************************************************************)
    (* History: requests a rotation has overlapped, and whether something  *)
    (* happened since the last settled reconciliation that may have left   *)
    (* the two tokens apart.                                               *)
    (***********************************************************************)
    entangled, hookSuspect

hookRows == <<hookRef, secrets>>
hookVars == <<hookRef, secrets, gitlabToken, pc, rRef, rOld, faults, entangled, hookSuspect>>

EnsurePc == {"getHook", "putSecret", "ensureProvider", "upsertHook"}
RotatePc == {"putRotated", "rotateProvider", "rotateHook", "rollback"}
HookPc == EnsurePc \cup RotatePc

Free == {n \in Refs : secrets[n] = "absent"}
NextRef == CHOOSE n \in Free : \A m \in Free : n <= m

Fault == faults < MaxFaults /\ faults' = faults + 1

hookLocal == <<rRef, rOld, entangled>>

\* A request enters the reconciliation: it is entangled by a rotation that
\* overlaps it, and by a request that is entangled already.
EnterHook(o, rotation) ==
    LET others == {p \in Requests \ {o} : pc[p] \in HookPc}
    IN  entangled' = IF \E p \in others : rotation \/ pc[p] \in RotatePc \/ p \in entangled
                     THEN entangled \cup others \cup {o}
                     ELSE entangled

HookInit ==
    /\ hookRef = NoRef
    /\ secrets = [n \in Refs |-> "absent"]
    /\ gitlabToken = NoRef
    /\ pc = [o \in Requests |-> "idle"]
    /\ rRef = [o \in Requests |-> NoRef]
    /\ rOld = [o \in Requests |-> NoRef]
    /\ faults = 0
    /\ entangled = {}
    /\ hookSuspect = FALSE

HookTypeOK ==
    /\ hookRef \in Refs \cup {NoRef}
    /\ secrets \in [Refs -> {"absent", "project", "rotation"}]
    /\ gitlabToken \in Refs \cup {NoRef}
    /\ DOMAIN pc = Requests
    /\ rRef \in [Requests -> Refs \cup {NoRef}]
    /\ rOld \in [Requests -> Refs \cup {NoRef}]
    /\ faults \in 0 .. MaxFaults
    /\ entangled \subseteq Requests
    /\ hookSuspect \in BOOLEAN

-----------------------------------------------------------------------------
(***************************************************************************)
(* ensureHook.  It ends in "activateRoute" or in "activationFailed".       *)
(***************************************************************************)
Goto(o, label) == pc' = [pc EXCEPT ![o] = label]

\* The next statement or call of a request, within the reconciliation ...
HookGoto(o, label) == Goto(o, label) /\ UNCHANGED hookLocal

\* ... and where it goes on when the reconciliation returns.
HookReturn(o, label) ==
    /\ Goto(o, label)
    /\ rRef' = [rRef EXCEPT ![o] = NoRef]
    /\ rOld' = [rOld EXCEPT ![o] = NoRef]
    /\ entangled' = entangled \ {o}

\* With reference ref.
HookGotoWith(o, label, ref) ==
    /\ Goto(o, label)
    /\ rRef' = [rRef EXCEPT ![o] = ref]
    /\ UNCHANGED <<rOld, entangled>>

\* GetHookByProject: reuse the secret of the row, or make one.
GetHook(o) ==
    /\ pc[o] = "getHook"
    /\ \/ hookRef # NoRef /\ HookGotoWith(o, "ensureProvider", hookRef) /\ UNCHANGED faults
       \/ hookRef = NoRef /\ HookGoto(o, "putSecret") /\ UNCHANGED faults
       \/ Fault /\ HookReturn(o, "activationFailed")
    /\ UNCHANGED <<hookRows, gitlabToken, hookSuspect>>

\* Mutant: the row is written before its secret is stored.
PutNothing(o) ==
    /\ pc[o] = "putSecret"
    /\ Free # {}
    /\ HookGotoWith(o, "ensureProvider", NextRef)
    /\ UNCHANGED <<hookRows, gitlabToken, faults, hookSuspect>>

\* The alias names the project; UNIQUE (workspace_id, alias) refuses a second secret.
PutSecret(o) ==
    /\ pc[o] = "putSecret"
    /\ \/ /\ \A n \in Refs : secrets[n] # "project"
          /\ Free # {}
          /\ secrets' = [secrets EXCEPT ![NextRef] = "project"]
          /\ HookGotoWith(o, "ensureProvider", NextRef)
          /\ UNCHANGED faults
       \/ /\ \E n \in Refs : secrets[n] = "project"
          /\ HookReturn(o, "activationFailed")
          /\ UNCHANGED <<secrets, faults>>
       \/ /\ Fault
          /\ HookReturn(o, "activationFailed")
          /\ UNCHANGED secrets
    /\ UNCHANGED <<hookRef, gitlabToken, hookSuspect>>

\* EnsureHook of GitLab finds the hook by its URL and writes the token, or creates it.
ProviderHook(o, ref, done, failed) ==
    \/ /\ gitlabToken' = ref
       /\ HookGoto(o, done)
       /\ UNCHANGED <<faults, hookSuspect>>
    \/ /\ Fault                                   \* refused
       /\ HookReturn(o, failed)
       /\ UNCHANGED <<gitlabToken, hookSuspect>>
    \/ /\ Fault                                   \* done, and the answer is lost
       /\ gitlabToken' = ref
       /\ hookSuspect' = TRUE
       /\ HookReturn(o, failed)

EnsureProvider(o) ==
    /\ pc[o] = "ensureProvider"
    /\ ProviderHook(o, rRef[o], "upsertHook", "activationFailed")
    /\ UNCHANGED hookRows

\* A reconciliation that ran beside no rotation settles the pair again.
Settled(o) == hookSuspect' = (o \in entangled)

\* Mutant: a row that exists keeps its secret.
UpsertHookOnce(o) ==
    /\ pc[o] \in {"upsertHook", "rotateHook"}
    /\ hookRef' = IF hookRef = NoRef THEN rRef[o] ELSE hookRef
    /\ Settled(o)
    /\ HookReturn(o, IF pc[o] = "upsertHook" THEN "activateRoute" ELSE "idle")
    /\ UNCHANGED <<secrets, gitlabToken, faults>>

\* UpsertHook points the row at the token the provider accepted; it ends a
\* publication's reconciliation and a rotation alike.
UpsertHook(o) ==
    /\ pc[o] \in {"upsertHook", "rotateHook"}
    /\ hookRef' = rRef[o]
    /\ Settled(o)
    /\ HookReturn(o, IF pc[o] = "upsertHook" THEN "activateRoute" ELSE "idle")
    /\ UNCHANGED <<secrets, gitlabToken, faults>>

\* UpsertHook reads the row back after its statement: it fails with the row
\* as it was, or already written.
UpsertHookFails(o) ==
    /\ pc[o] = "upsertHook"
    /\ Fault
    /\ hookRef' \in {hookRef, rRef[o]}
    /\ hookSuspect' = TRUE
    /\ HookReturn(o, "activationFailed")
    /\ UNCHANGED <<secrets, gitlabToken>>

-----------------------------------------------------------------------------
(***************************************************************************)
(* RotateSigningToken.                                                     *)
(***************************************************************************)
\* The current secret of the row is resolved; without a row there is nothing to rotate.
Rotate(o) ==
    /\ pc[o] = "idle"
    /\ hookRef # NoRef
    /\ Free # {}
    /\ rOld' = [rOld EXCEPT ![o] = hookRef]
    /\ EnterHook(o, TRUE)
    /\ Goto(o, "putRotated")
    /\ UNCHANGED <<hookRows, gitlabToken, rRef, faults, hookSuspect>>

\* The new secret has an alias of its own.
PutRotated(o) ==
    /\ pc[o] = "putRotated"
    /\ \/ /\ Free # {}
          /\ secrets' = [secrets EXCEPT ![NextRef] = "rotation"]
          /\ HookGotoWith(o, "rotateProvider", NextRef)
          /\ UNCHANGED faults
       \/ /\ Fault
          /\ HookReturn(o, "idle")
          /\ UNCHANGED secrets
    /\ UNCHANGED <<hookRef, gitlabToken, hookSuspect>>

RotateProvider(o) ==
    /\ pc[o] = "rotateProvider"
    /\ ProviderHook(o, rRef[o], "rotateHook", "idle")
    /\ UNCHANGED hookRows

\* UpsertHook fails, with the row as it was or already written: either way the
\* provider gets its old token back.
RotateHookFails(o) ==
    /\ pc[o] = "rotateHook"
    /\ Fault
    /\ HookGoto(o, "rollback")
    /\ \/ UNCHANGED <<hookRef, hookSuspect>>
       \/ /\ hookRef' = rRef[o]
          /\ hookSuspect' = TRUE
    /\ UNCHANGED <<secrets, gitlabToken>>

Rollback(o) ==
    /\ pc[o] = "rollback"
    /\ gitlabToken' = rOld[o]
    /\ hookSuspect' = (hookSuspect \/ o \in entangled)
    /\ HookReturn(o, "idle")
    /\ UNCHANGED <<hookRows, faults>>

RollbackFails(o) ==
    /\ pc[o] = "rollback"
    /\ Fault
    /\ hookSuspect' = TRUE
    /\ gitlabToken' \in {gitlabToken, rOld[o]}
    /\ HookReturn(o, "idle")
    /\ UNCHANGED hookRows

HookStep(o) ==
    \/ GetHook(o)
    \/ PutSecret(o)
    \/ EnsureProvider(o)
    \/ UpsertHook(o)
    \/ UpsertHookFails(o)
    \/ Rotate(o)
    \/ PutRotated(o)
    \/ RotateProvider(o)
    \/ RotateHookFails(o)
    \/ Rollback(o)
    \/ RollbackFails(o)

\* The process ends: the requests are gone, rows and GitLab's hook stay.
HookCrash ==
    /\ Fault
    /\ pc' = [o \in Requests |-> "idle"]
    /\ rRef' = [o \in Requests |-> NoRef]
    /\ rOld' = [o \in Requests |-> NoRef]
    /\ hookSuspect' = (hookSuspect \/ \E o \in Requests : pc[o] \in HookPc)
    /\ entangled' = {}
    /\ UNCHANGED <<hookRows, gitlabToken>>

-----------------------------------------------------------------------------
(***************************************************************************)
(* While no request is reconciling the hook, and unless a rotation ran     *)
(* beside another reconciliation, an answer was lost, a row was reported   *)
(* as failed after it was written, or a crash or a failed rollback came    *)
(* between the two writes, GitLab signs with the secret the hooks row      *)
(* resolves to; and the next reconciliation that runs without a rotation   *)
(* beside it makes it so again (RotateSigningToken and ensureHook in       *)
(* hooks.go).                                                              *)
(***************************************************************************)
HookTokensAgree ==
    (\A o \in Requests : pc[o] \notin HookPc) /\ ~hookSuspect => gitlabToken = hookRef

(***************************************************************************)
(* The secret a hooks row refers to is stored, whatever fails on the way:  *)
(* vault.Put precedes every UpsertHook.                                    *)
(***************************************************************************)
HookSecretIsStored == hookRef # NoRef => secrets[hookRef] # "absent"

(***************************************************************************)
(* What a rotation on its own rolls GitLab back to is what the row names:  *)
(* "If persistence fails after a successful provider update, the old       *)
(* secret is restored on the provider as a best-effort rollback so ingress *)
(* does not observe a mismatched pair" (RotateSigningToken in hooks.go).   *)
(* It does not hold: UpsertHook may fail after it has written the row, and *)
(* then it is the rollback that parts the pair.                            *)
(***************************************************************************)
RollbackRestores ==
    entangled = {} => \A o \in Requests : pc[o] = "rollback" => rOld[o] = hookRef

(***************************************************************************)
(* A publication can always get its Hook: when no request is under way,    *)
(* either the row exists or its alias is still free.  Publish in           *)
(* flow/service.go relies on it: the Flow is paused "until Hook/route      *)
(* activation succeeds on a later retry".  It does not hold: a failed call *)
(* leaves the alias taken.                                                 *)
(***************************************************************************)
HookCanBeRetried ==
    (\A o \in Requests : pc[o] \notin HookPc) /\ hookRef = NoRef
        => \A n \in Refs : secrets[n] # "project"
=============================================================================
