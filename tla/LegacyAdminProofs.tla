-------------------------- MODULE LegacyAdminProofs --------------------------
(***************************************************************************)
(* Theorems about LegacyAdmin, for every set of projects, targets and      *)
(* requests and every number of tokens and restarts.                       *)
(***************************************************************************)
EXTENDS LegacyAdmin, FiniteSetTheorems, SequenceTheorems, TLAPS

Step == AdminNext \/ AdminCrash \/ Start

-----------------------------------------------------------------------------
(***************************************************************************)
(* Types.                                                                  *)
(***************************************************************************)
Locals == [pc : AdminPc, project : Project, rotate : BOOLEAN, token : {NoToken} \cup Token,
           found : BOOLEAN, saved : Index]

\* The locals of a request between two requests are locals.
LEMMA RestIsLocal == Rest \in Locals /\ Rest.pc = "idle"
  <1>1. (CHOOSE p \in Project : TRUE) \in Project
      BY AdminConstants
  <1>2. QED
      BY <1>1 DEF Rest, AdminIdle, Locals, AdminPc, Index, NoToken

\* What AdminTypeOK says of the locals of all requests, and of one.
LEMMA LocalsType == AdminTypeOK => admin \in [AdminRequests -> Locals]
  BY DEF AdminTypeOK, Locals

\* The first configuration is one, and its tokens are the shared ones.
LEMMA FirstIsConfig == FirstConfig \in Config /\ 1 .. SharedTokens \subseteq Token
  BY AdminConstants DEF FirstConfig, Config, Token

LEMMA AdminTypeInit == AdminInit => AdminTypeOK
  <1> SUFFICES ASSUME AdminInit PROVE AdminTypeOK
      OBVIOUS
  <1>1. hooks \in [Project -> Seq(Token)]
    <2>1. 1 \in Token
        BY AdminConstants DEF Token
    <2>2. <<>> \in Seq(Token) /\ <<1>> \in Seq(Token)
        BY <2>1
    <2>3. QED
        BY <2>2 DEF AdminInit
  <1>2. admin \in [AdminRequests -> Locals]
      BY RestIsLocal DEF AdminInit
  <1>3. QED
      BY <1>1, <1>2, FirstIsConfig, AdminConstants DEF AdminInit, AdminTypeOK, Locals, Index, NoToken

\* A request that is about to write a token has one.
HasToken == \A r \in AdminRequests : admin[r].pc \in {"call", "record"} => admin[r].token # NoToken

\* Every action keeps the types.
LEMMA AdminTypeStep == AdminTypeOK /\ HasToken /\ [Step]_adminVars => AdminTypeOK'
  <1> SUFFICES ASSUME AdminTypeOK, HasToken, [Step]_adminVars PROVE AdminTypeOK'
      OBVIOUS
  <1> USE AdminConstants, RestIsLocal, LocalsType DEF settings, files
  <1>1. ASSUME NEW p \in Project, NEW t \in Target, handleAddProject(p, t) PROVE AdminTypeOK'
    <2>1. MapBackfilled(p, t) \in [Project -> Target \cup {DefaultTarget, Unmapped}]
        BY DEF MapBackfilled, AdminTypeOK, Config
    <2>2. QED
        BY <1>1, <2>1 DEF handleAddProject, AdminTypeOK, Config
  <1>2. ASSUME NEW r \in AdminRequests, NEW p \in Project, handleRemoveProject(r, p) PROVE AdminTypeOK'
    <2>1. config' \in Config
        BY <1>2 DEF handleRemoveProject, AdminTypeOK, Config
    <2>2. index' \in Index
        BY <1>2 DEF handleRemoveProject, ForgetToken, AdminTypeOK, Index, NoToken
    <2>3. admin' \in [AdminRequests -> Locals]
        BY <1>2 DEF handleRemoveProject, Locals, AdminPc
    <2>4. QED
        BY <1>2, <2>1, <2>2, <2>3 DEF handleRemoveProject, AdminTypeOK, Locals
  <1>3. ASSUME NEW r \in AdminRequests, NEW p \in Project, NEW rotate \in BOOLEAN, ListHooks(r, p, rotate)
        PROVE AdminTypeOK'
    <2>1. issued + 1 \in Token /\ issued + 1 \in SharedTokens .. MaxTokens
        BY <1>3 DEF ListHooks, AdminTypeOK, Token
    <2>2. admin' \in [AdminRequests -> Locals]
        BY <1>3, <2>1 DEF ListHooks, Locals, AdminPc
    <2>3. QED
        BY <1>3, <2>1, <2>2 DEF ListHooks, AdminTypeOK, Locals
  <1>4. ASSUME NEW r \in AdminRequests, PutHook(r) PROVE AdminTypeOK'
    <2> DEFINE p == admin[r].project
               t == admin[r].token
    <2>1. p \in Project /\ hooks[p] \in Seq(Token)
        BY <1>4 DEF AdminTypeOK, Locals
    <2>2. t \in Token
        BY <1>4 DEF PutHook, HasToken, Locals
    <2>3. [hooks[p] EXCEPT ![1] = t] \in Seq(Token) /\ Append(hooks[p], t) \in Seq(Token)
      <3>1. CASE 1 \in 1 .. Len(hooks[p])
          BY <2>1, <2>2, <3>1, ExceptSeq
      <3>2. CASE 1 \notin 1 .. Len(hooks[p])
        <4>1. [hooks[p] EXCEPT ![1] = t] = hooks[p]
            BY <2>1, <3>2
        <4>2. Append(hooks[p], t) \in Seq(Token)
            BY <2>1, <2>2
        <4>3. QED
            BY <2>1, <4>1, <4>2
      <3>3. QED
          BY <3>1, <3>2
    <2>4. hooks' \in [Project -> Seq(Token)]
        BY <1>4, <2>1, <2>3 DEF PutHook, AdminTypeOK
    <2>5. admin' \in [AdminRequests -> Locals]
        BY <1>4 DEF PutHook, Locals, AdminPc
    <2>6. QED
        BY <1>4, <2>4, <2>5 DEF PutHook, AdminTypeOK, Locals
  <1>5. ASSUME NEW r \in AdminRequests, PutHookFails(r) PROVE AdminTypeOK'
      BY <1>5 DEF PutHookFails, AdminTypeOK, Locals
  <1>6. ASSUME NEW r \in AdminRequests, RecordToken(r) PROVE AdminTypeOK'
    <2> DEFINE a == admin[r]
               old == IF a.rotate THEN Replaced(a.project) ELSE {}
    <2>1. a.project \in Project /\ a.token \in Token
        BY <1>6 DEF RecordToken, HasToken, Locals
    <2>2. (config.secrets \ old) \cup {a.token} \subseteq Token
        BY <2>1 DEF AdminTypeOK, Config
    <2> HIDE DEF old
    <2>3. config' \in Config /\ index' \in Index
        BY <1>6, <2>1, <2>2 DEF RecordToken, AdminTypeOK, Config, Index, old
    <2>4. admin' \in [AdminRequests -> Locals]
        BY <1>6 DEF RecordToken, Locals, AdminPc
    <2>5. QED
        BY <1>6, <2>3, <2>4 DEF RecordToken, AdminTypeOK, Locals
  <1>7. ASSUME NEW r \in AdminRequests, EncodeState(r) PROVE AdminTypeOK'
    <2>1. admin' \in [AdminRequests -> Locals]
        BY <1>7 DEF EncodeState, Locals, AdminPc, AdminTypeOK
    <2>2. QED
        BY <1>7, <2>1 DEF EncodeState, AdminTypeOK, Locals
  <1>8. ASSUME NEW r \in AdminRequests, persistState(r) PROVE AdminTypeOK'
      BY <1>8 DEF persistState, AdminTypeOK, Locals
  <1>9. ASSUME NEW r \in AdminRequests, handleApply(r) PROVE AdminTypeOK'
    <2>1. envFile' \in Config
        BY <1>9 DEF handleApply, AdminTypeOK, Config
    <2>2. admin' \in [AdminRequests -> Locals]
        BY <1>9 DEF handleApply, Locals, AdminPc
    <2>3. QED
        BY <1>9, <2>1, <2>2 DEF handleApply, AdminTypeOK, Locals
  <1>10. ASSUME NEW r \in AdminRequests, ApplyState(r) PROVE AdminTypeOK'
      BY <1>10 DEF ApplyState, AdminTypeOK, Locals
  <1>11. CASE AdminCrash
    <2>1. admin' \in [AdminRequests -> Locals] /\ stops' \in 0 .. MaxStops
        BY <1>11 DEF AdminCrash, AdminTypeOK
    <2>2. QED
        BY <1>11, <2>1 DEF AdminCrash, AdminTypeOK, Locals
  <1>12. CASE Start
    <2>1. index' \in Index
        BY <1>12 DEF Start, PruneLoaded, AdminTypeOK, Index
    <2>2. config' \in Config /\ envFile' \in Config /\ stateFile' \in Index
        BY <1>12 DEF Start, AdminTypeOK
    <2>3. admin' \in [AdminRequests -> Locals]
        BY <1>12 DEF Start
    <2>4. QED
        BY <1>12, <2>1, <2>2, <2>3 DEF Start, AdminTypeOK, Locals
  <1>13. CASE UNCHANGED adminVars
      BY <1>13 DEF adminVars, AdminTypeOK
  <1>14. QED
      BY <1>1, <1>2, <1>3, <1>4, <1>5, <1>6, <1>7, <1>8, <1>9, <1>10, <1>11, <1>12, <1>13
      DEF Step, AdminNext

-----------------------------------------------------------------------------
(***************************************************************************)
(* The map.  Everything that becomes the configuration is covered: the     *)
(* live one, and the one that apply has written.                           *)
(***************************************************************************)
Covered(c) ==
    /\ Mapped(c) # {} => c.allowed \subseteq Mapped(c)
    /\ Mapped(c) \subseteq c.allowed

MapInv == Covered(config) /\ Covered(envFile)

LEMMA MapInvInit == AdminInit => MapInv
  BY DEF AdminInit, FirstConfig, MapInv, Covered, Mapped

\* Every action keeps both configurations covered.
LEMMA MapInvStep == AdminTypeOK /\ MapInv /\ [Step]_adminVars => MapInv'
  <1> SUFFICES ASSUME AdminTypeOK, MapInv, [Step]_adminVars PROVE MapInv'
      OBVIOUS
  <1> USE AdminConstants DEF settings, files
  <1>1. ASSUME NEW p \in Project, NEW t \in Target, handleAddProject(p, t) PROVE MapInv'
    <2>1. Mapped(config') = config.allowed \cup {p} /\ config'.allowed = config.allowed \cup {p}
        BY <1>1 DEF handleAddProject, MapBackfilled, Mapped, AdminTypeOK, Config
    <2>2. QED
        BY <1>1, <2>1 DEF handleAddProject, MapInv, Covered, Mapped
  <1>2. ASSUME NEW r \in AdminRequests, NEW p \in Project, handleRemoveProject(r, p) PROVE MapInv'
    <2>1. Mapped(config') = Mapped(config) \ {p} /\ config'.allowed = config.allowed \ {p}
        BY <1>2 DEF handleRemoveProject, Mapped, AdminTypeOK, Config
    <2>2. QED
        BY <1>2, <2>1 DEF handleRemoveProject, MapInv, Covered, Mapped
  <1>3. ASSUME NEW r \in AdminRequests, RecordToken(r) PROVE MapInv'
    <2>1. Mapped(config') = Mapped(config) /\ config'.allowed = config.allowed
        BY <1>3 DEF RecordToken, Mapped, AdminTypeOK, Config
    <2>2. QED
        BY <1>3, <2>1 DEF RecordToken, MapInv, Covered, Mapped
  <1>4. ASSUME NEW r \in AdminRequests, handleApply(r) PROVE MapInv'
    <2>1. Mapped(envFile') = config.allowed /\ envFile'.allowed = config.allowed
        BY <1>4 DEF handleApply, Mapped, AdminTypeOK, Config
    <2>2. QED
        BY <1>4, <2>1 DEF handleApply, MapInv, Covered, Mapped
  <1>5. CASE Start
      BY <1>5 DEF Start, MapInv
  <1>6. CASE UNCHANGED <<config, envFile>>
      BY <1>6 DEF MapInv, Covered, Mapped
  <1>7. QED
      BY <1>1, <1>2, <1>3, <1>4, <1>5, <1>6
      DEF Step, AdminNext, ListHooks, PutHook, PutHookFails, EncodeState, persistState, ApplyState,
          AdminCrash, adminVars

-----------------------------------------------------------------------------
(***************************************************************************)
(* The tokens.  An index names every token for at most one project, and    *)
(* only tokens generated so far, never a shared one; the token a request   *)
(* carries is named by no index of the running process.                    *)
(***************************************************************************)
Dedicated(i, n) ==
    /\ \A p \in Project : i[p] # NoToken => SharedTokens < i[p] /\ i[p] <= n
    /\ \A p, q \in Project : i[p] # NoToken /\ p # q => i[p] # i[q]

Carries(r) == admin[r].pc \in {"call", "record"}

TokenInv ==
    /\ 1 .. SharedTokens \subseteq config.secrets /\ 1 .. SharedTokens \subseteq envFile.secrets
    /\ Dedicated(index, issued) /\ Dedicated(stateFile, issued)
    /\ \A r \in AdminRequests : Dedicated(admin[r].saved, issued)
    /\ \A r \in AdminRequests : Carries(r) =>
           /\ SharedTokens < admin[r].token /\ admin[r].token <= issued
           /\ \A p \in Project : index[p] # admin[r].token
           /\ \A s \in AdminRequests : Carries(s) /\ s # r => admin[s].token # admin[r].token
    /\ ~running => \A r \in AdminRequests : ~Carries(r)
    /\ IndexedIsAccepted

LEMMA TokenInvInit == AdminInit => TokenInv
  BY AdminConstants
  DEF AdminInit, FirstConfig, TokenInv, Dedicated, Carries, Rest, AdminIdle, IndexedIsAccepted, NoToken

\* A token that only grows older stays dedicated.
LEMMA DedicatedGrows ==
  ASSUME NEW i \in Index, NEW n \in Nat, NEW k \in Nat, n <= k, Dedicated(i, n)
  PROVE  Dedicated(i, k)
  BY AdminConstants DEF Dedicated, Index, Token, NoToken

\* What a rotation removes is named by the rotated project only, and is no
\* shared token.
LEMMA ReplacedIsOwn ==
  ASSUME SharedTokens >= 2, AdminTypeOK, TokenInv, NEW p \in Project, NEW x \in Replaced(p)
  PROVE  index[p] # NoToken /\ x = index[p]
  <1>1. 1 \in config.secrets /\ 2 \in config.secrets
      BY AdminConstants DEF TokenInv
  <1>2. IsFiniteSet(config.secrets)
    <2>1. IsFiniteSet(Token)
        BY AdminConstants, FS_Interval DEF Token
    <2>2. QED
        BY <2>1, FS_Subset DEF AdminTypeOK, Config
  <1>3. Cardinality(config.secrets) # 1
      BY <1>1, <1>2, FS_Singleton
  <1>4. QED
      BY <1>3 DEF Replaced

\* Between two requests nothing is carried and nothing is saved.
LEMMA RestSaysNothing ==
  /\ Rest.pc = "idle"
  /\ \A p \in Project : Rest.saved[p] = NoToken
  BY DEF Rest, AdminIdle

\* Every action keeps the tokens apart.
LEMMA TokenInvStep ==
  ASSUME SharedTokens >= 2
  PROVE  AdminTypeOK /\ AdminTypeOK' /\ TokenInv /\ [Step]_adminVars => TokenInv'
  <1> SUFFICES ASSUME AdminTypeOK, AdminTypeOK', TokenInv, [Step]_adminVars PROVE TokenInv'
      OBVIOUS
  <1> USE AdminConstants DEF settings, files
  <1> USE RestSaysNothing
  <1>1. ASSUME NEW p \in Project, NEW t \in Target, handleAddProject(p, t) PROVE TokenInv'
    <2>1. config'.secrets = config.secrets
        BY <1>1 DEF handleAddProject, AdminTypeOK, Config
    <2>2. QED
        BY <1>1, <2>1 DEF handleAddProject, TokenInv, Dedicated, Carries, IndexedIsAccepted
  <1>2. ASSUME NEW r \in AdminRequests, NEW p \in Project, handleRemoveProject(r, p) PROVE TokenInv'
    <2>1. config'.secrets = config.secrets \ {index[p]}
        BY <1>2 DEF handleRemoveProject
    <2>2. \A q \in Project : index'[q] = IF q = p THEN NoToken ELSE index[q]
        BY <1>2 DEF handleRemoveProject, ForgetToken, AdminTypeOK, Index
    <2>3. /\ 1 .. SharedTokens \subseteq config'.secrets
          /\ Dedicated(index', issued')
          /\ IndexedIsAccepted'
      <3>1. index[p] = NoToken \/ SharedTokens < index[p]
          BY DEF TokenInv, Dedicated
      <3>2. 1 .. SharedTokens \subseteq config'.secrets
        <4>1. index[p] \notin 1 .. SharedTokens
            BY <3>1 DEF AdminTypeOK, Index, Token, NoToken
        <4>3. QED
            BY <2>1, <4>1 DEF TokenInv
      <3>3. Dedicated(index', issued')
          BY <1>2, <2>2 DEF handleRemoveProject, TokenInv, Dedicated
      <3>4. IndexedIsAccepted'
          BY <1>2, <2>1, <2>2 DEF handleRemoveProject, TokenInv, Dedicated, IndexedIsAccepted
      <3>5. QED
          BY <3>2, <3>3, <3>4
    <2>4. \A s \in AdminRequests :
             IF s = r THEN ~Carries(s)' /\ admin'[s].saved = Rest.saved ELSE admin'[s] = admin[s]
        BY <1>2 DEF handleRemoveProject, AdminTypeOK, Carries, Rest, AdminIdle
    <2>5. QED
        BY <1>2, <2>2, <2>3, <2>4 DEF handleRemoveProject, TokenInv, Dedicated, Carries, NoToken
  <1>3. ASSUME NEW r \in AdminRequests, NEW p \in Project, NEW rotate \in BOOLEAN, ListHooks(r, p, rotate)
        PROVE TokenInv'
    <2>1. issued \in Nat /\ issued' = issued + 1 /\ issued' \in Nat /\ SharedTokens <= issued
        BY <1>3 DEF ListHooks, AdminTypeOK
    <2>2. \A s \in AdminRequests :
             IF s = r THEN admin'[s].token = issued + 1 /\ admin'[s].saved = Rest.saved
             ELSE admin'[s] = admin[s]
        BY <1>3 DEF ListHooks, AdminTypeOK, Rest, AdminIdle
    <2>3. \A s \in AdminRequests : admin[s].saved \in Index
        BY DEF AdminTypeOK
    <2>4. /\ Dedicated(index, issued') /\ Dedicated(stateFile, issued')
          /\ \A s \in AdminRequests : Dedicated(admin'[s].saved, issued')
      <3>1. \A i \in Index : Dedicated(i, issued) => Dedicated(i, issued')
          BY <2>1, DedicatedGrows
      <3>2. Dedicated(Rest.saved, issued')
          BY DEF Dedicated
      <3>3. QED
          BY <2>2, <2>3, <3>1, <3>2 DEF TokenInv, AdminTypeOK
    <2>5. \A q \in Project : index[q] # issued + 1
      <3>1. \A q \in Project : index[q] \in {NoToken} \cup Token
          BY DEF AdminTypeOK, Index
      <3>2. \A q \in Project : index[q] # NoToken => index[q] <= issued
          BY DEF TokenInv, Dedicated
      <3>3. QED
          BY <2>1, <3>1, <3>2 DEF Token, NoToken
    <2>6. \A s \in AdminRequests : Carries(s)' =>
             /\ SharedTokens < admin'[s].token /\ admin'[s].token <= issued'
             /\ \A q \in Project : index[q] # admin'[s].token
             /\ \A u \in AdminRequests : Carries(u)' /\ u # s => admin'[u].token # admin'[s].token
      <3>1. \A s \in AdminRequests : s # r /\ Carries(s)' => admin[s].token \in Nat /\ admin[s].token <= issued
        <4>1. \A s \in AdminRequests : admin[s] \in Locals
            BY LocalsType
        <4>2. \A s \in AdminRequests : admin[s].token \in Nat
            BY <4>1 DEF Locals, Token, NoToken
        <4>3. QED
            BY <2>2, <4>2 DEF TokenInv, Carries
      <3>2. QED
          BY <2>1, <2>2, <2>5, <3>1 DEF TokenInv, Carries
    <2>7. QED
        BY <1>3, <2>4, <2>6 DEF ListHooks, TokenInv, IndexedIsAccepted, Dedicated
  <1>4. ASSUME NEW r \in AdminRequests, PutHook(r) PROVE TokenInv'
    <2>1. \A s \in AdminRequests :
             \/ admin'[s].token = admin[s].token /\ admin'[s].saved = admin[s].saved /\ (Carries(s)' => Carries(s))
             \/ ~Carries(s)' /\ admin'[s].saved = Rest.saved
        BY <1>4 DEF PutHook, AdminTypeOK, Carries, Rest, AdminIdle
    <2>2. QED
        BY <1>4, <2>1 DEF PutHook, TokenInv, Dedicated, IndexedIsAccepted
  <1>5. ASSUME NEW r \in AdminRequests, PutHookFails(r) PROVE TokenInv'
      BY <1>5 DEF PutHookFails, AdminTypeOK, TokenInv, Dedicated, Carries, IndexedIsAccepted
  <1>6. ASSUME NEW r \in AdminRequests, RecordToken(r) PROVE TokenInv'
    <2> DEFINE a == admin[r]
               old == IF a.rotate THEN Replaced(a.project) ELSE {}
    <2>1. /\ a.project \in Project /\ Carries(r)
          /\ config'.secrets = (config.secrets \ old) \cup {a.token}
        BY <1>6 DEF RecordToken, AdminTypeOK, Carries, Config
    <2>2. \A x \in old : index[a.project] # NoToken /\ x = index[a.project]
        BY <2>1, ReplacedIsOwn
    <2> HIDE DEF old
    <2>3. \A q \in Project : index'[q] = IF q = a.project THEN a.token ELSE index[q]
        BY <1>6 DEF RecordToken, AdminTypeOK, Index
    <2>4. /\ 1 .. SharedTokens \subseteq config'.secrets
          /\ Dedicated(index', issued')
          /\ IndexedIsAccepted'
      <3>1. \A x \in old : SharedTokens < x
          BY <2>1, <2>2 DEF TokenInv, Dedicated
      <3>2. 1 .. SharedTokens \subseteq config'.secrets
          BY <2>1, <2>2, <3>1 DEF TokenInv, AdminTypeOK, Index, Token, NoToken
      <3>3. Dedicated(index', issued')
          BY <1>6, <2>1, <2>3 DEF RecordToken, TokenInv, Dedicated
      <3>4. IndexedIsAccepted'
          BY <1>6, <2>1, <2>2, <2>3 DEF RecordToken, TokenInv, Dedicated, IndexedIsAccepted
      <3>5. QED
          BY <3>2, <3>3, <3>4
    <2>5. \A s \in AdminRequests :
             /\ admin'[s].token = admin[s].token /\ admin'[s].saved = admin[s].saved
             /\ Carries(s)' => Carries(s) /\ s # r
        BY <1>6 DEF RecordToken, AdminTypeOK, Carries
    <2>6. \A s \in AdminRequests : Carries(s)' => \A q \in Project : index'[q] # admin'[s].token
        BY <2>1, <2>3, <2>5 DEF TokenInv
    <2>7. QED
        BY <1>6, <2>4, <2>5, <2>6 DEF RecordToken, TokenInv, Dedicated
  <1>7. ASSUME NEW r \in AdminRequests, EncodeState(r) PROVE TokenInv'
    <2>1. \A s \in AdminRequests :
             \/ admin'[s] = admin[s]
             \/ ~Carries(s)' /\ admin'[s].saved = index
        BY <1>7 DEF EncodeState, AdminTypeOK, Carries, Rest, AdminIdle
    <2>2. QED
        BY <1>7, <2>1 DEF EncodeState, TokenInv, Dedicated, Carries, IndexedIsAccepted
  <1>8. ASSUME NEW r \in AdminRequests, persistState(r) PROVE TokenInv'
    <2>1. \A s \in AdminRequests : admin'[s] = admin[s] \/ (~Carries(s)' /\ admin'[s].saved = Rest.saved)
        BY <1>8 DEF persistState, AdminTypeOK, Carries
    <2>2. QED
        BY <1>8, <2>1 DEF persistState, TokenInv, Dedicated, Carries, IndexedIsAccepted
  <1>9. ASSUME NEW r \in AdminRequests, handleApply(r) PROVE TokenInv'
    <2>1. \A s \in AdminRequests : admin'[s] = admin[s] \/ (~Carries(s)' /\ admin'[s].saved = Rest.saved)
        BY <1>9 DEF handleApply, AdminTypeOK, Carries, Rest, AdminIdle
    <2>2. envFile'.secrets = config.secrets
        BY <1>9 DEF handleApply, AdminTypeOK, Config
    <2>3. QED
        BY <1>9, <2>1, <2>2 DEF handleApply, TokenInv, Dedicated, Carries, IndexedIsAccepted
  <1>10. ASSUME NEW r \in AdminRequests, ApplyState(r) PROVE TokenInv'
    <2>1. \A s \in AdminRequests : admin'[s] = admin[s] \/ (~Carries(s)' /\ admin'[s].saved = Rest.saved)
        BY <1>10 DEF ApplyState, AdminTypeOK, Carries
    <2>2. QED
        BY <1>10, <2>1 DEF ApplyState, TokenInv, Dedicated, Carries, IndexedIsAccepted
  <1>11. CASE AdminCrash
      BY <1>11 DEF AdminCrash, TokenInv, Dedicated, Carries, IndexedIsAccepted
  <1>12. CASE Start
    <2>1. \A p \in Project : index'[p] = IF stateFile[p] \in envFile.secrets THEN stateFile[p] ELSE NoToken
        BY <1>12 DEF Start, PruneLoaded
    <2>2. Dedicated(index', issued) /\ IndexedIsAccepted'
        BY <1>12, <2>1 DEF Start, TokenInv, Dedicated, IndexedIsAccepted
    <2>3. \A r \in AdminRequests : ~Carries(r)
        BY <1>12 DEF Start, TokenInv
    <2>4. QED
        BY <1>12, <2>2, <2>3 DEF Start, TokenInv, Dedicated, Carries
  <1>13. CASE UNCHANGED adminVars
      BY <1>13 DEF adminVars, TokenInv, Dedicated, Carries, IndexedIsAccepted
  <1>14. QED
      BY <1>1, <1>2, <1>3, <1>4, <1>5, <1>6, <1>7, <1>8, <1>9, <1>10, <1>11, <1>12, <1>13
      DEF Step, AdminNext

-----------------------------------------------------------------------------
(***************************************************************************)
(* The theorems.                                                           *)
(***************************************************************************)
LEMMA HasTokenStep == AdminTypeOK /\ HasToken /\ [Step]_adminVars => HasToken'
  <1> SUFFICES ASSUME AdminTypeOK, HasToken, [Step]_adminVars, NEW s \in AdminRequests
               PROVE  (admin[s].pc \in {"call", "record"} => admin[s].token # NoToken)'
      BY DEF HasToken
  <1> USE RestSaysNothing DEF HasToken, AdminTypeOK
  <1>1. ASSUME NEW r \in AdminRequests, NEW p \in Project, NEW rotate \in BOOLEAN, ListHooks(r, p, rotate)
        PROVE (admin[s].pc \in {"call", "record"} => admin[s].token # NoToken)'
      BY <1>1, AdminConstants DEF ListHooks, NoToken
  <1>2. ASSUME NEW r \in AdminRequests, PutHook(r)
        PROVE (admin[s].pc \in {"call", "record"} => admin[s].token # NoToken)'
      BY <1>2 DEF PutHook
  <1>3. ASSUME NEW r \in AdminRequests,
               \/ \E p \in Project : handleRemoveProject(r, p)
               \/ PutHookFails(r) \/ RecordToken(r) \/ EncodeState(r) \/ persistState(r)
               \/ handleApply(r) \/ ApplyState(r)
        PROVE (admin[s].pc \in {"call", "record"} => admin[s].token # NoToken)'
    <2>1. ASSUME NEW p \in Project, handleRemoveProject(r, p) PROVE (admin[s].pc \in {"call", "record"} => admin[s].token # NoToken)'
        BY <2>1 DEF handleRemoveProject
    <2>2. CASE PutHookFails(r)
        BY <2>2 DEF PutHookFails
    <2>3. CASE RecordToken(r)
        BY <2>3 DEF RecordToken
    <2>4. CASE EncodeState(r)
        BY <2>4 DEF EncodeState
    <2>5. CASE persistState(r)
        BY <2>5 DEF persistState
    <2>6. CASE handleApply(r)
        BY <2>6 DEF handleApply
    <2>7. CASE ApplyState(r)
        BY <2>7 DEF ApplyState
    <2>8. QED
        BY <1>3, <2>1, <2>2, <2>3, <2>4, <2>5, <2>6, <2>7
  <1>4. CASE AdminCrash
      BY <1>4 DEF AdminCrash
  <1>5. CASE UNCHANGED admin
      BY <1>5
  <1>6. QED
      BY <1>1, <1>2, <1>3, <1>4, <1>5 DEF Step, AdminNext, handleAddProject, Start, adminVars

AdminInv == AdminTypeOK /\ HasToken

(***************************************************************************)
(* Configuration, index, files and locals keep their types.                *)
(***************************************************************************)
THEOREM AdminTypeCorrect == AdminSpec => []AdminInv
  <1>1. AdminInit => AdminInv
      BY AdminTypeInit, RestSaysNothing DEF AdminInit, AdminInv, HasToken
  <1>2. AdminInv /\ [Step]_adminVars => AdminInv'
      BY AdminTypeStep, HasTokenStep DEF AdminInv
  <1>3. QED
      BY <1>1, <1>2, PTL DEF AdminSpec, Step

(***************************************************************************)
(* Whatever requests add and remove, and whichever file a start reads, all *)
(* projects of the allowlist are mapped as soon as one is (handleAddProject *)
(* and handleApply in admin.go, loadProjectMap in main.go).                *)
(***************************************************************************)
THEOREM MapCovers == AdminSpec => []MapCoversAllowlist
  <1>1. AdminInv /\ MapInv /\ [Step]_adminVars => MapInv'
      BY MapInvStep DEF AdminInv
  <1>2. MapInv => MapCoversAllowlist
      BY DEF MapInv, Covered, MapCoversAllowlist
  <1>3. QED
      BY AdminTypeCorrect, MapInvInit, <1>1, <1>2, PTL DEF AdminSpec, Step

(***************************************************************************)
(* If the first configuration has two signing tokens, a token that the     *)
(* index names is accepted, for every number of overlapping requests and   *)
(* restarts.  With one it is not so: handleRotateToken takes the only      *)
(* token for the project's own (admin.go:555).                             *)
(***************************************************************************)
THEOREM IndexAccepted ==
  ASSUME SharedTokens >= 2
  PROVE  AdminSpec => []IndexedIsAccepted
  <1>1. AdminInv /\ AdminInv' /\ TokenInv /\ [Step]_adminVars => TokenInv'
      BY TokenInvStep DEF AdminInv
  <1>2. TokenInv => IndexedIsAccepted
      BY DEF TokenInv
  <1>3. QED
      BY AdminTypeCorrect, TokenInvInit, <1>1, <1>2, PTL DEF AdminSpec, Step
=============================================================================
