--------------------- MODULE ConnectionOnboardingProofs ---------------------
(***************************************************************************)
(* Theorems about ConnectionOnboarding, for every set of runs, operations, *)
(* sources and requests and every number of projects, Connections and      *)
(* faults.                                                                 *)
(***************************************************************************)
EXTENDS ConnectionOnboarding, FiniteSetTheorems, WellFoundedInduction, TLAPS

-----------------------------------------------------------------------------
(***************************************************************************)
(* Rows.                                                                   *)
(***************************************************************************)
Bindings == [status : ConnectionStatus, source : Sources, target : Targets \cup {NoTarget}]
Checkpoints == (1 .. Len(Steps)) \X Objects \X Ownership

RowsOK ==
    /\ operation \in [Operations -> [status : OperationStatus, conn : Connections \cup {NoConnection},
                                  wanted : Sources \X ({Created} \cup Targets)]]
    /\ targetOf \in [Operations -> Targets \cup {NoTarget}]
    /\ done \in [Operations -> SUBSET Checkpoints]
    /\ connection \in [Connections -> Bindings]
    /\ resources \subseteq Connections \X Objects \X Ownership
    /\ projects \in [Targets -> Sources \cup {"absent", "other"}]
    /\ objects \in [Objects -> {"absent", "foreign", "specwire"}]
    /\ faults \in 0 .. MaxFaults
    /\ mixed \subseteq Operations

\* A Connection that exists has a target, and an operation refers to one that exists.
Exists(c) == connection[c].status # "absent"

RowsLinked ==
    /\ \A c \in Connections : Exists(c) => connection[c].target # NoTarget
    /\ \A o \in Operations : operation[o].conn # NoConnection => Exists(operation[o].conn)

\* What is called managed has been created here.
RowsManaged ==
    /\ \A o \in Operations : \A d \in done[o] : d[3] = "managed" => objects[d[2]] = "specwire"
    /\ ManagedIsOurs

(***************************************************************************)
(* Runs.  What a run relies on, by the call it is about to make.           *)
(***************************************************************************)
Locals == [pc : RunPc, op : Operations, source : Sources, wanted : Targets \cup {Created},
           conn : Connections \cup {NoConnection}, target : Targets \cup {NoTarget},
           step : 1 .. Len(Steps) + 1, object : Objects, own : Ownership]

NeedsConnection == {"getConnection", "link", "adopt", "read", "ensure", "row", "checkpoint"}
NeedsTarget == {"targetCheckpoint", "createConnection", "link", "adopt", "read", "ensure", "row", "checkpoint"}
NeedsStep == {"ensure", "row", "checkpoint"}

RunOK(r) ==
    /\ run[r].conn # NoConnection => Exists(run[r].conn)
    /\ run[r].pc \in NeedsConnection => run[r].conn # NoConnection
    /\ run[r].pc \in NeedsTarget => run[r].target # NoTarget
    /\ run[r].pc \in NeedsStep => run[r].step <= Len(Steps)
    /\ run[r].pc \in {"row", "checkpoint"} /\ run[r].own = "managed" => objects[run[r].object] = "specwire"

RunsOK == run \in [Runs -> Locals] /\ \A r \in Runs : RunOK(r)

OnboardingInv == RowsOK /\ RowsLinked /\ RowsManaged /\ RunsOK /\ OneToOne

-----------------------------------------------------------------------------
(***************************************************************************)
(* Small facts.                                                            *)
(***************************************************************************)
\* First is the least number of a set that is not empty.
LEMMA FirstIsMember == ASSUME NEW S, S \subseteq Nat, S # {} PROVE First(S) \in S
  <1> DEFINE R == OpToRel(<, Nat)
  <1>1. SUFFICES \E n \in S : \A m \in S : n <= m
      BY DEF First
  <1>2. \E x \in S : \A y \in S : ~ (<<y, x>> \in R)
      BY WFMin, NatLessThanWellFounded, Zenon
  <1>3. \A x, y \in Nat : <<y, x>> \in R <=> y < x
      BY DEF OpToRel
  <1> HIDE DEF R
  <1>4. \E x \in S : \A y \in S : ~ (y < x)
      BY <1>2, <1>3, Zenon
  <1>5. QED
      BY <1>4

LEMMA Numbers == Connections \subseteq Nat /\ Targets \subseteq Nat /\ NoConnection \notin Connections /\ NoTarget \notin Targets
  BY OnboardingConstants DEF Connections, Targets, NoConnection, NoTarget

\* Objects of a target that exists are objects.
LEMMA ObjectIsObject ==
  ASSUME NEW k \in {"label", "repository", "project"}, NEW s \in Sources, NEW t \in Targets
  PROVE  Object(k, s, t) \in Objects
  BY DEF Objects

LEMMA RestingIsLocal == Resting \in Locals /\ Resting.pc = "idle" /\ Resting.conn = NoConnection /\ NoObject \in Objects
  <1>1. (CHOOSE o \in Operations : TRUE) \in Operations /\ (CHOOSE s \in Sources : TRUE) \in Sources
      BY OnboardingConstants
  <1>2. 1 \in Targets
      BY OnboardingConstants DEF Targets
  <1>3. NoObject \in Objects
    <2>1. PICK s \in Sources : TRUE
        BY OnboardingConstants
    <2>2. Object("label", s, 1) \in Objects
        BY <1>2, <2>1, ObjectIsObject
    <2>3. QED
        BY <2>2 DEF NoObject
  <1>4. Len(Steps) \in Nat
      BY OnboardingConstants
  <1>5. QED
      BY <1>1, <1>3, <1>4 DEF Resting, Idle, Locals, RunPc, Created, NoConnection, NoTarget, Ownership

-----------------------------------------------------------------------------
(***************************************************************************)
(* Steps.                                                                  *)
(***************************************************************************)
\* What is never lost.
Grows ==
    /\ \A c \in Connections : Exists(c) => Exists(c)'
    /\ \A x \in Objects : objects[x] = "specwire" => objects'[x] = "specwire"

LEMMA RunMoves ==
  ASSUME RunsOK, Grows, NEW r \in Runs, run' \in [Runs -> Locals],
         \A q \in Runs \ {r} : run'[q] = run[q], RunOK(r)'
  PROVE  RunsOK'
  <1>1. ASSUME NEW q \in Runs \ {r} PROVE RunOK(q)'
    <2>1. run[q] \in Locals /\ run'[q] = run[q] /\ RunOK(q)
        BY DEF RunsOK
    <2>2. run[q].conn \in Connections \cup {NoConnection} /\ run[q].object \in Objects
        BY <2>1 DEF Locals
    <2>3. QED
        BY <2>1, <2>2 DEF RunOK, Grows
  <1>2. QED
      BY <1>1 DEF RunsOK

LEMMA RowsStay ==
  ASSUME OnboardingInv, UNCHANGED <<rows, provider>>, faults' \in 0 .. MaxFaults, mixed' \subseteq Operations
  PROVE  RowsOK' /\ RowsLinked' /\ RowsManaged' /\ OneToOne' /\ Grows
  BY DEF OnboardingInv, RowsOK, RowsLinked, RowsManaged, ManagedIsOurs, OneToOne, Active, Exists, Grows, rows, provider

\* A step that only moves one run.
LEMMA RunOnly ==
  ASSUME OnboardingInv, UNCHANGED <<rows, provider>>, faults' \in 0 .. MaxFaults, mixed' \subseteq Operations,
         NEW r \in Runs, run' \in [Runs -> Locals],
         \A q \in Runs \ {r} : run'[q] = run[q], RunOK(r)'
  PROVE  OnboardingInv'
  BY RowsStay, RunMoves DEF OnboardingInv

\* A run that is settled, or has ended.
LEMMA SettlingIsLocal ==
  ASSUME RunsOK, NEW r \in Runs, NEW l \in {"failed", "finish"}
  PROVE  Settling(r, l) \in Locals /\ Settling(r, l).pc = l /\ Settling(r, l).conn = run[r].conn
  <1>1. run[r] \in Locals
      BY DEF RunsOK
  <1>2. QED
      BY <1>1, RestingIsLocal DEF Settling, Locals, RunPc

LEMMA SettlingIsFine ==
  ASSUME RunsOK, Grows, NEW r \in Runs, NEW l \in {"failed", "finish"}, GotoEnd(r, l)
  PROVE  RunsOK'
  <1>1. run' = [run EXCEPT ![r] = Settling(r, l)] /\ run \in [Runs -> Locals]
      BY DEF GotoEnd, RunsOK
  <1>2. run' \in [Runs -> Locals] /\ \A q \in Runs \ {r} : run'[q] = run[q]
      BY <1>1, SettlingIsLocal
  <1>3. run'[r].pc = l /\ run'[r].conn = run[r].conn /\ run[r].conn \in Connections \cup {NoConnection}
      BY <1>1, SettlingIsLocal DEF Locals
  <1>4. RunOK(r)'
      BY <1>3 DEF RunOK, RunsOK, Grows, NeedsConnection, NeedsTarget, NeedsStep
  <1>5. QED
      BY <1>2, <1>4, RunMoves

LEMMA EndIsFine ==
  ASSUME RunsOK, Grows, NEW r \in Runs, End(r)
  PROVE  RunsOK'
  <1>1. run' \in [Runs -> Locals] /\ \A q \in Runs \ {r} : run'[q] = run[q]
      BY RestingIsLocal DEF End, RunsOK
  <1>2. RunOK(r)'
      BY RestingIsLocal DEF End, RunOK, RunsOK, NeedsConnection, NeedsTarget, NeedsStep
  <1>3. QED
      BY <1>1, <1>2, RunMoves

\* A run goes on with new locals, or just goes on.
LEMMA RunTakes ==
  ASSUME RunsOK, NEW r \in Runs, NEW y \in Locals, run' = [run EXCEPT ![r] = y]
  PROVE  run' \in [Runs -> Locals] /\ run'[r] = y /\ \A q \in Runs \ {r} : run'[q] = run[q]
  BY DEF RunsOK

LEMMA RunGoes ==
  ASSUME RunsOK, NEW r \in Runs, NEW l \in RunPc, Goto(r, l)
  PROVE  /\ run' \in [Runs -> Locals] /\ \A q \in Runs \ {r} : run'[q] = run[q]
         /\ run'[r] = [run[r] EXCEPT !.pc = l]
  <1>1. run[r] \in Locals
      BY DEF RunsOK
  <1>2. [run[r] EXCEPT !.pc = l] \in Locals
      BY <1>1 DEF Locals
  <1>3. run' = [run EXCEPT ![r] = [run[r] EXCEPT !.pc = l]]
      BY DEF Goto, RunsOK
  <1>4. QED
      BY <1>2, <1>3, RunTakes

\* Where a run may go without changing a row.
LEMMA GoesOn ==
  ASSUME OnboardingInv, UNCHANGED <<rows, provider>>, faults' \in 0 .. MaxFaults, mixed' \subseteq Operations,
         NEW r \in Runs, NEW l \in RunPc, Goto(r, l),
         l \in NeedsConnection => run[r].conn # NoConnection,
         l \in NeedsTarget => run[r].target # NoTarget,
         l \in NeedsStep => run[r].step <= Len(Steps),
         l \notin {"row", "checkpoint"}
  PROVE  OnboardingInv'
  <1>1. RunsOK /\ run[r] \in Locals
      BY DEF OnboardingInv, RunsOK
  <1>2. /\ run' \in [Runs -> Locals] /\ \A q \in Runs \ {r} : run'[q] = run[q]
        /\ run'[r] = [run[r] EXCEPT !.pc = l]
      BY <1>1, RunGoes
  <1>3. /\ run'[r].pc = l /\ run'[r].conn = run[r].conn /\ run'[r].target = run[r].target
        /\ run'[r].step = run[r].step
      BY <1>1, <1>2 DEF Locals
  <1>4. RunOK(r)'
      BY <1>1, <1>3 DEF RunsOK, RunOK, Exists, rows
  <1>5. QED
      BY <1>2, <1>4, RunOnly

\* Every call a run can be about to make.
LEMMA Pcs == {"idle", "insert", "getConnection", "findSource", "findTarget", "ensureTarget", "createProject",
              "targetCheckpoint", "createConnection", "link", "adopt", "read", "ensure", "row", "checkpoint",
              "probe", "finish", "failed"} = RunPc
  BY DEF RunPc

\* New locals of a run.
LEMMA NewLocals ==
  ASSUME NEW x \in Locals, NEW l \in RunPc
  PROVE  /\ \A c \in Connections \cup {NoConnection} : [x EXCEPT !.conn = c, !.pc = l] \in Locals
         /\ \A t \in Targets \cup {NoTarget} : [x EXCEPT !.target = t, !.pc = l] \in Locals
         /\ \A c \in Connections \cup {NoConnection}, t \in Targets \cup {NoTarget} :
                [x EXCEPT !.conn = c, !.target = t, !.pc = l] \in Locals
         /\ \A b \in Objects, w \in Ownership : [x EXCEPT !.object = b, !.own = w, !.pc = l] \in Locals
  BY DEF Locals

\* Steps that change no row.
LEMMA RunSteps ==
  ASSUME OnboardingInv, NEW r \in Runs,
         \/ \E o \in Operations, q \in Sources \X (Targets \cup {Created}) : Request(r, o, q)
         \/ GetConnection(r) \/ FindActiveConnectionBySource(r) \/ FindActiveConnectionByTarget(r)
         \/ EnsureTargetProject(r) \/ ReadCheckpoint(r) \/ StepFails(r)
  PROVE  OnboardingInv'
  <1> USE OnboardingConstants DEF OnboardingInv
  <1>1. ASSUME NEW o \in Operations, NEW q \in Sources \X (Targets \cup {Created}),
               Request(r, o, q) PROVE OnboardingInv'
    <2>1. q[1] \in Sources /\ q[2] \in Targets \cup {Created} /\ Len(Steps) \in Nat
        OBVIOUS
    <2>2. NoObject \in Objects
        BY RestingIsLocal
    <2>3. [Idle(o, q[1]) EXCEPT !.pc = "insert", !.wanted = q[2]] \in Locals
      <3>1. "idle" \in RunPc /\ "insert" \in RunPc /\ 1 \in 1 .. Len(Steps) + 1 /\ "managed" \in Ownership
          BY <2>1, Pcs DEF Ownership
      <3>2. Idle(o, q[1]) \in Locals
          BY <2>1, <2>2, <3>1 DEF Idle, Locals, Created, NoConnection, NoTarget
      <3>3. QED
          BY <2>1, <3>1, <3>2 DEF Locals
    <2>4. run' \in [Runs -> Locals] /\ \A p \in Runs \ {r} : run'[p] = run[p]
        BY <1>1, <2>3, RunTakes DEF Request
    <2>5. run'[r].pc = "insert" /\ run'[r].conn = NoConnection
        BY <1>1 DEF Request, RunsOK, Idle
    <2>6. RunOK(r)'
        BY <2>5 DEF RunOK, NeedsConnection, NeedsTarget, NeedsStep
    <2>7. faults' \in 0 .. MaxFaults /\ mixed' \subseteq Operations /\ UNCHANGED <<rows, provider>>
        BY <1>1 DEF Request, RowsOK
    <2>8. QED
        BY <2>4, <2>6, <2>7, RunOnly
  <1>2. ASSUME GetConnection(r) PROVE OnboardingInv'
    <2>1. run[r].conn \in Connections /\ connection[run[r].conn].target \in Targets \cup {NoTarget}
          /\ connection[run[r].conn].target # NoTarget
        BY <1>2 DEF GetConnection, RunsOK, RunOK, NeedsConnection, RowsOK, RowsLinked, Bindings, Locals
    <2>2. run' \in [Runs -> Locals]
        BY <1>2, <2>1 DEF GetConnection, RunsOK, Locals, RunPc, Created, NoTarget, NoConnection
    <2>3. \A q \in Runs \ {r} : run'[q] = run[q]
        BY <1>2, <2>1 DEF GetConnection, RunsOK
    <2>4. RunOK(r)'
        BY <1>2, <2>1 DEF GetConnection, RunsOK, RunOK, RowsOK, RowsLinked, Bindings, Locals, Exists, rows, provider, NeedsConnection, NeedsTarget, NeedsStep, NoTarget, NoConnection, Created
    <2>5. QED
        BY <1>2, <2>2, <2>3, <2>4, RunOnly DEF GetConnection, RowsOK, history
  <1>3. ASSUME FindActiveConnectionBySource(r) PROVE OnboardingInv'
    <2>1. CASE GotoEnd(r, "failed")
        BY <1>3, <2>1, RowsStay, SettlingIsFine DEF FindActiveConnectionBySource, RowsOK, history
    <2>2. CASE \E l \in {"ensureTarget", "findTarget"} : Goto(r, l)
        BY <1>3, <2>2, GoesOn DEF FindActiveConnectionBySource, RowsOK, history, RunPc, NeedsConnection, NeedsTarget, NeedsStep
    <2>3. CASE \E c \in BySource(run[r].source), t \in Targets :
                 run' = [run EXCEPT ![r].conn = c, ![r].target = t, ![r].pc = "adopt"]
      <3>1. PICK c \in BySource(run[r].source), t \in Targets :
                 run' = [run EXCEPT ![r].conn = c, ![r].target = t, ![r].pc = "adopt"]
          BY <2>3
      <3>2. c \in Connections /\ Exists(c) /\ c # NoConnection /\ t # NoTarget
          BY Numbers DEF BySource, Active, Exists
      <3>3. run' \in [Runs -> Locals] /\ \A q \in Runs \ {r} : run'[q] = run[q]
        <4>1. [run[r] EXCEPT !.conn = c, !.target = t, !.pc = "adopt"] \in Locals
          <5>1. run[r] \in Locals
              BY DEF RunsOK
          <5>2. "adopt" \in RunPc /\ c \in Connections \cup {NoConnection} /\ t \in Targets \cup {NoTarget}
              BY <3>2, Pcs
          <5>3. QED
              BY <5>1, <5>2, NewLocals
        <4>2. run' = [run EXCEPT ![r] = [run[r] EXCEPT !.conn = c, !.target = t, !.pc = "adopt"]]
            BY <3>1 DEF RunsOK
        <4>3. QED
            BY <4>1, <4>2, RunTakes
      <3>4. run'[r].pc = "adopt" /\ run'[r].conn = c /\ run'[r].target = t
          BY <3>1 DEF RunsOK, Locals
      <3>5. RunOK(r)'
          BY <1>3, <3>2, <3>4 DEF RunOK, FindActiveConnectionBySource, rows, Exists, NeedsStep
      <3>6. QED
          BY <1>3, <3>3, <3>5, RunOnly DEF FindActiveConnectionBySource, RowsOK, history
    <2>4. QED
      <3>1. ASSUME BySource(run[r].source) # {} PROVE First(BySource(run[r].source)) \in BySource(run[r].source)
          BY <3>1, FirstIsMember, Numbers DEF BySource
      <3>2. run[r].wanted \in Targets \cup {Created} /\ targetOf[run[r].op] \in Targets \cup {NoTarget}
          BY DEF RunsOK, RowsOK, Locals
      <3>3. QED
          BY <1>3, <2>1, <2>2, <2>3, <3>1, <3>2 DEF FindActiveConnectionBySource
  <1>4. ASSUME FindActiveConnectionByTarget(r) PROVE OnboardingInv'
    <2>1. CASE GotoEnd(r, "failed")
        BY <1>4, <2>1, RowsStay, SettlingIsFine DEF FindActiveConnectionByTarget, RowsOK, history
    <2>2. CASE Goto(r, "ensureTarget")
        BY <1>4, <2>2, GoesOn DEF FindActiveConnectionByTarget, RowsOK, history, RunPc, NeedsConnection, NeedsTarget, NeedsStep
    <2>3. QED
        BY <1>4, <2>1, <2>2 DEF FindActiveConnectionByTarget
  <1>5. ASSUME EnsureTargetProject(r) PROVE OnboardingInv'
    <2>1. CASE GotoEnd(r, "failed")
        BY <1>5, <2>1, RowsStay, SettlingIsFine DEF EnsureTargetProject, RowsOK
    <2>2. CASE Goto(r, "createProject")
        BY <1>5, <2>2, GoesOn DEF EnsureTargetProject, RowsOK, RunPc, NeedsConnection, NeedsTarget, NeedsStep
    <2>3. CASE \E t \in Targets : run' = [run EXCEPT ![r].target = t, ![r].pc = "targetCheckpoint"]
      <3>1. PICK t \in Targets : run' = [run EXCEPT ![r].target = t, ![r].pc = "targetCheckpoint"]
          BY <2>3
      <3>2. run' \in [Runs -> Locals] /\ \A q \in Runs \ {r} : run'[q] = run[q]
        <4>1. [run[r] EXCEPT !.target = t, !.pc = "targetCheckpoint"] \in Locals
          <5>1. run[r] \in Locals
              BY DEF RunsOK
          <5>2. "targetCheckpoint" \in RunPc /\ t \in Targets \cup {NoTarget}
              BY Pcs
          <5>3. QED
              BY <5>1, <5>2, NewLocals
        <4>2. run' = [run EXCEPT ![r] = [run[r] EXCEPT !.target = t, !.pc = "targetCheckpoint"]]
            BY <3>1 DEF RunsOK
        <4>3. QED
            BY <4>1, <4>2, RunTakes
      <3>3. run'[r].pc = "targetCheckpoint" /\ run'[r].target = t /\ t # NoTarget /\ run'[r].conn = run[r].conn
          BY <3>1, Numbers DEF RunsOK, Locals
      <3>4. RunOK(r)'
          BY <1>5, <3>3 DEF RunsOK, RunOK, EnsureTargetProject, rows, Exists, NeedsConnection, NeedsStep
      <3>5. QED
          BY <1>5, <3>2, <3>4, RunOnly DEF EnsureTargetProject, RowsOK
    <2>4. QED
      <3>1. run[r].wanted \in Targets \cup {Created} /\ targetOf[run[r].op] \in Targets \cup {NoTarget}
          BY DEF RunsOK, RowsOK, Locals
      <3>2. QED
          BY <1>5, <2>1, <2>2, <2>3, <3>1 DEF EnsureTargetProject
  <1>6. ASSUME ReadCheckpoint(r) PROVE OnboardingInv'
    <2>1. CASE Goto(r, "probe")
        BY <1>6, <2>1, GoesOn DEF ReadCheckpoint, RowsOK, history, RunPc, NeedsConnection, NeedsTarget, NeedsStep
    <2>2. CASE Goto(r, "ensure") /\ run[r].step <= Len(Steps)
        BY <1>6, <2>2, GoesOn DEF ReadCheckpoint, RowsOK, history, RunsOK, RunOK, RunPc, NeedsConnection, NeedsTarget, NeedsStep
    <2>3. ASSUME NEW d \in done[run[r].op], run[r].step <= Len(Steps),
                 run' = [run EXCEPT ![r].object = d[2], ![r].own = d[3], ![r].pc = "row"]
          PROVE  OnboardingInv'
      <3>1. run[r].op \in Operations /\ d \in Checkpoints
          BY DEF RunsOK, RowsOK, Locals
      <3>2. d[2] \in Objects /\ d[3] \in Ownership /\ (d[3] = "managed" => objects[d[2]] = "specwire")
          BY <3>1 DEF Checkpoints, RowsManaged
      <3>3. run' \in [Runs -> Locals] /\ \A q \in Runs \ {r} : run'[q] = run[q]
        <4>1. [run[r] EXCEPT !.object = d[2], !.own = d[3], !.pc = "row"] \in Locals
          <5>1. run[r] \in Locals
              BY DEF RunsOK
          <5>2. "row" \in RunPc
              BY Pcs
          <5>3. QED
              BY <3>2, <5>1, <5>2, NewLocals
        <4>2. run' = [run EXCEPT ![r] = [run[r] EXCEPT !.object = d[2], !.own = d[3], !.pc = "row"]]
            BY <2>3 DEF RunsOK
        <4>3. QED
            BY <4>1, <4>2, RunTakes
      <3>4. /\ run'[r].pc = "row" /\ run'[r].object = d[2] /\ run'[r].own = d[3]
            /\ run'[r].conn = run[r].conn /\ run'[r].target = run[r].target /\ run'[r].step = run[r].step
          BY <2>3 DEF RunsOK, Locals
      <3>5. RunOK(r)'
          BY <1>6, <2>3, <3>2, <3>4 DEF RunsOK, RunOK, ReadCheckpoint, rows, provider, Exists, NeedsConnection, NeedsTarget
      <3>6. QED
          BY <1>6, <3>3, <3>5, RunOnly DEF ReadCheckpoint, RowsOK, history
    <2>4. QED
        BY <1>6, <2>1, <2>2, <2>3 DEF ReadCheckpoint
  <1>7. ASSUME StepFails(r) PROVE OnboardingInv'
    <2>1. faults' \in 0 .. MaxFaults
        BY <1>7 DEF StepFails, Fault, RowsOK
    <2>2. QED
        BY <1>7, <2>1, RowsStay, SettlingIsFine DEF StepFails, RowsOK, history
  <1>8. QED
      BY <1>1, <1>2, <1>3, <1>4, <1>5, <1>6, <1>7

-----------------------------------------------------------------------------
(***************************************************************************)
(* Steps that change a row.                                                *)
(***************************************************************************)
\* What most of them leave alone.
LEMMA FaultsStay == ASSUME OnboardingInv, Fault \/ UNCHANGED faults PROVE faults' \in 0 .. MaxFaults
  BY OnboardingConstants DEF Fault, OnboardingInv, RowsOK

\* The row of an operation: its Connection is the one of the run.
LEMMA OperationRow ==
  ASSUME OnboardingInv, NEW r \in Runs, NEW l \in OperationStatus, UpdateOnboardingOperation(r, l),
         UNCHANGED <<targetOf, done, connection, resources, provider, history>>, faults' \in 0 .. MaxFaults
  PROVE  RowsOK' /\ RowsLinked' /\ RowsManaged' /\ OneToOne' /\ Grows
  <1> USE DEF OnboardingInv
  <1>1. run[r] \in Locals /\ RunOK(r)
      BY DEF RunsOK
  <1>2. run[r].op \in Operations /\ run[r].conn \in Connections \cup {NoConnection}
        /\ (run[r].conn # NoConnection => Exists(run[r].conn))
      BY <1>1 DEF Locals, RunOK
  <1>3. /\ operation' \in [Operations -> [status : OperationStatus, conn : Connections \cup {NoConnection},
                                          wanted : Sources \X ({Created} \cup Targets)]]
        /\ \A o \in Operations : operation'[o].conn \in {operation[o].conn, run[r].conn}
      BY <1>2 DEF UpdateOnboardingOperation, RowsOK
  <1>4. RowsOK'
      BY <1>3 DEF RowsOK, provider, history
  <1>5. RowsLinked'
      BY <1>2, <1>3 DEF RowsLinked, Exists
  <1>6. RowsManaged' /\ OneToOne' /\ Grows
      BY DEF RowsManaged, ManagedIsOurs, OneToOne, Active, Exists, Grows, provider
  <1>7. QED
      BY <1>4, <1>5, <1>6

\* The row of a Connection.
LEMMA ConnectionRow ==
  ASSUME OnboardingInv, NEW c \in Connections, NEW y \in Bindings, y.status # "absent", y.target # NoTarget,
         connection' = [connection EXCEPT ![c] = y],
         UNCHANGED <<operation, targetOf, done, resources, provider, history>>, faults' \in 0 .. MaxFaults
  PROVE  RowsOK' /\ RowsLinked' /\ RowsManaged' /\ Grows
  <1> USE DEF OnboardingInv
  <1>1. connection \in [Connections -> Bindings]
      BY DEF RowsOK
  <1>2. connection' \in [Connections -> Bindings] /\ connection'[c] = y
        /\ \A d \in Connections \ {c} : connection'[d] = connection[d]
      BY <1>1
  <1>3. RowsOK'
      BY <1>2 DEF RowsOK, provider, history
  <1>4. \A d \in Connections : Exists(d) => Exists(d)'
      BY <1>2 DEF Exists
  <1>5. RowsLinked'
    <2>1. \A d \in Connections : Exists(d)' => connection'[d].target # NoTarget
        BY <1>2 DEF RowsLinked, Exists
    <2>2. ASSUME NEW o \in Operations, operation'[o].conn # NoConnection PROVE Exists(operation[o].conn)'
      <3>1. operation[o].conn \in Connections /\ Exists(operation[o].conn)
          BY <2>2 DEF RowsOK, RowsLinked
      <3>2. QED
          BY <1>4, <3>1
    <2>3. QED
        BY <2>1, <2>2 DEF RowsLinked, Exists
  <1>6. RowsManaged' /\ Grows
      BY <1>4 DEF RowsManaged, ManagedIsOurs, Grows, provider
  <1>7. QED
      BY <1>3, <1>5, <1>6

\* OneToOne, in terms of one Connection that is bound to y.
LEMMA StaysOneToOne ==
  ASSUME OneToOne, NEW c \in Connections, NEW y, connection \in [Connections -> Bindings],
         connection' = [connection EXCEPT ![c] = y],
         y.status = "disabled" \/ (BySource(y.source) \subseteq {c} /\ ByTarget(y.target) \subseteq {c})
  PROVE  OneToOne'
  <1>1. connection'[c] = y /\ \A d \in Connections \ {c} : connection'[d] = connection[d]
      OBVIOUS
  <1>2. \A d \in Connections \ {c} : Active(d)' => Active(d)
      BY <1>1 DEF Active
  <1>3. ASSUME Active(c)', NEW d \in Connections \ {c}, Active(d)
        PROVE  connection[d].source # y.source /\ connection[d].target # y.target
      BY <1>1, <1>3 DEF Active, BySource, ByTarget
  <1>4. QED
      BY <1>1, <1>2, <1>3 DEF OneToOne

LEMMA CreateOnboardingOperationStep ==
  ASSUME OnboardingInv, NEW r \in Runs, CreateOnboardingOperation(r) PROVE OnboardingInv'
  <1> USE DEF OnboardingInv
  <1>1. run[r] \in Locals /\ RunOK(r)
      BY DEF RunsOK
  <1>2. run[r].op \in Operations /\ run[r].source \in Sources /\ run[r].wanted \in {Created} \cup Targets
      BY <1>1 DEF Locals
  <1>3. faults' \in 0 .. MaxFaults /\ mixed' \subseteq Operations
      BY DEF CreateOnboardingOperation, RowsOK, history
  <1>4. CASE operation[run[r].op].status # "absent"
    <2>1. /\ run' = [run EXCEPT ![r].conn = operation[run[r].op].conn,
                              ![r].pc = IF operation[run[r].op].conn = NoConnection THEN "findSource"
                                        ELSE "getConnection"]
          /\ UNCHANGED <<rows, provider>>
        BY <1>4 DEF CreateOnboardingOperation, rows
    <2> DEFINE c == operation[run[r].op].conn
               l == IF c = NoConnection THEN "findSource" ELSE "getConnection"
    <2>2. c \in Connections \cup {NoConnection} /\ (c # NoConnection => Exists(c)) /\ l \in RunPc
        BY <1>2, Pcs DEF RowsOK, RowsLinked
    <2>3. run' = [run EXCEPT ![r] = [run[r] EXCEPT !.conn = c, !.pc = l]]
        BY <2>1 DEF RunsOK
    <2> HIDE DEF c
    <2>4. [run[r] EXCEPT !.conn = c, !.pc = l] \in Locals
        BY <1>1, <2>2, NewLocals
    <2>5. run' \in [Runs -> Locals] /\ run'[r] = [run[r] EXCEPT !.conn = c, !.pc = l]
          /\ \A q \in Runs \ {r} : run'[q] = run[q]
        BY <2>3, <2>4, RunTakes
    <2>6. run'[r].conn = c /\ run'[r].pc = l
        BY <1>1, <2>5 DEF Locals
    <2>7. RunOK(r)'
        BY <2>1, <2>2, <2>6 DEF RunOK, Exists, rows, NeedsConnection, NeedsTarget, NeedsStep
    <2>8. QED
        BY <1>3, <2>1, <2>5, <2>7, RunOnly
  <1>5. CASE operation[run[r].op].status = "absent"
    <2>1. /\ operation' = [operation EXCEPT ![run[r].op].status = "open",
                                            ![run[r].op].wanted = <<run[r].source, run[r].wanted>>]
          /\ Goto(r, "findSource")
          /\ UNCHANGED <<targetOf, done, connection, resources, provider>>
        BY <1>5 DEF CreateOnboardingOperation
    <2>2. /\ operation' \in [Operations -> [status : OperationStatus, conn : Connections \cup {NoConnection},
                                            wanted : Sources \X ({Created} \cup Targets)]]
          /\ \A o \in Operations : operation'[o].conn = operation[o].conn
        BY <1>2, <2>1 DEF RowsOK, OperationStatus
    <2>3. RowsOK'
        BY <1>3, <2>1, <2>2 DEF RowsOK, provider
    <2>4. RowsLinked' /\ RowsManaged' /\ OneToOne' /\ Grows
        BY <2>1, <2>2 DEF RowsLinked, RowsManaged, ManagedIsOurs, OneToOne, Active, Exists, Grows, provider
    <2>5. /\ run' \in [Runs -> Locals] /\ \A q \in Runs \ {r} : run'[q] = run[q]
          /\ run'[r] = [run[r] EXCEPT !.pc = "findSource"]
        BY <2>1, RunGoes, Pcs
    <2>6. run'[r].pc = "findSource" /\ run'[r].conn = run[r].conn /\ run[r].conn \in Connections \cup {NoConnection}
        BY <1>1, <2>5 DEF Locals
    <2>7. RunOK(r)'
        BY <1>1, <2>4, <2>6 DEF RunOK, Grows, NeedsConnection, NeedsTarget, NeedsStep
    <2>8. QED
        BY <2>3, <2>4, <2>5, <2>7, RunMoves
  <1>6. QED
      BY <1>4, <1>5

LEMMA CreateProjectStep ==
  ASSUME OnboardingInv, NEW r \in Runs, CreateProject(r) PROVE OnboardingInv'
  <1> USE DEF OnboardingInv
  <1>1. run[r] \in Locals /\ RunOK(r)
      BY DEF RunsOK
  <1> DEFINE t == First(NewProject)
  <1>2. t \in Targets /\ t # NoTarget
    <2>1. NewProject \subseteq Nat /\ NewProject # {} /\ NewProject \subseteq Targets
        BY Numbers DEF CreateProject, NewProject
    <2>2. t \in NewProject
        BY <2>1, FirstIsMember
    <2>3. QED
        BY <2>1, <2>2, Numbers
  <1>3. run[r].source \in Sources
      BY <1>1 DEF Locals
  <1>4. projects' = [projects EXCEPT ![t] = run[r].source]
      BY DEF CreateProject
  <1> HIDE DEF t
  <1>5. projects' \in [Targets -> Sources \cup {"absent", "other"}]
      BY <1>2, <1>3, <1>4 DEF RowsOK
  <1>6. faults' \in 0 .. MaxFaults
      BY FaultsStay DEF CreateProject
  <1>7. RowsOK'
      BY <1>5, <1>6 DEF RowsOK, CreateProject, rows, history
  <1>8. RowsLinked' /\ RowsManaged' /\ OneToOne' /\ Grows
      BY DEF CreateProject, rows, RowsLinked, RowsManaged, ManagedIsOurs, OneToOne, Active, Exists, Grows
  <1>9. CASE GotoEnd(r, "failed")
      BY <1>7, <1>8, <1>9, SettlingIsFine
  <1>10. CASE run' = [run EXCEPT ![r].target = t, ![r].pc = "targetCheckpoint"]
    <2>1. [run[r] EXCEPT !.target = t, !.pc = "targetCheckpoint"] \in Locals
      <3>1. "targetCheckpoint" \in RunPc /\ t \in Targets \cup {NoTarget}
          BY <1>2, Pcs
      <3>2. QED
          BY <1>1, <3>1, NewLocals
    <2>2. run' = [run EXCEPT ![r] = [run[r] EXCEPT !.target = t, !.pc = "targetCheckpoint"]]
        BY <1>10 DEF RunsOK
    <2>3. run' \in [Runs -> Locals] /\ run'[r] = [run[r] EXCEPT !.target = t, !.pc = "targetCheckpoint"]
          /\ \A q \in Runs \ {r} : run'[q] = run[q]
        BY <2>1, <2>2, RunTakes
    <2>4. run'[r].pc = "targetCheckpoint" /\ run'[r].target = t /\ run'[r].conn = run[r].conn
          /\ run[r].conn \in Connections \cup {NoConnection}
        BY <1>1, <2>3 DEF Locals
    <2>5. RunOK(r)'
        BY <1>1, <1>2, <1>8, <2>4 DEF RunOK, Grows, NeedsConnection, NeedsStep
    <2>6. QED
        BY <1>7, <1>8, <2>3, <2>5, RunMoves
  <1>11. QED
      BY <1>9, <1>10 DEF CreateProject, t

LEMMA CheckpointTargetStep ==
  ASSUME OnboardingInv, NEW r \in Runs, CheckpointTarget(r) PROVE OnboardingInv'
  <1> USE DEF OnboardingInv
  <1>1. run[r] \in Locals /\ RunOK(r)
      BY DEF RunsOK
  <1>2. run[r].op \in Operations /\ run[r].target \in Targets \cup {NoTarget} /\ run[r].target # NoTarget
      BY <1>1 DEF Locals, RunOK, CheckpointTarget, NeedsTarget
  <1>3. targetOf' \in [Operations -> Targets \cup {NoTarget}]
      BY <1>2 DEF CheckpointTarget, RowsOK
  <1>4. RowsOK'
      BY <1>3 DEF RowsOK, CheckpointTarget, provider, history
  <1>5. RowsLinked' /\ RowsManaged' /\ OneToOne' /\ Grows
      BY DEF CheckpointTarget, provider, RowsLinked, RowsManaged, ManagedIsOurs, OneToOne, Active, Exists, Grows
  <1> DEFINE l == IF run[r].conn = NoConnection THEN "createConnection" ELSE "read"
  <1>6. l \in RunPc /\ Goto(r, l)
      BY Pcs DEF CheckpointTarget
  <1>7. /\ run' \in [Runs -> Locals] /\ \A q \in Runs \ {r} : run'[q] = run[q]
        /\ run'[r] = [run[r] EXCEPT !.pc = l]
      BY <1>6, RunGoes
  <1>8. run'[r].pc = l /\ run'[r].conn = run[r].conn /\ run'[r].target = run[r].target
        /\ run[r].conn \in Connections \cup {NoConnection}
      BY <1>1, <1>7 DEF Locals
  <1>9. RunOK(r)'
      BY <1>1, <1>2, <1>5, <1>8 DEF RunOK, Grows, NeedsConnection, NeedsStep
  <1>10. QED
      BY <1>4, <1>5, <1>7, <1>9, RunMoves

\* A new Connection is bound only if its source and its target are free.
LEMMA CreateConnectionStep ==
  ASSUME OnboardingInv, NEW r \in Runs, CreateConnection(r) PROVE OnboardingInv'
  <1> USE DEF OnboardingInv
  <1>1. run[r] \in Locals /\ RunOK(r)
      BY DEF RunsOK
  <1>2. run[r].source \in Sources /\ run[r].target \in Targets /\ run[r].target # NoTarget
      BY <1>1 DEF Locals, RunOK, CreateConnection, NeedsTarget
  <1>3. faults' \in 0 .. MaxFaults
      BY FaultsStay DEF CreateConnection
  <1>4. CASE UNCHANGED connection /\ GotoEnd(r, "failed")
      BY <1>3, <1>4, RowsStay, SettlingIsFine DEF CreateConnection, rows, history, RowsOK
  <1> DEFINE c == First(NewConnection)
             y == [status |-> "active", source |-> run[r].source, target |-> run[r].target]
  <1>5. CASE /\ BySource(run[r].source) = {} /\ ByTarget(run[r].target) = {} /\ NewConnection # {}
             /\ connection' = [connection EXCEPT ![c] = y]
             /\ run' = [run EXCEPT ![r].conn = c, ![r].pc = "link"]
    <2>1. c \in Connections /\ c # NoConnection
      <3>1. NewConnection \subseteq Nat /\ NewConnection \subseteq Connections
          BY Numbers DEF NewConnection
      <3>2. c \in NewConnection
          BY <1>5, <3>1, FirstIsMember
      <3>3. QED
          BY <3>1, <3>2, Numbers
    <2>2. y \in Bindings /\ y.status # "absent" /\ y.target # NoTarget
          /\ y.source = run[r].source /\ y.target = run[r].target
        BY <1>2 DEF Bindings, ConnectionStatus
    <2> HIDE DEF c, y
    <2>3. RowsOK' /\ RowsLinked' /\ RowsManaged' /\ Grows
        BY <1>3, <1>5, <2>1, <2>2, ConnectionRow DEF CreateConnection
    <2>4. OneToOne'
        BY <1>5, <2>1, <2>2, StaysOneToOne DEF RowsOK
    <2>5. [run[r] EXCEPT !.conn = c, !.pc = "link"] \in Locals
      <3>1. "link" \in RunPc /\ c \in Connections \cup {NoConnection}
          BY <2>1, Pcs
      <3>2. QED
          BY <1>1, <3>1, NewLocals
    <2>6. run' = [run EXCEPT ![r] = [run[r] EXCEPT !.conn = c, !.pc = "link"]]
        BY <1>5 DEF RunsOK
    <2>7. run' \in [Runs -> Locals] /\ run'[r] = [run[r] EXCEPT !.conn = c, !.pc = "link"]
          /\ \A q \in Runs \ {r} : run'[q] = run[q]
        BY <2>5, <2>6, RunTakes
    <2>8. run'[r].pc = "link" /\ run'[r].conn = c /\ run'[r].target = run[r].target
        BY <1>1, <2>7 DEF Locals
    <2>9. connection'[c].status # "absent"
      <3>1. connection'[c] = y
          BY <1>5, <2>1 DEF RowsOK
      <3>2. QED
          BY <2>2, <3>1
    <2>10. RunOK(r)'
        BY <1>2, <2>1, <2>8, <2>9 DEF RunOK, Exists, NeedsStep
    <2>11. QED
        BY <2>3, <2>4, <2>7, <2>10, RunMoves
  <1>6. QED
      BY <1>4, <1>5 DEF CreateConnection

LEMMA LinkConnectionStep ==
  ASSUME OnboardingInv, NEW r \in Runs, LinkConnection(r) PROVE OnboardingInv'
  <1> USE DEF OnboardingInv
  <1>1. run[r] \in Locals /\ RunOK(r)
      BY DEF RunsOK
  <1>2. "open" \in OperationStatus /\ faults' \in 0 .. MaxFaults
      BY FaultsStay DEF OperationStatus, LinkConnection
  <1>3. RowsOK' /\ RowsLinked' /\ RowsManaged' /\ OneToOne' /\ Grows
      BY <1>2, OperationRow DEF LinkConnection
  <1> DEFINE l == IF run[r].pc = "link" THEN "read" ELSE "ensureTarget"
  <1>4. l \in RunPc /\ Goto(r, l)
      BY Pcs DEF LinkConnection
  <1>5. /\ run' \in [Runs -> Locals] /\ \A q \in Runs \ {r} : run'[q] = run[q]
        /\ run'[r] = [run[r] EXCEPT !.pc = l]
      BY <1>4, RunGoes
  <1>6. run'[r].pc = l /\ run'[r].conn = run[r].conn /\ run'[r].target = run[r].target
        /\ run[r].conn \in Connections \cup {NoConnection}
      BY <1>1, <1>5 DEF Locals
  <1>7. RunOK(r)'
      BY <1>1, <1>3, <1>6 DEF LinkConnection, RunOK, Grows, NeedsConnection, NeedsTarget, NeedsStep
  <1>8. QED
      BY <1>3, <1>5, <1>7, RunMoves

LEMMA FinishStep ==
  ASSUME OnboardingInv, NEW r \in Runs, Finish(r) \/ RecordFailure(r) PROVE OnboardingInv'
  <1>1. "open" \in OperationStatus /\ "finished" \in OperationStatus
      BY DEF OperationStatus
  <1>2. faults' \in 0 .. MaxFaults
      BY FaultsStay DEF Finish, RecordFailure
  <1>3. RowsOK' /\ RowsLinked' /\ RowsManaged' /\ OneToOne' /\ Grows
    <2>1. CASE \E l \in OperationStatus : UpdateOnboardingOperation(r, l)
        BY <1>2, <2>1, OperationRow DEF Finish, RecordFailure
    <2>2. CASE UNCHANGED operation
        BY <1>2, <2>2, RowsStay DEF Finish, RecordFailure, rows, history, OnboardingInv, RowsOK
    <2>3. QED
        BY <1>1, <2>1, <2>2 DEF Finish, RecordFailure
  <1>4. RunsOK'
      BY <1>3, EndIsFine DEF Finish, RecordFailure, OnboardingInv
  <1>5. QED
      BY <1>3, <1>4 DEF OnboardingInv

\* What the provider answers decides what the run calls the object.
LEMMA EnsureStep ==
  ASSUME OnboardingInv, NEW r \in Runs, Ensure(r) PROVE OnboardingInv'
  <1> USE DEF OnboardingInv
  <1>1. run[r] \in Locals /\ RunOK(r)
      BY DEF RunsOK
  <1>2. faults' \in 0 .. MaxFaults
      BY FaultsStay DEF Ensure
  <1> DEFINE x == Wanted(r)
             w == IF objects[x] = "absent" THEN "managed" ELSE "adopted"
  <1>3. x \in Objects
    <2>1. run[r].source \in Sources /\ run[r].target \in Targets /\ run[r].step \in 1 .. Len(Steps)
        BY <1>1, OnboardingConstants DEF Locals, RunOK, Ensure, NeedsTarget, NeedsStep
    <2>2. Steps[run[r].step] \in {"label", "repository", "project"}
        BY <2>1, OnboardingConstants
    <2>3. QED
        BY <2>1, <2>2, ObjectIsObject DEF Wanted
  <1>4. objects' = [objects EXCEPT ![x] = IF @ = "absent" THEN "specwire" ELSE @]
      BY DEF Ensure
  <1> HIDE DEF x
  <1>5. /\ objects' \in [Objects -> {"absent", "foreign", "specwire"}]
        /\ \A b \in Objects : objects[b] = "specwire" => objects'[b] = "specwire"
      BY <1>3, <1>4 DEF RowsOK
  <1>6. RowsOK' /\ RowsLinked' /\ RowsManaged' /\ OneToOne' /\ Grows
    <2>1. UNCHANGED <<operation, targetOf, done, connection, resources, projects, mixed>>
        BY DEF Ensure, rows, history
    <2>2. RowsOK'
        BY <1>2, <1>5, <2>1 DEF RowsOK
    <2>3. RowsLinked' /\ OneToOne' /\ Grows
        BY <1>5, <2>1 DEF RowsLinked, OneToOne, Active, Exists, Grows
    <2>4. RowsManaged'
        BY <1>5, <2>1 DEF RowsManaged, ManagedIsOurs, RowsOK, Checkpoints
    <2>5. QED
        BY <2>2, <2>3, <2>4
  <1>7. CASE GotoEnd(r, "failed")
      BY <1>6, <1>7, SettlingIsFine
  <1>8. CASE run' = [run EXCEPT ![r].pc = "row", ![r].object = x, ![r].own = w]
    <2>1. w \in Ownership /\ "row" \in RunPc
        BY Pcs DEF Ownership
    <2>2. w = "managed" => objects'[x] = "specwire"
        BY <1>3, <1>4 DEF RowsOK
    <2> HIDE DEF w
    <2>3. run' = [run EXCEPT ![r] = [run[r] EXCEPT !.object = x, !.own = w, !.pc = "row"]]
        BY <1>8 DEF RunsOK
    <2>4. [run[r] EXCEPT !.object = x, !.own = w, !.pc = "row"] \in Locals
        BY <1>1, <1>3, <2>1, NewLocals
    <2>5. run' \in [Runs -> Locals] /\ run'[r] = [run[r] EXCEPT !.object = x, !.own = w, !.pc = "row"]
          /\ \A q \in Runs \ {r} : run'[q] = run[q]
        BY <2>3, <2>4, RunTakes
    <2>6. /\ run'[r].pc = "row" /\ run'[r].object = x /\ run'[r].own = w /\ run'[r].conn = run[r].conn
          /\ run'[r].target = run[r].target /\ run'[r].step = run[r].step
          /\ run[r].conn \in Connections \cup {NoConnection}
        BY <1>1, <2>5 DEF Locals
    <2>7. RunOK(r)'
        BY <1>1, <1>6, <2>2, <2>6 DEF Ensure, RunOK, Grows, NeedsConnection, NeedsTarget, NeedsStep
    <2>8. QED
        BY <1>6, <2>5, <2>7, RunMoves
  <1>9. QED
      BY <1>7, <1>8 DEF Ensure, x

LEMMA EnsureManagedResourceStep ==
  ASSUME OnboardingInv, NEW r \in Runs, EnsureManagedResource(r) PROVE OnboardingInv'
  <1> USE DEF OnboardingInv
  <1>1. run[r] \in Locals /\ RunOK(r)
      BY DEF RunsOK
  <1>2. run[r].conn \in Connections /\ run[r].object \in Objects /\ run[r].own \in Ownership
        /\ (run[r].own = "managed" => objects[run[r].object] = "specwire")
      BY <1>1 DEF EnsureManagedResource, Locals, RunOK, NeedsConnection
  <1>3. resources' \subseteq resources \cup {<<run[r].conn, run[r].object, run[r].own>>}
      BY DEF EnsureManagedResource
  <1>4. resources' \subseteq Connections \X Objects \X Ownership
      BY <1>2, <1>3 DEF RowsOK
  <1>5. UNCHANGED <<operation, targetOf, done, connection, projects, objects, faults, mixed>>
      BY DEF EnsureManagedResource, provider, history
  <1>6. RowsOK'
      BY <1>4, <1>5 DEF RowsOK
  <1>7. RowsLinked' /\ OneToOne' /\ Grows
      BY <1>5 DEF RowsLinked, OneToOne, Active, Exists, Grows
  <1>8. RowsManaged'
      BY <1>2, <1>3, <1>5 DEF RowsManaged, ManagedIsOurs
  <1>9. Goto(r, "checkpoint") /\ "checkpoint" \in RunPc
      BY Pcs DEF EnsureManagedResource
  <1>10. /\ run' \in [Runs -> Locals] /\ \A q \in Runs \ {r} : run'[q] = run[q]
         /\ run'[r] = [run[r] EXCEPT !.pc = "checkpoint"]
      BY <1>9, RunGoes
  <1>11. /\ run'[r].pc = "checkpoint" /\ run'[r].object = run[r].object /\ run'[r].own = run[r].own
         /\ run'[r].conn = run[r].conn /\ run'[r].target = run[r].target /\ run'[r].step = run[r].step
      BY <1>1, <1>10 DEF Locals
  <1>12. RunOK(r)'
      BY <1>1, <1>2, <1>5, <1>7, <1>11 DEF EnsureManagedResource, RunOK, Grows, NeedsConnection, NeedsTarget, NeedsStep
  <1>13. QED
      BY <1>6, <1>7, <1>8, <1>10, <1>12, RunMoves

LEMMA CheckpointResourceStep ==
  ASSUME OnboardingInv, NEW r \in Runs, CheckpointResource(r) PROVE OnboardingInv'
  <1> USE DEF OnboardingInv
  <1>1. run[r] \in Locals /\ RunOK(r)
      BY DEF RunsOK
  <1> DEFINE d == <<run[r].step, run[r].object, run[r].own>>
  <1>2. run[r].op \in Operations /\ run[r].step \in 1 .. Len(Steps) /\ run[r].object \in Objects
        /\ run[r].own \in Ownership /\ (run[r].own = "managed" => objects[run[r].object] = "specwire")
      BY <1>1, OnboardingConstants DEF CheckpointResource, Locals, RunOK, NeedsStep
  <1>3. d \in Checkpoints /\ (d[3] = "managed" => objects[d[2]] = "specwire")
      BY <1>2 DEF Checkpoints
  <1>4. done' = [done EXCEPT ![run[r].op] = {e \in @ : e[1] # run[r].step} \cup {d}]
      BY DEF CheckpointResource
  <1> HIDE DEF d
  <1>5. done' \in [Operations -> SUBSET Checkpoints] /\ \A o \in Operations : done'[o] \subseteq done[o] \cup {d}
      BY <1>2, <1>3, <1>4 DEF RowsOK
  <1>6. UNCHANGED <<operation, targetOf, connection, resources, projects, objects, faults, mixed>>
      BY DEF CheckpointResource, provider, history
  <1>7. RowsOK'
      BY <1>5, <1>6 DEF RowsOK
  <1>8. RowsLinked' /\ OneToOne' /\ Grows
      BY <1>6 DEF RowsLinked, OneToOne, Active, Exists, Grows
  <1>9. RowsManaged'
      BY <1>3, <1>5, <1>6 DEF RowsManaged, ManagedIsOurs
  <1>10. run' = [run EXCEPT ![r] = [run[r] EXCEPT !.step = run[r].step + 1, !.object = NoObject, !.own = "managed",
                                                  !.pc = "read"]]
      BY DEF CheckpointResource, RunsOK
  <1>11. [run[r] EXCEPT !.step = run[r].step + 1, !.object = NoObject, !.own = "managed", !.pc = "read"] \in Locals
    <2>1. "read" \in RunPc /\ "managed" \in Ownership /\ NoObject \in Objects
          /\ run[r].step + 1 \in 1 .. Len(Steps) + 1
        BY <1>2, Pcs, RestingIsLocal, OnboardingConstants DEF Ownership
    <2>2. QED
        BY <1>1, <2>1 DEF Locals
  <1>12. /\ run' \in [Runs -> Locals] /\ \A q \in Runs \ {r} : run'[q] = run[q]
         /\ run'[r] = [run[r] EXCEPT !.step = run[r].step + 1, !.object = NoObject, !.own = "managed", !.pc = "read"]
      BY <1>10, <1>11, RunTakes
  <1>13. run'[r].pc = "read" /\ run'[r].conn = run[r].conn /\ run'[r].target = run[r].target
      BY <1>1, <1>12 DEF Locals
  <1>14. RunOK(r)'
      BY <1>1, <1>6, <1>13 DEF CheckpointResource, RunOK, Exists, NeedsConnection, NeedsTarget, NeedsStep
  <1>15. QED
      BY <1>7, <1>8, <1>9, <1>12, <1>14, RunMoves

\* A Connection comes back only if nobody has taken its source or its target.
LEMMA ProbeReadinessStep ==
  ASSUME OnboardingInv, NEW r \in Runs, ProbeReadiness(r) PROVE OnboardingInv'
  <1> USE DEF OnboardingInv
  <1>1. faults' \in 0 .. MaxFaults
      BY FaultsStay DEF ProbeReadiness
  <1>2. GotoEnd(r, "finish") /\ UNCHANGED <<operation, targetOf, done, resources, provider, history>>
      BY DEF ProbeReadiness
  <1> DEFINE c == run[r].conn
  <1>3. CASE UNCHANGED connection
      BY <1>1, <1>2, <1>3, RowsStay, SettlingIsFine DEF rows, history, RowsOK
  <1>4. CASE /\ BySource(connection[c].source) \subseteq {c} /\ ByTarget(connection[c].target) \subseteq {c}
             /\ connection' = [connection EXCEPT ![c].status = "active"]
    <2>1. c \in Connections \cup {NoConnection}
        BY DEF RunsOK, Locals
    <2>2. CASE c \notin Connections
      <3>1. connection' = connection
          BY <1>4, <2>2 DEF RowsOK
      <3>2. QED
          BY <1>3, <3>1
    <2>3. CASE c \in Connections
      <3> DEFINE y == [connection[c] EXCEPT !.status = "active"]
      <3>1. connection \in [Connections -> Bindings] /\ connection[c] \in Bindings
          BY <2>3 DEF RowsOK
      <3>2. Exists(c) /\ connection[c].target # NoTarget
          BY <2>1, <2>3, Numbers DEF RunsOK, RunOK, RowsLinked
      <3>3. y \in Bindings /\ y.status = "active" /\ y.source = connection[c].source /\ y.target = connection[c].target
          BY <3>1 DEF Bindings, ConnectionStatus
      <3>4. connection' = [connection EXCEPT ![c] = y]
          BY <1>4, <3>1
      <3> HIDE DEF y, c
      <3>5. RowsOK' /\ RowsLinked' /\ RowsManaged' /\ Grows
          BY <1>1, <1>2, <2>3, <3>2, <3>3, <3>4, ConnectionRow
      <3>6. OneToOne'
          BY <1>4, <2>3, <3>1, <3>3, <3>4, StaysOneToOne
      <3>7. QED
          BY <1>2, <3>5, <3>6, SettlingIsFine
    <2>4. QED
        BY <2>1, <2>2, <2>3
  <1>5. QED
      BY <1>3, <1>4 DEF ProbeReadiness

LEMMA DisableConnectionStep ==
  ASSUME OnboardingInv, NEW c \in Connections, DisableConnection(c) PROVE OnboardingInv'
  <1> USE DEF OnboardingInv
  <1> DEFINE y == [connection[c] EXCEPT !.status = "disabled"]
  <1>1. connection \in [Connections -> Bindings] /\ connection[c] \in Bindings
      BY DEF RowsOK
  <1>2. Exists(c) /\ connection[c].target # NoTarget
      BY DEF DisableConnection, Exists, RowsLinked
  <1>3. y \in Bindings /\ y.status = "disabled" /\ y.source = connection[c].source /\ y.target = connection[c].target
      BY <1>1 DEF Bindings, ConnectionStatus
  <1>4. connection' = [connection EXCEPT ![c] = y]
      BY <1>1 DEF DisableConnection
  <1> HIDE DEF y
  <1>5. RowsOK' /\ RowsLinked' /\ RowsManaged' /\ Grows
      BY <1>2, <1>3, <1>4, FaultsStay, ConnectionRow DEF DisableConnection
  <1>6. OneToOne'
      BY <1>1, <1>3, <1>4, StaysOneToOne
  <1>7. RunsOK'
    <2>1. UNCHANGED <<run, objects>>
        BY DEF DisableConnection, provider
    <2>2. ASSUME NEW q \in Runs PROVE RunOK(q)'
      <3>1. RunOK(q) /\ run[q].conn \in Connections \cup {NoConnection}
          BY DEF RunsOK, Locals
      <3>2. QED
          BY <1>5, <2>1, <3>1 DEF RunOK, Grows
    <2>3. QED
        BY <2>1, <2>2 DEF RunsOK
  <1>8. QED
      BY <1>5, <1>6, <1>7

\* Every run is lost, the rows and the providers are not.
LEMMA CrashStep ==
  ASSUME OnboardingInv, Crash PROVE OnboardingInv'
  <1>1. RowsOK' /\ RowsLinked' /\ RowsManaged' /\ OneToOne'
      BY FaultsStay, RowsStay DEF Crash, history, OnboardingInv, RowsOK
  <1>2. run' = [r \in Runs |-> Resting]
      BY DEF Crash
  <1>3. RunsOK'
      BY <1>2, RestingIsLocal DEF RunsOK, RunOK, NeedsConnection, NeedsTarget, NeedsStep
  <1>4. QED
      BY <1>1, <1>3 DEF OnboardingInv

LEMMA OnboardingInit == Init => OnboardingInv
  <1> SUFFICES ASSUME Init PROVE OnboardingInv
      OBVIOUS
  <1> USE OnboardingConstants
  <1>1. Resting.source \in Sources
      BY RestingIsLocal DEF Locals
  <1>2. RowsOK
      BY <1>1 DEF Init, RowsOK, OperationStatus, ConnectionStatus, Bindings, Created, NoConnection, NoTarget, Targets
  <1>3. RowsLinked /\ RowsManaged /\ OneToOne
      BY DEF Init, RowsLinked, RowsManaged, ManagedIsOurs, OneToOne, Active, Exists
  <1>4. RunsOK
      BY RestingIsLocal DEF Init, RunsOK, RunOK, NeedsConnection, NeedsTarget, NeedsStep
  <1>5. QED
      BY <1>2, <1>3, <1>4 DEF OnboardingInv

LEMMA OnboardingStep == OnboardingInv /\ [Next]_vars => OnboardingInv'
  <1> SUFFICES ASSUME OnboardingInv, [Next]_vars PROVE OnboardingInv'
      OBVIOUS
  <1>1. CASE UNCHANGED vars
    <2>1. UNCHANGED <<rows, provider, run, faults, mixed>>
        BY <1>1 DEF vars, history
    <2>2. RunsOK'
        BY <2>1 DEF OnboardingInv, RunsOK, RunOK, Exists, rows, provider
    <2>3. QED
        BY <2>1, <2>2, RowsStay DEF OnboardingInv, RowsOK
  <1>2. CASE \E r \in Runs :
               \/ \E o \in Operations, q \in Sources \X (Targets \cup {Created}) : Request(r, o, q)
               \/ GetConnection(r) \/ FindActiveConnectionBySource(r) \/ FindActiveConnectionByTarget(r)
               \/ EnsureTargetProject(r) \/ ReadCheckpoint(r) \/ StepFails(r)
      BY <1>2, RunSteps
  <1>3. CASE \E r \in Runs : CreateOnboardingOperation(r)
      BY <1>3, CreateOnboardingOperationStep
  <1>4. CASE \E r \in Runs : CreateProject(r)
      BY <1>4, CreateProjectStep
  <1>5. CASE \E r \in Runs : CheckpointTarget(r)
      BY <1>5, CheckpointTargetStep
  <1>6. CASE \E r \in Runs : CreateConnection(r)
      BY <1>6, CreateConnectionStep
  <1>7. CASE \E r \in Runs : LinkConnection(r)
      BY <1>7, LinkConnectionStep
  <1>8. CASE \E r \in Runs : Ensure(r)
      BY <1>8, EnsureStep
  <1>9. CASE \E r \in Runs : EnsureManagedResource(r)
      BY <1>9, EnsureManagedResourceStep
  <1>10. CASE \E r \in Runs : CheckpointResource(r)
      BY <1>10, CheckpointResourceStep
  <1>11. CASE \E r \in Runs : ProbeReadiness(r)
      BY <1>11, ProbeReadinessStep
  <1>12. CASE \E r \in Runs : Finish(r) \/ RecordFailure(r)
      BY <1>12, FinishStep
  <1>13. CASE \E c \in Connections : DisableConnection(c)
      BY <1>13, DisableConnectionStep
  <1>14. CASE Crash
      BY <1>14, CrashStep
  <1>15. QED
      BY <1>1, <1>2, <1>3, <1>4, <1>5, <1>6, <1>7, <1>8, <1>9, <1>10, <1>11, <1>12, <1>13, <1>14 DEF Next

-----------------------------------------------------------------------------
(***************************************************************************)
(* Rows, checkpoints and the locals of every request have their types.     *)
(***************************************************************************)
THEOREM OnboardingTypeCorrect == Spec => []TypeOK
  <1>1. OnboardingInv => TypeOK
      BY DEF OnboardingInv, RowsOK, RunsOK, TypeOK, Checkpoints, Bindings, Locals
  <1>2. QED
      BY <1>1, OnboardingInit, OnboardingStep, PTL DEF Spec

(***************************************************************************)
(* Whatever requests overlap, are repeated, fail or are lost, no source    *)
(* and no target belongs to two active Connections: also the probe at the  *)
(* end of a run does not bring a disabled Connection back beside its       *)
(* successor (the partial unique indexes of connections).                  *)
(***************************************************************************)
THEOREM ConnectionsAreOneToOne == Spec => []OneToOne
  <1>1. OnboardingInv => OneToOne
      BY DEF OnboardingInv
  <1>2. QED
      BY <1>1, OnboardingInit, OnboardingStep, PTL DEF Spec

(***************************************************************************)
(* What is recorded as managed, and so offered for deprovisioning, was     *)
(* created by SpecWire, also when the answer, the row or the checkpoint of *)
(* the creation was lost (EnsureManagedResource, completedCheckpoint).     *)
(***************************************************************************)
THEOREM OnlyOursIsManaged == Spec => []ManagedIsOurs
  <1>1. OnboardingInv => ManagedIsOurs
      BY DEF OnboardingInv, RowsManaged
  <1>2. QED
      BY <1>1, OnboardingInit, OnboardingStep, PTL DEF Spec

-----------------------------------------------------------------------------
(***************************************************************************)
(* One project per source.  As long as no run listed the projects while    *)
(* another one was creating, at most one run is about to create, and its   *)
(* source has no project.                                                  *)
(***************************************************************************)
Creating == {r \in Runs : run[r].pc = "createProject"}

ProjectInv == ~raced =>
    /\ \A t, u \in Targets : projects[t] \in Sources /\ projects[t] = projects[u] => t = u
    /\ \A q, r \in Creating : q = r
    /\ \A r \in Creating : \A t \in Targets : projects[t] # run[r].source

\* What most steps are to the projects.
NoneCreated ==
    /\ UNCHANGED <<projects, raced>>
    /\ \A q \in Runs : run'[q].pc = "createProject" => run'[q] = run[q]

LEMMA NoneCreatedKeeps == ProjectInv /\ NoneCreated => ProjectInv'
  BY DEF ProjectInv, NoneCreated, Creating

\* Where a run goes.
LEMMA RunAt ==
  ASSUME RunsOK, NEW r \in Runs
  PROVE  /\ \A l : Goto(r, l) => run'[r].pc = l /\ \A q \in Runs \ {r} : run'[q] = run[q]
         /\ \A l \in {"failed", "finish"} : GotoEnd(r, l) => run'[r].pc = l /\ \A q \in Runs \ {r} : run'[q] = run[q]
         /\ End(r) => run'[r].pc = "idle" /\ \A q \in Runs \ {r} : run'[q] = run[q]
  <1>1. run \in [Runs -> Locals] /\ run[r] \in Locals
      BY DEF RunsOK
  <1>2. ASSUME NEW l, Goto(r, l) PROVE run'[r].pc = l /\ \A q \in Runs \ {r} : run'[q] = run[q]
      BY <1>1, <1>2 DEF Goto, Locals
  <1>3. ASSUME NEW l \in {"failed", "finish"}, GotoEnd(r, l)
        PROVE  run'[r].pc = l /\ \A q \in Runs \ {r} : run'[q] = run[q]
      BY <1>1, <1>3, SettlingIsLocal DEF GotoEnd
  <1>4. ASSUME End(r) PROVE run'[r].pc = "idle" /\ \A q \in Runs \ {r} : run'[q] = run[q]
      BY <1>1, <1>4, RestingIsLocal DEF End
  <1>5. QED
      BY <1>2, <1>3, <1>4

\* All steps but two create nothing.
LEMMA ProjectKinds ==
  RunsOK /\ [Next]_vars => NoneCreated \/ \E r \in Runs : EnsureTargetProject(r) \/ CreateProject(r)
  <1> SUFFICES ASSUME RunsOK, [Next]_vars
               PROVE  NoneCreated \/ \E r \in Runs : EnsureTargetProject(r) \/ CreateProject(r)
      OBVIOUS
  <1> USE DEF rows, provider, history
  <1>0. ASSUME UNCHANGED <<projects, raced>>, NEW r \in Runs, \A q \in Runs \ {r} : run'[q] = run[q],
               run'[r].pc # "createProject"
        PROVE  NoneCreated
      BY <1>0 DEF NoneCreated
  <1>1. ASSUME NEW r \in Runs, NEW o \in Operations, NEW q \in Sources \X (Targets \cup {Created}), Request(r, o, q)
        PROVE  NoneCreated
      BY <1>0, <1>1 DEF Request, RunsOK, Idle
  <1>2. ASSUME NEW r \in Runs, CreateOnboardingOperation(r) PROVE NoneCreated
    <2>1. CASE Goto(r, "findSource")
        BY <1>0, <1>2, <2>1, RunAt DEF CreateOnboardingOperation
    <2>2. CASE run' = [run EXCEPT ![r].conn = operation[run[r].op].conn,
                                  ![r].pc = IF operation[run[r].op].conn = NoConnection THEN "findSource"
                                            ELSE "getConnection"]
      <3>1. run'[r].pc # "createProject" /\ \A q \in Runs \ {r} : run'[q] = run[q]
          BY <2>2 DEF RunsOK, Locals
      <3>2. QED
          BY <1>0, <1>2, <3>1 DEF CreateOnboardingOperation
    <2>3. QED
        BY <1>2, <2>1, <2>2 DEF CreateOnboardingOperation
  <1>3. ASSUME NEW r \in Runs, GetConnection(r) PROVE NoneCreated
      BY <1>0, <1>3 DEF GetConnection, RunsOK, Locals
  <1>4. ASSUME NEW r \in Runs, FindActiveConnectionBySource(r) PROVE NoneCreated
    <2>1. CASE \E l \in {"ensureTarget", "findTarget"} : Goto(r, l)
        BY <1>0, <1>4, <2>1, RunAt DEF FindActiveConnectionBySource
    <2>2. CASE GotoEnd(r, "failed")
        BY <1>0, <1>4, <2>2, RunAt DEF FindActiveConnectionBySource
    <2>3. CASE \E c, t : run' = [run EXCEPT ![r].conn = c, ![r].target = t, ![r].pc = "adopt"]
        BY <1>0, <1>4, <2>3 DEF FindActiveConnectionBySource, RunsOK, Locals
    <2>4. QED
        BY <1>4, <2>1, <2>2, <2>3 DEF FindActiveConnectionBySource
  <1>5. ASSUME NEW r \in Runs, FindActiveConnectionByTarget(r) PROVE NoneCreated
      BY <1>0, <1>5, RunAt DEF FindActiveConnectionByTarget
  <1>6. ASSUME NEW r \in Runs, CheckpointTarget(r) PROVE NoneCreated
      BY <1>0, <1>6, RunAt DEF CheckpointTarget
  <1>7. ASSUME NEW r \in Runs, CreateConnection(r) PROVE NoneCreated
    <2>1. CASE GotoEnd(r, "failed")
        BY <1>0, <1>7, <2>1, RunAt DEF CreateConnection
    <2>2. CASE \E c : run' = [run EXCEPT ![r].conn = c, ![r].pc = "link"]
        BY <1>0, <1>7, <2>2 DEF CreateConnection, RunsOK, Locals
    <2>3. QED
        BY <1>7, <2>1, <2>2 DEF CreateConnection
  <1>8. ASSUME NEW r \in Runs, LinkConnection(r) PROVE NoneCreated
      BY <1>0, <1>8, RunAt DEF LinkConnection
  <1>9. ASSUME NEW r \in Runs, ReadCheckpoint(r) PROVE NoneCreated
    <2>1. CASE \E l \in {"probe", "ensure"} : Goto(r, l)
        BY <1>0, <1>9, <2>1, RunAt DEF ReadCheckpoint
    <2>2. CASE \E x, w : run' = [run EXCEPT ![r].object = x, ![r].own = w, ![r].pc = "row"]
        BY <1>0, <1>9, <2>2 DEF ReadCheckpoint, RunsOK, Locals
    <2>3. QED
        BY <1>9, <2>1, <2>2 DEF ReadCheckpoint
  <1>10. ASSUME NEW r \in Runs, Ensure(r) PROVE NoneCreated
    <2>1. CASE GotoEnd(r, "failed")
        BY <1>0, <1>10, <2>1, RunAt DEF Ensure
    <2>2. CASE \E x, w : run' = [run EXCEPT ![r].pc = "row", ![r].object = x, ![r].own = w]
        BY <1>0, <1>10, <2>2 DEF Ensure, RunsOK, Locals
    <2>3. QED
        BY <1>10, <2>1, <2>2 DEF Ensure
  <1>11. ASSUME NEW r \in Runs, EnsureManagedResource(r) PROVE NoneCreated
      BY <1>0, <1>11, RunAt DEF EnsureManagedResource
  <1>12. ASSUME NEW r \in Runs, CheckpointResource(r) PROVE NoneCreated
      BY <1>0, <1>12 DEF CheckpointResource, RunsOK, Locals
  <1>13. ASSUME NEW r \in Runs, ProbeReadiness(r) PROVE NoneCreated
      BY <1>0, <1>13, RunAt DEF ProbeReadiness
  <1>14. ASSUME NEW r \in Runs, Finish(r) \/ RecordFailure(r) PROVE NoneCreated
      BY <1>0, <1>14, RunAt DEF Finish, RecordFailure
  <1>15. ASSUME NEW r \in Runs, StepFails(r) PROVE NoneCreated
      BY <1>0, <1>15, RunAt DEF StepFails
  <1>16. ASSUME NEW c \in Connections, DisableConnection(c) PROVE NoneCreated
      BY <1>16 DEF DisableConnection, NoneCreated
  <1>17. CASE Crash
      BY <1>17, RestingIsLocal DEF Crash, NoneCreated
  <1>18. CASE UNCHANGED vars
      BY <1>18 DEF vars, NoneCreated
  <1>19. QED
      BY <1>1, <1>2, <1>3, <1>4, <1>5, <1>6, <1>7, <1>8, <1>9, <1>10, <1>11, <1>12, <1>13, <1>14, <1>15,
         <1>16, <1>17, <1>18
      DEF Next

LEMMA ProjectStep == OnboardingInv /\ ProjectInv /\ [Next]_vars => ProjectInv'
  <1> SUFFICES ASSUME OnboardingInv, ProjectInv, [Next]_vars, ~raced' PROVE ProjectInv'
      BY DEF ProjectInv
  <1> USE DEF OnboardingInv, provider
  <1>1. CASE NoneCreated
      BY <1>1, NoneCreatedKeeps
  <1>2. ASSUME NEW r \in Runs, EnsureTargetProject(r) PROVE ProjectInv'
    <2>1. UNCHANGED projects /\ ~raced
      <3>1. raced' = raced \/ raced' = (raced \/ \E p \in Runs : run[p].pc = "createProject")
          BY <1>2 DEF EnsureTargetProject
      <3>2. ~raced
          BY <3>1, Zenon
      <3>3. QED
          BY <1>2, <3>2 DEF EnsureTargetProject
    <2>2. CASE \E t : run' = [run EXCEPT ![r].target = t, ![r].pc = "targetCheckpoint"]
      <3>1. run'[r].pc = "targetCheckpoint" /\ \A q \in Runs \ {r} : run'[q] = run[q]
          BY <2>2 DEF RunsOK, Locals
      <3>2. QED
          BY <2>1, <3>1 DEF ProjectInv, Creating
    <2>3. CASE GotoEnd(r, "failed")
      <3>1. run'[r].pc = "failed" /\ \A q \in Runs \ {r} : run'[q] = run[q]
          BY <2>3, RunAt
      <3>2. QED
          BY <2>1, <3>1 DEF ProjectInv, Creating
    <2>4. CASE /\ \A t \in Targets : projects[t] # run[r].source
               /\ Goto(r, "createProject")
               /\ raced' = (raced \/ \E p \in Runs : run[p].pc = "createProject")
      <3>1. \A q \in Runs \ {r} : run'[q] = run[q]
          BY <2>4, RunAt
      <3>2. run'[r].source = run[r].source
          BY <2>4 DEF Goto, RunsOK, Locals
      <3>3. \A p \in Runs : run[p].pc # "createProject"
          BY <2>4
      <3>4. \A q \in Creating' : q = r
          BY <3>1, <3>3 DEF Creating
      <3>5. QED
          BY <2>1, <2>4, <3>2, <3>4 DEF ProjectInv
    <2>5. QED
        BY <1>2, <2>2, <2>3, <2>4 DEF EnsureTargetProject
  <1>3. ASSUME NEW r \in Runs, CreateProject(r) PROVE ProjectInv'
    <2> DEFINE n == First(NewProject)
    <2>1. n \in Targets /\ projects[n] = "absent"
      <3>1. NewProject \subseteq Nat /\ NewProject # {}
          BY <1>3, Numbers DEF CreateProject, NewProject
      <3>2. QED
          BY <3>1, FirstIsMember DEF NewProject
    <2>2. projects' = [projects EXCEPT ![n] = run[r].source] /\ ~raced
        BY <1>3 DEF CreateProject, history
    <2> HIDE DEF n
    <2>3. projects'[n] = run[r].source /\ \A t \in Targets \ {n} : projects'[t] = projects[t]
        BY <2>1, <2>2 DEF RowsOK
    <2>4. r \in Creating
        BY <1>3 DEF CreateProject, Creating
    <2>5. (\A t \in Targets : projects[t] # run[r].source) /\ \A q \in Creating : q = r
        BY <2>2, <2>4 DEF ProjectInv
    <2>6. run'[r].pc # "createProject" /\ \A q \in Runs \ {r} : run'[q] = run[q]
      <3>1. CASE GotoEnd(r, "failed")
          BY <3>1, RunAt
      <3>2. CASE run' = [run EXCEPT ![r].target = First(NewProject), ![r].pc = "targetCheckpoint"]
          BY <3>2 DEF RunsOK, Locals
      <3>3. QED
          BY <1>3, <3>1, <3>2 DEF CreateProject
    <2>7. Creating' = {}
        BY <2>5, <2>6 DEF Creating
    <2>8. \A t, u \in Targets : projects'[t] \in Sources /\ projects'[t] = projects'[u] => t = u
        BY <2>2, <2>3, <2>5 DEF ProjectInv
    <2>9. QED
        BY <2>7, <2>8 DEF ProjectInv
  <1>4. QED
      BY <1>1, <1>2, <1>3, ProjectKinds

(***************************************************************************)
(* A source has one project, however often its onboarding was resumed,     *)
(* repeated or cut short, as long as no two runs listed and created at the *)
(* same time (ensureTargetProject).                                        *)
(***************************************************************************)
THEOREM SourcesHaveOneProject == Spec => []OneProjectPerSource
  <1>1. Init => ProjectInv
    <2> SUFFICES ASSUME Init PROVE ProjectInv
        OBVIOUS
    <2>1. \A t \in Targets : projects[t] \notin Sources
        BY OnboardingConstants DEF Init
    <2>2. Creating = {}
        BY RestingIsLocal DEF Init, Creating
    <2>3. QED
        BY <2>1, <2>2 DEF ProjectInv
  <1>2. ProjectInv => OneProjectPerSource
    <2> SUFFICES ASSUME ProjectInv, ~raced, NEW s \in Sources
                 PROVE  Cardinality({t \in Targets : projects[t] = s}) <= 1
        BY DEF OneProjectPerSource
    <2> DEFINE T == {t \in Targets : projects[t] = s}
    <2>1. \A t, u \in T : t = u
        BY DEF ProjectInv
    <2>2. CASE T = {}
        BY <2>2, FS_EmptySet
    <2>3. CASE T # {}
      <3>1. PICK t \in T : TRUE
          BY <2>3
      <3>2. T = {t}
          BY <2>1, <3>1
      <3>3. QED
          BY <3>2, FS_Singleton
    <2>4. QED
        BY <2>2, <2>3
  <1>3. QED
      BY <1>1, <1>2, OnboardingInit, OnboardingStep, ProjectStep, PTL DEF Spec
-----------------------------------------------------------------------------
(***************************************************************************)
(* A finished operation is complete.  Runs of an operation that is not     *)
(* mixed come one after the other and agree with its row; the Connection   *)
(* of the row never changes; what a checkpoint says is ready is ready; and *)
(* a run has made ready all the steps it has passed.                       *)
(***************************************************************************)
ObjectOf(c, i) == Object(Steps[i], connection[c].source, connection[c].target)
Ready(c, i) == objects[ObjectOf(c, i)] # "absent" /\ \E y \in resources : y[1] = c /\ y[2] = ObjectOf(c, i)

OneRun ==
    \A q, r \in Runs :
        run[q].pc # "idle" /\ run[r].pc # "idle" /\ run[q].op = run[r].op /\ q # r => run[r].op \in mixed

OperationFits(o) ==
    LET c == operation[o].conn
    IN  /\ operation[o].status = "absent" => c = NoConnection
        /\ c # NoConnection => connection[c].source = operation[o].wanted[1]
        /\ \A d \in done[o] : c # NoConnection /\ d[2] = ObjectOf(c, d[1]) /\ Ready(c, d[1])
        /\ operation[o].status = "finished" => c # NoConnection /\ \A i \in DOMAIN Steps : Ready(c, i)

\* Calls before there is a Connection, calls for its resources, and the end of a run.
Unbound == {"findSource", "findTarget", "createProject", "createConnection"}
Preparing == {"read", "ensure", "row", "checkpoint"}
Settled == {"finish", "failed"}

ExpectedTarget(x) == IF x.wanted # Created THEN x.wanted ELSE targetOf[x.op]

RunFits(x) ==
    LET o == x.op
        c == x.conn
    IN  IF x.pc = "insert"
        THEN /\ c = NoConnection /\ x.step = 1
             /\ operation[o].status # "absent" => operation[o].wanted[1] = x.source
        ELSE /\ operation[o].status # "absent"
             /\ operation[o].conn \in {NoConnection, c}
             /\ c # NoConnection => connection[c].source = operation[o].wanted[1]
             /\ x.pc \notin Settled => x.source = operation[o].wanted[1]
             /\ x.pc \in Unbound => c = NoConnection
             /\ x.pc \in Preparing \cup {"getConnection", "probe", "finish"}
                    => c # NoConnection /\ operation[o].conn = c
             /\ x.pc \in Preparing \cup {"link", "adopt"} => c # NoConnection /\ connection[c].target = x.target
             /\ x.pc = "adopt" => x.target = ExpectedTarget(x)
             /\ x.pc = "ensureTarget" /\ c # NoConnection
                    => operation[o].conn = c /\ connection[c].target = ExpectedTarget(x)
             /\ x.pc = "targetCheckpoint" /\ c # NoConnection
                    => operation[o].conn = c /\ connection[c].target = x.target
             /\ x.pc \notin Preparing \cup {"probe"} => x.step = 1
             /\ x.pc \in Preparing => \A i \in DOMAIN Steps : i < x.step => Ready(c, i)
             /\ x.pc \in {"probe", "finish"} => \A i \in DOMAIN Steps : Ready(c, i)
             /\ x.pc \in {"row", "checkpoint"} => x.object = ObjectOf(c, x.step) /\ objects[x.object] # "absent"
             /\ x.pc = "checkpoint" => Ready(c, x.step)

FitInv ==
    /\ OneRun
    /\ \A o \in Operations \ mixed : OperationFits(o)
    /\ \A r \in Runs : run[r].pc # "idle" /\ run[r].op \notin mixed => RunFits(run[r])

\* What is kept of Connections and resources.
Kept ==
    /\ \A c \in Connections : Exists(c) =>
           connection'[c].source = connection[c].source /\ connection'[c].target = connection[c].target
    /\ \A x \in Objects : objects[x] # "absent" => objects'[x] # "absent"
    /\ resources \subseteq resources'

LEMMA ObjectOfIsObject ==
  ASSUME RowsOK, RowsLinked, NEW c \in Connections, Exists(c), NEW i \in DOMAIN Steps
  PROVE  ObjectOf(c, i) \in Objects
  <1>1. Steps[i] \in {"label", "repository", "project"}
      BY OnboardingConstants
  <1>2. connection[c].source \in Sources /\ connection[c].target \in Targets
      BY DEF RowsOK, RowsLinked, Bindings
  <1>3. QED
      BY <1>1, <1>2, ObjectIsObject DEF ObjectOf

LEMMA ReadyStays ==
  ASSUME RowsOK, RowsLinked, Kept, NEW c \in Connections, Exists(c), NEW i \in DOMAIN Steps
  PROVE  ObjectOf(c, i)' = ObjectOf(c, i) /\ (Ready(c, i) => Ready(c, i)')
  <1>1. ObjectOf(c, i)' = ObjectOf(c, i)
      BY DEF ObjectOf, Kept
  <1>2. ObjectOf(c, i) \in Objects
      BY ObjectOfIsObject
  <1>3. QED
      BY <1>1, <1>2 DEF Ready, Kept

LEMMA OperationFitsStill ==
  ASSUME RowsOK, RowsLinked, Kept, NEW o \in Operations, OperationFits(o),
         operation'[o] = operation[o], done'[o] = done[o]
  PROVE  OperationFits(o)'
  <1>1. PICK c \in Connections \cup {NoConnection} : c = operation[o].conn
      BY DEF RowsOK
  <1>2. CASE c = NoConnection
      BY <1>1, <1>2 DEF OperationFits
  <1>3. CASE c # NoConnection
    <2>1. c \in Connections /\ Exists(c)
        BY <1>1, <1>3 DEF RowsLinked
    <2>2. \A i \in DOMAIN Steps : ObjectOf(c, i)' = ObjectOf(c, i) /\ (Ready(c, i) => Ready(c, i)')
        BY <2>1, ReadyStays
    <2>3. \A d \in done[o] : d[1] \in DOMAIN Steps
        BY OnboardingConstants DEF RowsOK, Checkpoints
    <2>4. connection'[c].source = connection[c].source
        BY <2>1 DEF Kept
    <2>5. QED
        BY <1>1, <2>2, <2>3, <2>4 DEF OperationFits
  <1>4. QED
      BY <1>2, <1>3

LEMMA RunFitsStill ==
  ASSUME RowsOK, RowsLinked, Kept, NEW x \in Locals, x.conn # NoConnection => Exists(x.conn), RunFits(x),
         x.pc \in NeedsStep => x.step <= Len(Steps),
         operation'[x.op] = operation[x.op], targetOf'[x.op] = targetOf[x.op]
  PROVE  RunFits(x)'
  <1>1. x.conn \in Connections \cup {NoConnection} /\ x.object \in Objects
      BY DEF Locals
  <1>2. CASE x.pc = "insert"
      BY <1>2 DEF RunFits
  <1>3. CASE x.pc # "insert" /\ x.conn = NoConnection
      BY <1>3 DEF RunFits, Preparing, ExpectedTarget
  <1>4. CASE x.pc # "insert" /\ x.conn # NoConnection
    <2>1. x.conn \in Connections /\ Exists(x.conn)
        BY <1>1, <1>4
    <2>2. \A i \in DOMAIN Steps : ObjectOf(x.conn, i)' = ObjectOf(x.conn, i) /\ (Ready(x.conn, i) => Ready(x.conn, i)')
        BY <2>1, ReadyStays
    <2>3. connection'[x.conn].source = connection[x.conn].source /\ connection'[x.conn].target = connection[x.conn].target
        BY <2>1 DEF Kept
    <2>4. x.pc \in {"row", "checkpoint"} => x.step \in DOMAIN Steps
        BY OnboardingConstants DEF NeedsStep, Locals
    <2>5. objects[x.object] # "absent" => objects'[x.object] # "absent"
        BY <1>1 DEF Kept
    <2>6. ExpectedTarget(x)' = ExpectedTarget(x)
        BY DEF ExpectedTarget
    <2>7. QED
        BY <1>4, <2>2, <2>3, <2>4, <2>5, <2>6 DEF RunFits
  <1>5. QED
      BY <1>2, <1>3, <1>4

\* Runs of other operations, and other runs of a mixed one, do not matter.
LEMMA StepFits ==
  ASSUME OnboardingInv, FitInv, Kept, NEW r \in Runs, NEW x \in Locals, x = run[r], x.pc # "idle",
         NEW y, run'[r] = y, \A q \in Runs \ {r} : run'[q] = run[q], y.op = x.op \/ y.pc = "idle",
         mixed' = mixed,
         \A o \in Operations \ {x.op} :
             operation'[o] = operation[o] /\ done'[o] = done[o] /\ targetOf'[o] = targetOf[o],
         x.op \notin mixed => OperationFits(x.op)' /\ (y.pc # "idle" => RunFits(y)')
  PROVE  FitInv'
  <1> USE DEF OnboardingInv
  <1>1. OneRun'
    <2>1. \A q \in Runs : run'[q].pc # "idle" => run[q].pc # "idle" /\ run[q].op = run'[q].op
        OBVIOUS
    <2>2. QED
        BY <2>1 DEF FitInv, OneRun
  <1>2. ASSUME NEW o \in Operations, o \notin mixed PROVE OperationFits(o)'
    <2>1. CASE o = x.op
        BY <1>2, <2>1
    <2>2. CASE o # x.op
        BY <1>2, <2>2, OperationFitsStill DEF FitInv
    <2>3. QED
        BY <2>1, <2>2
  <1>3. ASSUME NEW q \in Runs, NEW z, z = run'[q], z.pc # "idle", z.op \notin mixed PROVE RunFits(z)'
    <2>1. CASE q = r
        BY <1>3, <2>1
    <2>2. CASE q # r
      <3>1. z = run[q] /\ z \in Locals /\ RunOK(q) /\ z.op \in Operations
          BY <1>3, <2>2 DEF RunsOK, Locals
      <3>2. z.op # x.op
          BY <1>3, <2>2, <3>1 DEF FitInv, OneRun
      <3>3. /\ z.conn # NoConnection => Exists(z.conn)
            /\ z.pc \in NeedsStep => z.step <= Len(Steps)
          BY <3>1 DEF RunOK
      <3>4. RunFits(z)
          BY <1>3, <3>1 DEF FitInv
      <3>5. QED
          BY <3>1, <3>2, <3>3, <3>4, RunFitsStill
    <2>3. QED
        BY <2>1, <2>2
  <1>4. \A q \in Runs : run'[q].pc # "idle" /\ run'[q].op \notin mixed' => RunFits(run[q])'
    <2> SUFFICES ASSUME NEW q \in Runs, run'[q].pc # "idle", run'[q].op \notin mixed PROVE RunFits(run[q])'
        OBVIOUS
    <2>1. PICK z : z = run'[q]
        OBVIOUS
    <2>2. RunFits(z)'
        BY <1>3, <2>1
    <2>3. QED
        BY <2>1, <2>2 DEF RunFits, ExpectedTarget
  <1>5. QED
      BY <1>1, <1>2, <1>4 DEF FitInv

\* A step that moves one run and keeps what is recorded of operations.
LEMMA MoveFits ==
  ASSUME OnboardingInv, OnboardingInv', FitInv, Kept, UNCHANGED <<operation, targetOf, done, mixed>>,
         NEW r \in Runs, NEW x \in Locals, x = run[r], x.pc # "idle",
         NEW y, run'[r] = y, \A q \in Runs \ {r} : run'[q] = run[q], y.op = x.op,
         y.conn # NoConnection => Exists(y.conn),
         x.op \notin mixed /\ RunFits(x) /\ OperationFits(x.op) => RunFits(y)
  PROVE  FitInv'
  <1>1. y \in Locals /\ (y.pc \in NeedsStep => y.step <= Len(Steps))
      BY DEF OnboardingInv, RunsOK, RunOK
  <1>2. x.op \in Operations /\ RowsOK /\ RowsLinked
      BY DEF Locals, OnboardingInv
  <1>3. ASSUME x.op \notin mixed PROVE OperationFits(x.op)' /\ RunFits(y)'
    <2>1. RunFits(x) /\ OperationFits(x.op)
        BY <1>2, <1>3 DEF FitInv
    <2>2. OperationFits(x.op)'
        BY <1>2, <2>1, OperationFitsStill
    <2>3. RunFits(y)'
        BY <1>1, <1>2, <1>3, <2>1, RunFitsStill
    <2>4. QED
        BY <2>2, <2>3
  <1>4. QED
      BY <1>3, StepFits

\* Locals of a run that is settled.
LEMMA SettlingFields ==
  ASSUME RunsOK, NEW r \in Runs, NEW l \in {"failed", "finish"}, GotoEnd(r, l)
  PROVE  /\ run'[r].pc = l /\ run'[r].op = run[r].op /\ run'[r].conn = run[r].conn /\ run'[r].step = 1
         /\ \A q \in Runs \ {r} : run'[q] = run[q]
  <1>1. Resting \in Locals /\ Resting.step = 1
      BY RestingIsLocal DEF Resting, Idle
  <1>2. /\ Settling(r, l).pc = l /\ Settling(r, l).op = run[r].op /\ Settling(r, l).conn = run[r].conn
        /\ Settling(r, l).step = 1
      BY <1>1 DEF Settling, Locals
  <1>3. QED
      BY <1>2 DEF GotoEnd, RunsOK

LEMMA FailureFits ==
  ASSUME OnboardingInv, OnboardingInv', FitInv, Kept, UNCHANGED <<operation, targetOf, done, mixed>>,
         NEW r \in Runs, GotoEnd(r, "failed"), run[r].pc \notin {"idle", "insert"}
  PROVE  FitInv'
  <1>1. PICK x \in Locals : x = run[r]
      BY DEF OnboardingInv, RunsOK
  <1>2. PICK y : y = run'[r]
      OBVIOUS
  <1>3. /\ y.pc = "failed" /\ y.op = x.op /\ y.conn = x.conn /\ y.step = 1
        /\ \A q \in Runs \ {r} : run'[q] = run[q]
      BY <1>1, <1>2, SettlingFields DEF OnboardingInv
  <1>4. RunFits(x) => RunFits(y)
      BY <1>1, <1>3 DEF RunFits, Unbound, Preparing, Settled
  <1>5. y.conn # NoConnection => Exists(y.conn)
      BY <1>1, <1>3 DEF OnboardingInv, RunsOK, RunOK
  <1>6. QED
      BY <1>1, <1>2, <1>3, <1>4, <1>5, MoveFits

\* Locals of a run that just goes on.
LEMMA GoFields ==
  ASSUME RunsOK, NEW r \in Runs, NEW l \in RunPc, Goto(r, l), NEW x \in Locals, x = run[r], NEW y, y = run'[r]
  PROVE  /\ y.pc = l /\ y.op = x.op /\ y.source = x.source /\ y.wanted = x.wanted /\ y.conn = x.conn
         /\ y.target = x.target /\ y.step = x.step /\ y.object = x.object /\ y.own = x.own
         /\ \A q \in Runs \ {r} : run'[q] = run[q]
  BY RunGoes DEF Locals

LEMMA RowsKept == UNCHANGED <<rows, provider>> => Kept
  BY DEF Kept, rows, provider

\* Steps before there are resources that change no row.
LEMMA GetConnectionFits ==
  ASSUME OnboardingInv, OnboardingInv', FitInv, NEW r \in Runs, GetConnection(r)
  PROVE  FitInv'
  <1>1. PICK x \in Locals : x = run[r]
      BY DEF OnboardingInv, RunsOK
  <1>2. PICK y : y = run'[r]
      OBVIOUS
  <1>3. /\ x.pc = "getConnection" /\ y.pc = "read" /\ y.op = x.op /\ y.source = x.source /\ y.wanted = x.wanted
        /\ y.conn = x.conn /\ y.target = connection[x.conn].target /\ y.step = x.step
        /\ \A q \in Runs \ {r} : run'[q] = run[q]
      BY <1>1, <1>2 DEF GetConnection, OnboardingInv, RunsOK, Locals
  <1>4. RunFits(x) => RunFits(y)
      BY <1>3, OnboardingConstants DEF RunFits, Unbound, Preparing, Settled
  <1>5. y.conn # NoConnection => Exists(y.conn)
      BY <1>1, <1>3 DEF OnboardingInv, RunsOK, RunOK
  <1>6. Kept /\ UNCHANGED <<operation, targetOf, done, mixed>>
      BY RowsKept DEF GetConnection, rows, history
  <1>7. QED
      BY <1>1, <1>2, <1>3, <1>4, <1>5, <1>6, MoveFits

LEMMA FindSourceFits ==
  ASSUME OnboardingInv, OnboardingInv', FitInv, NEW r \in Runs, FindActiveConnectionBySource(r)
  PROVE  FitInv'
  <1>1. PICK x \in Locals : x = run[r]
      BY DEF OnboardingInv, RunsOK
  <1>2. PICK y : y = run'[r]
      OBVIOUS
  <1>3. Kept /\ UNCHANGED <<operation, targetOf, done, mixed>> /\ RunsOK /\ x.pc = "findSource"
      BY <1>1, RowsKept DEF FindActiveConnectionBySource, rows, history, OnboardingInv
  <1>4. CASE GotoEnd(r, "failed")
      BY <1>1, <1>3, <1>4, FailureFits
  <1>5. ASSUME NEW l \in {"ensureTarget", "findTarget"}, Goto(r, l) PROVE FitInv'
    <2>1. l \in RunPc
        BY DEF RunPc
    <2>2. /\ y.pc = l /\ y.op = x.op /\ y.source = x.source /\ y.wanted = x.wanted /\ y.conn = x.conn
          /\ y.target = x.target /\ y.step = x.step /\ \A q \in Runs \ {r} : run'[q] = run[q]
        BY <1>1, <1>2, <1>3, <1>5, <2>1, GoFields
    <2>3. RunFits(x) => RunFits(y)
        BY <1>3, <2>2 DEF RunFits, Unbound, Preparing, Settled
    <2>4. y.conn # NoConnection => Exists(y.conn)
        BY <1>1, <2>2 DEF OnboardingInv, RunsOK, RunOK
    <2>5. QED
        BY <1>1, <1>2, <1>3, <2>2, <2>3, <2>4, MoveFits
  <1>6. ASSUME NEW c \in BySource(run[r].source), NEW t,
               t = ExpectedTarget(x), connection[c].target = t,
               run' = [run EXCEPT ![r].conn = c, ![r].target = t, ![r].pc = "adopt"]
        PROVE  FitInv'
    <2>1. /\ y.pc = "adopt" /\ y.op = x.op /\ y.source = x.source /\ y.wanted = x.wanted /\ y.conn = c
          /\ y.target = t /\ y.step = x.step /\ \A q \in Runs \ {r} : run'[q] = run[q]
        BY <1>1, <1>2, <1>6 DEF RunsOK, OnboardingInv, Locals
    <2>2. c \in Connections /\ c # NoConnection /\ Exists(c) /\ connection[c].source = x.source
        BY <1>1, <1>6, Numbers DEF BySource, Active, Exists
    <2>3. ExpectedTarget(y) = t
        BY <1>6, <2>1 DEF ExpectedTarget
    <2>4. RunFits(x) => RunFits(y)
        BY <1>3, <1>6, <2>1, <2>2, <2>3 DEF RunFits, Unbound, Preparing, Settled
    <2>5. QED
        BY <1>1, <1>2, <1>3, <2>1, <2>2, <2>4, MoveFits
  <1>7. CASE BySource(run[r].source) = {}
      BY <1>3, <1>5, <1>7 DEF FindActiveConnectionBySource
  <1>8. CASE BySource(run[r].source) # {}
    <2>1. First(BySource(run[r].source)) \in BySource(run[r].source)
      <3>1. BySource(run[r].source) \subseteq Nat
          BY Numbers DEF BySource
      <3>2. QED
          BY <1>8, <3>1, FirstIsMember
    <2>2. QED
        BY <1>1, <1>4, <1>6, <1>8, <2>1 DEF FindActiveConnectionBySource, ExpectedTarget
  <1>9. QED
      BY <1>7, <1>8

LEMMA FindTargetFits ==
  ASSUME OnboardingInv, OnboardingInv', FitInv, NEW r \in Runs, FindActiveConnectionByTarget(r)
  PROVE  FitInv'
  <1>1. PICK x \in Locals : x = run[r]
      BY DEF OnboardingInv, RunsOK
  <1>2. PICK y : y = run'[r]
      OBVIOUS
  <1>3. Kept /\ UNCHANGED <<operation, targetOf, done, mixed>> /\ RunsOK /\ x.pc = "findTarget"
      BY <1>1, RowsKept DEF FindActiveConnectionByTarget, rows, history, OnboardingInv
  <1>4. CASE GotoEnd(r, "failed")
      BY <1>1, <1>3, <1>4, FailureFits
  <1>5. CASE Goto(r, "ensureTarget")
    <2>1. /\ y.pc = "ensureTarget" /\ y.op = x.op /\ y.source = x.source /\ y.wanted = x.wanted /\ y.conn = x.conn
          /\ y.target = x.target /\ y.step = x.step /\ \A q \in Runs \ {r} : run'[q] = run[q]
        BY <1>1, <1>2, <1>3, <1>5, Pcs, GoFields
    <2>2. RunFits(x) => RunFits(y)
        BY <1>3, <2>1 DEF RunFits, Unbound, Preparing, Settled
    <2>3. y.conn # NoConnection => Exists(y.conn)
        BY <1>1, <2>1 DEF OnboardingInv, RunsOK, RunOK
    <2>4. QED
        BY <1>1, <1>2, <1>3, <2>1, <2>2, <2>3, MoveFits
  <1>6. QED
      BY <1>4, <1>5 DEF FindActiveConnectionByTarget

\* Steps that find or create the target project.
LEMMA EnsureTargetFits ==
  ASSUME OnboardingInv, OnboardingInv', FitInv, NEW r \in Runs, EnsureTargetProject(r)
  PROVE  FitInv'
  <1>1. PICK x \in Locals : x = run[r]
      BY DEF OnboardingInv, RunsOK
  <1>2. PICK y : y = run'[r]
      OBVIOUS
  <1>3. Kept /\ UNCHANGED <<operation, targetOf, done, mixed>> /\ RunsOK /\ x.pc = "ensureTarget"
      BY <1>1, RowsKept DEF EnsureTargetProject, rows, OnboardingInv
  <1>4. CASE GotoEnd(r, "failed")
      BY <1>1, <1>3, <1>4, FailureFits
  <1>5. x.conn # NoConnection => x.conn \in Connections /\ Exists(x.conn) /\ connection[x.conn].target # NoTarget
    <2>1. x.conn \in Connections \cup {NoConnection} /\ RunOK(r)
        BY <1>1 DEF Locals, OnboardingInv, RunsOK
    <2>2. QED
        BY <1>1, <2>1 DEF RunOK, OnboardingInv, RowsLinked
  <1>6. CASE ExpectedTarget(x) # NoTarget
             /\ run' = [run EXCEPT ![r].target = ExpectedTarget(x), ![r].pc = "targetCheckpoint"]
    <2>1. /\ y.pc = "targetCheckpoint" /\ y.op = x.op /\ y.source = x.source /\ y.wanted = x.wanted /\ y.conn = x.conn
          /\ y.target = ExpectedTarget(x) /\ y.step = x.step /\ \A q \in Runs \ {r} : run'[q] = run[q]
        BY <1>1, <1>2, <1>6 DEF RunsOK, OnboardingInv, Locals
    <2>2. RunFits(x) => RunFits(y)
        BY <1>3, <2>1 DEF RunFits, Unbound, Preparing, Settled
    <2>3. QED
        BY <1>1, <1>2, <1>3, <1>5, <2>1, <2>2, MoveFits
  <1>7. CASE ExpectedTarget(x) = NoTarget /\ Goto(r, "createProject")
    <2>1. /\ y.pc = "createProject" /\ y.op = x.op /\ y.source = x.source /\ y.wanted = x.wanted /\ y.conn = x.conn
          /\ y.target = x.target /\ y.step = x.step /\ \A q \in Runs \ {r} : run'[q] = run[q]
        BY <1>1, <1>2, <1>3, <1>7, Pcs, GoFields
    <2>2. RunFits(x) => x.conn = NoConnection
        BY <1>3, <1>5, <1>7 DEF RunFits
    <2>3. RunFits(x) => RunFits(y)
        BY <1>3, <2>1, <2>2 DEF RunFits, Unbound, Preparing, Settled
    <2>4. QED
        BY <1>1, <1>2, <1>3, <1>5, <2>1, <2>3, MoveFits
  <1>8. x.wanted # Created => x.wanted # NoTarget
      BY DEF Created, NoTarget
  <1>9. QED
      BY <1>1, <1>4, <1>6, <1>7, <1>8 DEF EnsureTargetProject, ExpectedTarget

LEMMA CreateProjectFits ==
  ASSUME OnboardingInv, OnboardingInv', FitInv, NEW r \in Runs, CreateProject(r)
  PROVE  FitInv'
  <1>1. PICK x \in Locals : x = run[r]
      BY DEF OnboardingInv, RunsOK
  <1>2. PICK y : y = run'[r]
      OBVIOUS
  <1>3. Kept /\ UNCHANGED <<operation, targetOf, done, mixed>> /\ RunsOK /\ x.pc = "createProject"
      BY <1>1 DEF CreateProject, rows, history, OnboardingInv, Kept
  <1>4. CASE GotoEnd(r, "failed")
      BY <1>1, <1>3, <1>4, FailureFits
  <1>5. ASSUME NEW t, run' = [run EXCEPT ![r].target = t, ![r].pc = "targetCheckpoint"] PROVE FitInv'
    <2>1. /\ y.pc = "targetCheckpoint" /\ y.op = x.op /\ y.source = x.source /\ y.wanted = x.wanted /\ y.conn = x.conn
          /\ y.target = t /\ y.step = x.step /\ \A q \in Runs \ {r} : run'[q] = run[q]
        BY <1>1, <1>2, <1>5 DEF RunsOK, OnboardingInv, Locals
    <2>2. RunFits(x) => RunFits(y)
        BY <1>3, <2>1 DEF RunFits, Unbound, Preparing, Settled
    <2>3. y.conn # NoConnection => Exists(y.conn)
        BY <1>1, <2>1 DEF OnboardingInv, RunsOK, RunOK
    <2>4. QED
        BY <1>1, <1>2, <1>3, <2>1, <2>2, <2>3, MoveFits
  <1>6. QED
      BY <1>4, <1>5 DEF CreateProject

LEMMA CheckpointTargetFits ==
  ASSUME OnboardingInv, OnboardingInv', FitInv, NEW r \in Runs, CheckpointTarget(r)
  PROVE  FitInv'
  <1>1. PICK x \in Locals : x = run[r]
      BY DEF OnboardingInv, RunsOK
  <1>2. PICK y : y = run'[r]
      OBVIOUS
  <1>3. PICK l \in {"createConnection", "read"} :
            Goto(r, l) /\ (x.conn = NoConnection <=> l = "createConnection")
      BY <1>1 DEF CheckpointTarget
  <1>4. /\ y.pc = l /\ y.op = x.op /\ y.source = x.source /\ y.wanted = x.wanted /\ y.conn = x.conn
        /\ y.target = x.target /\ y.step = x.step /\ \A q \in Runs \ {r} : run'[q] = run[q]
    <2>1. l \in RunPc
        BY DEF RunPc
    <2>2. QED
        BY <1>1, <1>2, <1>3, <2>1, GoFields DEF OnboardingInv
  <1>5. Kept /\ UNCHANGED <<operation, done, connection, resources, objects, mixed>> /\ x.pc = "targetCheckpoint"
      BY <1>1 DEF CheckpointTarget, Kept, provider, history
  <1>6. \A o \in Operations \ {x.op} : targetOf'[o] = targetOf[o]
      BY <1>1 DEF CheckpointTarget, OnboardingInv, RowsOK
  <1>7. ASSUME x.op \notin mixed PROVE OperationFits(x.op)' /\ RunFits(y)'
    <2>1. x.op \in Operations
        BY DEF Locals
    <2>2. RunFits(x) /\ OperationFits(x.op)
        BY <1>1, <1>5, <1>7, <2>1 DEF FitInv
    <2>3. OperationFits(x.op)'
        BY <1>5, <2>1, <2>2, OperationFitsStill DEF OnboardingInv
    <2>4. RunFits(y)'
        BY <1>3, <1>4, <1>5, <2>2, OnboardingConstants DEF RunFits, Unbound, Preparing, Settled
    <2>5. QED
        BY <2>3, <2>4
  <1>8. QED
      BY <1>1, <1>2, <1>4, <1>5, <1>6, <1>7, StepFits

\* The Connection is created and linked.
LEMMA CreateConnectionFits ==
  ASSUME OnboardingInv, OnboardingInv', FitInv, NEW r \in Runs, CreateConnection(r)
  PROVE  FitInv'
  <1>1. PICK x \in Locals : x = run[r]
      BY DEF OnboardingInv, RunsOK
  <1>2. PICK y : y = run'[r]
      OBVIOUS
  <1>3. x.pc = "createConnection" /\ UNCHANGED <<operation, targetOf, done, resources, objects, mixed>>
      BY <1>1 DEF CreateConnection, provider, history
  <1>4. CASE GotoEnd(r, "failed") /\ UNCHANGED connection
    <2>1. Kept
        BY <1>3, <1>4 DEF Kept
    <2>2. QED
        BY <1>1, <1>3, <1>4, <2>1, FailureFits
  <1>5. ASSUME NEW c \in NewConnection,
               connection' = [connection EXCEPT ![c] = [status |-> "active", source |-> x.source, target |-> x.target]],
               run' = [run EXCEPT ![r].conn = c, ![r].pc = "link"]
        PROVE  FitInv'
    <2>1. /\ y.pc = "link" /\ y.op = x.op /\ y.source = x.source /\ y.wanted = x.wanted /\ y.conn = c
          /\ y.target = x.target /\ y.step = x.step /\ \A q \in Runs \ {r} : run'[q] = run[q]
        BY <1>1, <1>2, <1>5 DEF RunsOK, OnboardingInv, Locals
    <2>2. c \in Connections /\ ~Exists(c) /\ connection'[c].source = x.source /\ connection'[c].target = x.target
        BY <1>5 DEF NewConnection, Exists, OnboardingInv, RowsOK
    <2>3. Kept
        BY <1>3, <1>5, <2>2 DEF Kept, OnboardingInv, RowsOK
    <2>4. ASSUME x.op \notin mixed PROVE OperationFits(x.op)' /\ RunFits(y)'
      <3>1. x.op \in Operations
          BY DEF Locals
      <3>2. RunFits(x) /\ OperationFits(x.op)
          BY <1>1, <1>3, <2>4, <3>1 DEF FitInv
      <3>3. OperationFits(x.op)'
          BY <1>3, <2>3, <3>1, <3>2, OperationFitsStill DEF OnboardingInv
      <3>4. RunFits(y)'
          BY <1>3, <2>1, <2>2, <3>2, Numbers DEF RunFits, Unbound, Preparing, Settled
      <3>5. QED
          BY <3>3, <3>4
    <2>5. QED
        BY <1>1, <1>2, <1>3, <2>1, <2>3, <2>4, StepFits
  <1>6. NewConnection # {} => First(NewConnection) \in NewConnection
    <2>1. NewConnection \subseteq Nat
        BY Numbers DEF NewConnection
    <2>2. QED
        BY <2>1, FirstIsMember
  <1>7. QED
      BY <1>1, <1>4, <1>5, <1>6 DEF CreateConnection

LEMMA OperationUpdate ==
  ASSUME RowsOK, NEW r \in Runs, NEW s, UpdateOnboardingOperation(r, s), NEW o \in Operations, o = run[r].op
  PROVE  /\ operation'[o].wanted = operation[o].wanted /\ operation'[o].status = s
         /\ operation'[o].conn = run[r].conn /\ \A p \in Operations \ {o} : operation'[p] = operation[p]
  BY DEF UpdateOnboardingOperation, RowsOK

\* The Connection of an operation is recorded once.
LEMMA RecordedFits ==
  ASSUME NEW x \in Locals, RunFits(x), OperationFits(x.op), x.pc # "insert", NEW s \in {"open", "finished"},
         operation'[x.op].wanted = operation[x.op].wanted, operation'[x.op].status = s, operation'[x.op].conn = x.conn,
         s = "finished" => x.pc = "finish",
         UNCHANGED <<done, connection, resources, objects>>
  PROVE  OperationFits(x.op)'
  <1>1. x.conn # NoConnection => connection[x.conn].source = operation[x.op].wanted[1]
      BY DEF RunFits
  <1>2. operation[x.op].conn \in {NoConnection, x.conn}
      BY DEF RunFits
  <1>3. \A d \in done[x.op] : operation[x.op].conn = x.conn /\ x.conn # NoConnection
                                /\ d[2] = ObjectOf(x.conn, d[1]) /\ Ready(x.conn, d[1])
      BY <1>2 DEF OperationFits
  <1>4. \A c, i : ObjectOf(c, i)' = ObjectOf(c, i) /\ (Ready(c, i)' <=> Ready(c, i))
      BY DEF ObjectOf, Ready
  <1>5. s = "finished" => x.conn # NoConnection /\ \A i \in DOMAIN Steps : Ready(x.conn, i)
      BY DEF RunFits
  <1>6. QED
      BY <1>1, <1>3, <1>4, <1>5 DEF OperationFits

LEMMA LinkFits ==
  ASSUME OnboardingInv, OnboardingInv', FitInv, NEW r \in Runs, LinkConnection(r)
  PROVE  FitInv'
  <1>1. PICK x \in Locals : x = run[r]
      BY DEF OnboardingInv, RunsOK
  <1>2. PICK y : y = run'[r]
      OBVIOUS
  <1>3. /\ x.pc \in {"link", "adopt"} /\ x.op \in Operations /\ x.conn \in Connections \cup {NoConnection}
        /\ UNCHANGED <<targetOf, done, connection, resources, objects, mixed>>
      BY <1>1 DEF LinkConnection, provider, history, Locals
  <1>4. PICK l \in {"read", "ensureTarget"} : Goto(r, l) /\ (x.pc = "link" <=> l = "read")
      BY <1>1 DEF LinkConnection
  <1>5. /\ y.pc = l /\ y.op = x.op /\ y.source = x.source /\ y.wanted = x.wanted /\ y.conn = x.conn
        /\ y.target = x.target /\ y.step = x.step /\ \A q \in Runs \ {r} : run'[q] = run[q]
    <2>1. l \in RunPc
        BY DEF RunPc
    <2>2. QED
        BY <1>1, <1>2, <1>4, <2>1, GoFields DEF OnboardingInv
  <1>6. /\ operation'[x.op].wanted = operation[x.op].wanted /\ operation'[x.op].status = "open"
        /\ operation'[x.op].conn = x.conn /\ \A o \in Operations \ {x.op} : operation'[o] = operation[o]
      BY <1>1, <1>3, OperationUpdate DEF LinkConnection, OnboardingInv
  <1>7. Kept
      BY <1>3 DEF Kept
  <1>8. ASSUME x.op \notin mixed PROVE OperationFits(x.op)' /\ RunFits(y)'
    <2>1. RunFits(x) /\ OperationFits(x.op)
        BY <1>1, <1>3, <1>8 DEF FitInv
    <2>2. OperationFits(x.op)'
        BY <1>3, <1>6, <2>1, RecordedFits
    <2>3. ExpectedTarget(y)' = ExpectedTarget(x)
        BY <1>3, <1>5 DEF ExpectedTarget
    <2>4. RunFits(y)'
        BY <1>3, <1>4, <1>5, <1>6, <2>1, <2>3, OnboardingConstants DEF RunFits, Unbound, Preparing, Settled
    <2>5. QED
        BY <2>2, <2>4
  <1>9. QED
      BY <1>1, <1>2, <1>3, <1>5, <1>6, <1>7, <1>8, StepFits

\* The resources.
LEMMA ReadFits ==
  ASSUME OnboardingInv, OnboardingInv', FitInv, NEW r \in Runs, ReadCheckpoint(r)
  PROVE  FitInv'
  <1>1. PICK x \in Locals : x = run[r]
      BY DEF OnboardingInv, RunsOK
  <1>2. PICK y : y = run'[r]
      OBVIOUS
  <1>3. Kept /\ UNCHANGED <<operation, targetOf, done, mixed>> /\ RunsOK /\ x.pc = "read"
      BY <1>1, RowsKept DEF ReadCheckpoint, rows, history, OnboardingInv
  <1>4. (x.conn # NoConnection => Exists(x.conn)) /\ Len(Steps) \in Nat /\ DOMAIN Steps = 1 .. Len(Steps)
        /\ x.step \in 1 .. Len(Steps) + 1
      BY <1>1, OnboardingConstants DEF OnboardingInv, RunsOK, RunOK, Locals
  <1>5. ASSUME NEW l \in {"probe", "ensure"}, Goto(r, l), l = "probe" => x.step > Len(Steps) PROVE FitInv'
    <2>1. l \in RunPc
        BY DEF RunPc
    <2>2. /\ y.pc = l /\ y.op = x.op /\ y.source = x.source /\ y.wanted = x.wanted /\ y.conn = x.conn
          /\ y.target = x.target /\ y.step = x.step /\ \A q \in Runs \ {r} : run'[q] = run[q]
        BY <1>1, <1>2, <1>3, <1>5, <2>1, GoFields
    <2>3. RunFits(x) => RunFits(y)
        BY <1>3, <1>4, <1>5, <2>2 DEF RunFits, Unbound, Preparing, Settled
    <2>4. QED
        BY <1>1, <1>2, <1>3, <1>4, <2>2, <2>3, MoveFits
  <1>6. ASSUME NEW d \in done[x.op], d[1] = x.step, x.step <= Len(Steps),
               run' = [run EXCEPT ![r].object = d[2], ![r].own = d[3], ![r].pc = "row"]
        PROVE  FitInv'
    <2>1. /\ y.pc = "row" /\ y.op = x.op /\ y.source = x.source /\ y.wanted = x.wanted /\ y.conn = x.conn
          /\ y.target = x.target /\ y.step = x.step /\ y.object = d[2] /\ \A q \in Runs \ {r} : run'[q] = run[q]
        BY <1>1, <1>2, <1>6 DEF RunsOK, OnboardingInv, Locals
    <2>2. RunFits(x) /\ OperationFits(x.op) => x.conn # NoConnection /\ operation[x.op].conn = x.conn
        BY <1>3 DEF RunFits, Preparing
    <2>3. RunFits(x) /\ OperationFits(x.op) => d[2] = ObjectOf(x.conn, x.step) /\ Ready(x.conn, x.step)
        BY <1>6, <2>2 DEF OperationFits
    <2>4. RunFits(x) /\ OperationFits(x.op) => RunFits(y)
        BY <1>3, <2>1, <2>2, <2>3 DEF RunFits, Unbound, Preparing, Settled, Ready
    <2>5. QED
        BY <1>1, <1>2, <1>3, <1>4, <2>1, <2>4, MoveFits
  <1>7. QED
      BY <1>1, <1>4, <1>5, <1>6 DEF ReadCheckpoint

LEMMA EnsureFits ==
  ASSUME OnboardingInv, OnboardingInv', FitInv, NEW r \in Runs, Ensure(r)
  PROVE  FitInv'
  <1>1. PICK x \in Locals : x = run[r]
      BY DEF OnboardingInv, RunsOK
  <1>2. PICK y : y = run'[r]
      OBVIOUS
  <1>3. /\ UNCHANGED <<operation, targetOf, done, connection, resources, mixed>> /\ RunsOK /\ x.pc = "ensure"
        /\ \A q \in Objects : objects[q] # "absent" => objects'[q] # "absent"
        /\ \A q \in Objects : q = Wanted(r) => objects'[q] # "absent"
      BY <1>1 DEF Ensure, rows, history, OnboardingInv, RowsOK
  <1>4. Kept
      BY <1>3 DEF Kept
  <1>5. CASE GotoEnd(r, "failed")
      BY <1>1, <1>3, <1>4, <1>5, FailureFits
  <1>6. ASSUME NEW b, NEW w, b = Wanted(r), run' = [run EXCEPT ![r].pc = "row", ![r].object = b, ![r].own = w]
        PROVE  FitInv'
    <2>1. /\ y.pc = "row" /\ y.op = x.op /\ y.source = x.source /\ y.wanted = x.wanted /\ y.conn = x.conn
          /\ y.target = x.target /\ y.step = x.step /\ y.object = b /\ \A q \in Runs \ {r} : run'[q] = run[q]
        BY <1>1, <1>2, <1>6 DEF RunsOK, OnboardingInv, Locals
    <2>2. x.op \in Operations /\ (x.conn # NoConnection => x.conn \in Connections /\ Exists(x.conn))
      <3>1. x.conn \in Connections \cup {NoConnection} /\ x.op \in Operations /\ RunOK(r)
          BY <1>1 DEF Locals, OnboardingInv, RunsOK
      <3>2. QED
          BY <1>1, <3>1 DEF RunOK
    <2>3. x.step \in DOMAIN Steps
        BY <1>1, <1>3, OnboardingConstants DEF OnboardingInv, RunsOK, RunOK, NeedsStep, Locals
    <2>4. ASSUME x.op \notin mixed PROVE OperationFits(x.op)' /\ RunFits(y)'
      <3>1. RunFits(x) /\ OperationFits(x.op)
          BY <1>1, <1>3, <2>2, <2>4 DEF FitInv
      <3>2. OperationFits(x.op)'
          BY <1>3, <1>4, <2>2, <3>1, OperationFitsStill DEF OnboardingInv
      <3>3. x.conn \in Connections /\ Exists(x.conn)
          BY <1>3, <2>2, <3>1 DEF RunFits, Preparing
      <3>4. \A i \in DOMAIN Steps : ObjectOf(x.conn, i)' = ObjectOf(x.conn, i) /\ (Ready(x.conn, i) => Ready(x.conn, i)')
          BY <1>4, <3>3, ReadyStays DEF OnboardingInv
      <3>5. b = ObjectOf(x.conn, x.step)
          BY <1>1, <1>3, <1>6, <3>1 DEF Wanted, ObjectOf, RunFits, Preparing, Settled
      <3>6. objects'[b] # "absent"
          BY <1>3, <1>6, <2>3, <3>3, <3>5, ObjectOfIsObject DEF OnboardingInv
      <3>7. RunFits(y)'
          BY <1>3, <2>1, <2>3, <3>1, <3>4, <3>5, <3>6 DEF RunFits, Unbound, Preparing, Settled
      <3>8. QED
          BY <3>2, <3>7
    <2>5. QED
        BY <1>1, <1>2, <1>3, <1>4, <2>1, <2>4, StepFits
  <1>7. QED
      BY <1>5, <1>6 DEF Ensure

LEMMA RowFits ==
  ASSUME OnboardingInv, OnboardingInv', FitInv, NEW r \in Runs, EnsureManagedResource(r)
  PROVE  FitInv'
  <1>1. PICK x \in Locals : x = run[r]
      BY DEF OnboardingInv, RunsOK
  <1>2. PICK y : y = run'[r]
      OBVIOUS
  <1>3. /\ UNCHANGED <<operation, targetOf, done, connection, objects, mixed>> /\ RunsOK /\ x.pc = "row"
        /\ resources \subseteq resources' /\ Goto(r, "checkpoint")
      BY <1>1 DEF EnsureManagedResource, provider, history, OnboardingInv
  <1>4. Kept
      BY <1>3 DEF Kept
  <1>5. \E z \in resources' : z[1] = x.conn /\ z[2] = x.object
    <2>1. CASE \E z \in resources : z[1] = x.conn /\ z[2] = x.object
        BY <1>3, <2>1
    <2>2. CASE ~ \E z \in resources : z[1] = x.conn /\ z[2] = x.object
      <3>1. <<x.conn, x.object, x.own>> \in resources'
          BY <1>1, <2>2 DEF EnsureManagedResource
      <3>2. <<x.conn, x.object, x.own>>[1] = x.conn /\ <<x.conn, x.object, x.own>>[2] = x.object
          OBVIOUS
      <3>3. QED
          BY <3>1, <3>2
    <2>3. QED
        BY <2>1, <2>2
  <1>6. /\ y.pc = "checkpoint" /\ y.op = x.op /\ y.source = x.source /\ y.wanted = x.wanted /\ y.conn = x.conn
        /\ y.target = x.target /\ y.step = x.step /\ y.object = x.object /\ \A q \in Runs \ {r} : run'[q] = run[q]
      BY <1>1, <1>2, <1>3, Pcs, GoFields
  <1>7. ASSUME x.op \notin mixed PROVE OperationFits(x.op)' /\ RunFits(y)'
    <2>1. x.op \in Operations /\ x.conn \in Connections \cup {NoConnection} /\ RunOK(r)
        BY <1>1 DEF Locals, OnboardingInv, RunsOK
    <2>2. RunFits(x) /\ OperationFits(x.op)
        BY <1>1, <1>3, <1>7, <2>1 DEF FitInv
    <2>3. OperationFits(x.op)'
        BY <1>3, <1>4, <2>1, <2>2, OperationFitsStill DEF OnboardingInv
    <2>4. x.conn \in Connections /\ Exists(x.conn)
        BY <1>1, <1>3, <2>1, <2>2 DEF RunFits, Preparing, RunOK
    <2>5. \A i \in DOMAIN Steps : ObjectOf(x.conn, i)' = ObjectOf(x.conn, i) /\ (Ready(x.conn, i) => Ready(x.conn, i)')
        BY <1>4, <2>4, ReadyStays DEF OnboardingInv
    <2>6. x.step \in DOMAIN Steps
        BY <1>1, <1>3, <2>1, OnboardingConstants DEF RunOK, NeedsStep, Locals
    <2>7. x.object = ObjectOf(x.conn, x.step) /\ objects[x.object] # "absent"
        BY <1>3, <2>2 DEF RunFits
    <2>8. Ready(x.conn, x.step)'
        BY <1>3, <1>5, <2>5, <2>6, <2>7 DEF Ready
    <2>9. RunFits(y)'
        BY <1>3, <1>6, <2>2, <2>5, <2>6, <2>7, <2>8 DEF RunFits, Unbound, Preparing, Settled
    <2>10. QED
        BY <2>3, <2>9
  <1>8. QED
      BY <1>1, <1>2, <1>3, <1>4, <1>6, <1>7, StepFits

LEMMA CheckpointFits ==
  ASSUME OnboardingInv, OnboardingInv', FitInv, NEW r \in Runs, CheckpointResource(r)
  PROVE  FitInv'
  <1>1. PICK x \in Locals : x = run[r]
      BY DEF OnboardingInv, RunsOK
  <1>2. PICK y : y = run'[r]
      OBVIOUS
  <1>3. /\ UNCHANGED <<operation, targetOf, connection, resources, objects, mixed>> /\ RunsOK /\ x.pc = "checkpoint"
        /\ x.op \in Operations
      BY <1>1 DEF CheckpointResource, provider, history, OnboardingInv, Locals
  <1>4. Kept
      BY <1>3 DEF Kept
  <1>5. /\ \A o \in Operations \ {x.op} : done'[o] = done[o]
        /\ \A d \in done'[x.op] : d \in done[x.op] \/ d = <<x.step, x.object, x.own>>
      BY <1>1, <1>3 DEF CheckpointResource, OnboardingInv, RowsOK
  <1>6. /\ y.pc = "read" /\ y.op = x.op /\ y.source = x.source /\ y.wanted = x.wanted /\ y.conn = x.conn
        /\ y.target = x.target /\ y.step = x.step + 1 /\ \A q \in Runs \ {r} : run'[q] = run[q]
      BY <1>1, <1>2 DEF CheckpointResource, OnboardingInv, RunsOK, Locals
  <1>7. ASSUME x.op \notin mixed PROVE OperationFits(x.op)' /\ RunFits(y)'
    <2>1. RunFits(x) /\ OperationFits(x.op)
        BY <1>1, <1>3, <1>7 DEF FitInv
    <2>2. \A c, i : ObjectOf(c, i)' = ObjectOf(c, i) /\ (Ready(c, i)' <=> Ready(c, i))
        BY <1>3 DEF ObjectOf, Ready
    <2>3. /\ x.conn # NoConnection /\ operation[x.op].conn = x.conn /\ x.object = ObjectOf(x.conn, x.step)
          /\ Ready(x.conn, x.step)
        BY <1>3, <2>1 DEF RunFits, Preparing
    <2>4. OperationFits(x.op)'
        BY <1>3, <1>5, <2>1, <2>2, <2>3 DEF OperationFits
    <2>5. \A i \in DOMAIN Steps : i < x.step + 1 => i < x.step \/ i = x.step
        BY OnboardingConstants DEF Locals
    <2>6. RunFits(y)'
        BY <1>3, <1>6, <2>1, <2>2, <2>3, <2>5 DEF RunFits, Unbound, Preparing, Settled
    <2>7. QED
        BY <2>4, <2>6
  <1>8. QED
      BY <1>1, <1>2, <1>3, <1>4, <1>5, <1>6, <1>7, StepFits

\* The end of a run.
LEMMA ProbeFits ==
  ASSUME OnboardingInv, OnboardingInv', FitInv, NEW r \in Runs, ProbeReadiness(r)
  PROVE  FitInv'
  <1>1. PICK x \in Locals : x = run[r]
      BY DEF OnboardingInv, RunsOK
  <1>2. PICK y : y = run'[r]
      OBVIOUS
  <1>3. /\ UNCHANGED <<operation, targetOf, done, resources, objects, mixed>> /\ x.pc = "probe"
        /\ GotoEnd(r, "finish") /\ RunsOK
      BY <1>1 DEF ProbeReadiness, provider, history, OnboardingInv
  <1>4. Kept
    <2>1. connection' = connection \/ connection' = [connection EXCEPT ![run[r].conn].status = "active"]
        BY DEF ProbeReadiness
    <2>2. QED
        BY <1>3, <2>1 DEF Kept, OnboardingInv, RowsOK, Bindings
  <1>5. /\ y.pc = "finish" /\ y.op = x.op /\ y.conn = x.conn /\ y.step = 1
        /\ \A q \in Runs \ {r} : run'[q] = run[q]
      BY <1>1, <1>2, <1>3, SettlingFields
  <1>6. RunFits(x) => RunFits(y)
      BY <1>3, <1>5 DEF RunFits, Unbound, Preparing, Settled
  <1>7. y.conn # NoConnection => Exists(y.conn)
      BY <1>1, <1>3, <1>5 DEF RunsOK, RunOK
  <1>8. QED
      BY <1>1, <1>2, <1>3, <1>4, <1>5, <1>6, <1>7, MoveFits

LEMMA EndFits ==
  ASSUME OnboardingInv, OnboardingInv', FitInv, NEW r \in Runs, Finish(r) \/ RecordFailure(r)
  PROVE  FitInv'
  <1>1. PICK x \in Locals : x = run[r]
      BY DEF OnboardingInv, RunsOK
  <1>2. PICK y : y = run'[r]
      OBVIOUS
  <1>3. /\ x.pc \in {"finish", "failed"} /\ x.op \in Operations /\ RunsOK /\ RowsOK
        /\ UNCHANGED <<targetOf, done, connection, resources, objects, mixed>>
      BY <1>1 DEF Finish, RecordFailure, provider, history, Locals, OnboardingInv
  <1>4. y.pc = "idle" /\ \A q \in Runs \ {r} : run'[q] = run[q]
      BY <1>2, RestingIsLocal DEF Finish, RecordFailure, End, OnboardingInv, RunsOK
  <1>5. Kept
      BY <1>3 DEF Kept
  <1>6. ASSUME UNCHANGED operation, x.op \notin mixed PROVE OperationFits(x.op)'
      BY <1>3, <1>5, <1>6, OperationFitsStill DEF OnboardingInv, FitInv
  <1>7. ASSUME NEW s \in {"open", "finished"}, UpdateOnboardingOperation(r, s), s = "finished" => x.pc = "finish",
               x.op \notin mixed
        PROVE  OperationFits(x.op)'
    <2>1. RunFits(x) /\ OperationFits(x.op)
        BY <1>1, <1>3, <1>7 DEF FitInv
    <2>2. /\ operation'[x.op].wanted = operation[x.op].wanted /\ operation'[x.op].status = s
          /\ operation'[x.op].conn = x.conn
        BY <1>1, <1>3, <1>7, OperationUpdate
    <2>3. QED
        BY <1>3, <1>7, <2>1, <2>2, RecordedFits
  <1>8. CASE UNCHANGED operation
      BY <1>1, <1>2, <1>3, <1>4, <1>5, <1>6, <1>8, StepFits
  <1>9. ASSUME NEW s \in {"open", "finished"}, UpdateOnboardingOperation(r, s), s = "finished" => x.pc = "finish"
        PROVE  FitInv'
    <2>1. \A o \in Operations \ {x.op} : operation'[o] = operation[o]
        BY <1>1, <1>3, <1>9, OperationUpdate
    <2>2. QED
        BY <1>1, <1>2, <1>3, <1>4, <1>5, <1>7, <1>9, <2>1, StepFits
  <1>10. QED
      BY <1>1, <1>8, <1>9 DEF Finish, RecordFailure

\* The start of a run.
LEMMA RequestFits ==
  ASSUME OnboardingInv, OnboardingInv', FitInv, NEW r \in Runs, NEW o \in Operations,
         NEW q \in Sources \X (Targets \cup {Created}), Request(r, o, q)
  PROVE  FitInv'
  <1> USE DEF OnboardingInv
  <1>1. PICK y : y = run'[r]
      OBVIOUS
  <1>2. /\ y.pc = "insert" /\ y.op = o /\ y.source = q[1] /\ y.conn = NoConnection /\ y.step = 1
        /\ \A p \in Runs \ {r} : run'[p] = run[p]
      BY <1>1 DEF Request, RunsOK, Idle
  <1>3. UNCHANGED <<operation, targetOf, done, connection, resources, objects>> /\ run[r].pc = "idle"
      BY DEF Request, rows, provider
  <1>4. /\ mixed \subseteq mixed' /\ mixed' \subseteq mixed \cup {o}
        /\ operation[o].status # "absent" /\ operation[o].wanted # q => o \in mixed'
        /\ (\E p \in Runs : run[p].pc # "idle" /\ run[p].op = o) => o \in mixed'
      BY DEF Request
  <1>5. OneRun'
    <2> SUFFICES ASSUME NEW p \in Runs, NEW s \in Runs, run'[p].pc # "idle", run'[s].pc # "idle",
                        run'[p].op = run'[s].op, p # s
                 PROVE  run'[s].op \in mixed'
        BY DEF OneRun
    <2>1. CASE p # r /\ s # r
        BY <1>2, <1>4, <2>1 DEF FitInv, OneRun
    <2>2. CASE p = r \/ s = r
        BY <1>1, <1>2, <1>4, <2>2
    <2>3. QED
        BY <2>1, <2>2
  <1>6. Kept
      BY <1>3 DEF Kept
  <1>7. ASSUME NEW p \in Operations, p \notin mixed' PROVE OperationFits(p)'
      BY <1>3, <1>4, <1>6, <1>7, OperationFitsStill DEF FitInv
  <1>8. ASSUME NEW p \in Runs, NEW z, z = run'[p], z.pc # "idle", z.op \notin mixed' PROVE RunFits(z)'
    <2>1. CASE p = r
      <3>1. z = y
          BY <1>1, <1>8, <2>1
      <3>2. operation[o].status # "absent" => operation[o].wanted[1] = q[1]
          BY <1>2, <1>4, <1>8, <3>1
      <3>3. QED
          BY <1>2, <1>3, <3>1, <3>2 DEF RunFits
    <2>2. CASE p # r
      <3>1. z = run[p] /\ z \in Locals /\ RunOK(p) /\ z.op \in Operations
          BY <1>2, <1>8, <2>2 DEF RunsOK, Locals
      <3>2. /\ z.conn # NoConnection => Exists(z.conn)
            /\ z.pc \in NeedsStep => z.step <= Len(Steps)
          BY <3>1 DEF RunOK
      <3>3. RunFits(z)
          BY <1>4, <1>8, <3>1 DEF FitInv
      <3>4. QED
          BY <1>3, <1>6, <3>1, <3>2, <3>3, RunFitsStill
    <2>3. QED
        BY <2>1, <2>2
  <1>9. \A p \in Runs : run'[p].pc # "idle" /\ run'[p].op \notin mixed' => RunFits(run[p])'
    <2> SUFFICES ASSUME NEW p \in Runs, run'[p].pc # "idle", run'[p].op \notin mixed' PROVE RunFits(run[p])'
        OBVIOUS
    <2>1. PICK z : z = run'[p]
        OBVIOUS
    <2>2. RunFits(z)'
        BY <1>8, <2>1
    <2>3. QED
        BY <2>1, <2>2 DEF RunFits, ExpectedTarget
  <1>10. QED
      BY <1>5, <1>7, <1>9 DEF FitInv

LEMMA InsertFits ==
  ASSUME OnboardingInv, OnboardingInv', FitInv, NEW r \in Runs, CreateOnboardingOperation(r)
  PROVE  FitInv'
  <1>1. PICK x \in Locals : x = run[r]
      BY DEF OnboardingInv, RunsOK
  <1>2. PICK y : y = run'[r]
      OBVIOUS
  <1>3. /\ UNCHANGED <<targetOf, done, connection, resources, objects, mixed>> /\ x.pc = "insert"
        /\ x.op \in Operations /\ RunsOK /\ RowsOK /\ RowsLinked /\ Len(Steps) \in Nat
      BY <1>1, OnboardingConstants DEF CreateOnboardingOperation, provider, history, OnboardingInv, Locals
  <1>4. Kept
      BY <1>3 DEF Kept
  <1>5. CASE operation[x.op].status = "absent"
    <2>1. Goto(r, "findSource")
        BY <1>1, <1>5 DEF CreateOnboardingOperation
    <2>2. /\ operation'[x.op].status = "open" /\ operation'[x.op].wanted = <<x.source, x.wanted>>
          /\ operation'[x.op].conn = operation[x.op].conn
          /\ \A o \in Operations \ {x.op} : operation'[o] = operation[o]
        BY <1>1, <1>3, <1>5 DEF CreateOnboardingOperation, RowsOK
    <2>3. /\ y.pc = "findSource" /\ y.op = x.op /\ y.source = x.source /\ y.wanted = x.wanted /\ y.conn = x.conn
          /\ y.target = x.target /\ y.step = x.step /\ \A q \in Runs \ {r} : run'[q] = run[q]
        BY <1>1, <1>2, <1>3, <2>1, Pcs, GoFields
    <2>4. ASSUME x.op \notin mixed PROVE OperationFits(x.op)' /\ RunFits(y)'
      <3>1. RunFits(x) /\ OperationFits(x.op)
          BY <1>1, <1>3, <2>4 DEF FitInv
      <3>2. operation[x.op].conn = NoConnection /\ done[x.op] = {} /\ x.conn = NoConnection /\ x.step = 1
          BY <1>3, <1>5, <3>1 DEF OperationFits, RunFits
      <3>3. OperationFits(x.op)'
          BY <1>3, <2>2, <3>2 DEF OperationFits
      <3>4. RunFits(y)'
          BY <1>3, <2>2, <2>3, <3>2 DEF RunFits, Unbound, Preparing, Settled
      <3>5. QED
          BY <3>3, <3>4
    <2>5. QED
        BY <1>1, <1>2, <1>3, <1>4, <2>2, <2>3, <2>4, StepFits
  <1>6. CASE operation[x.op].status # "absent"
    <2> DEFINE c == operation[x.op].conn
               l == IF c = NoConnection THEN "findSource" ELSE "getConnection"
    <2>1. UNCHANGED operation /\ run' = [run EXCEPT ![r].conn = c, ![r].pc = l]
        BY <1>1, <1>6 DEF CreateOnboardingOperation
    <2>2. /\ y.pc = l /\ y.op = x.op /\ y.source = x.source /\ y.wanted = x.wanted /\ y.conn = c
          /\ y.target = x.target /\ y.step = x.step /\ \A q \in Runs \ {r} : run'[q] = run[q]
        BY <1>1, <1>2, <1>3, <2>1 DEF RunsOK, Locals
    <2>3. c # NoConnection => Exists(c)
        BY <1>3 DEF RowsLinked
    <2>4. RunFits(x) /\ OperationFits(x.op) => RunFits(y)
        BY <1>3, <1>6, <2>2 DEF RunFits, OperationFits, Unbound, Preparing, Settled
    <2>5. y.conn # NoConnection => Exists(y.conn)
        BY <2>2, <2>3
    <2>6. UNCHANGED <<operation, targetOf, done, mixed>> /\ y.op = x.op /\ \A q \in Runs \ {r} : run'[q] = run[q]
        BY <1>3, <2>1, <2>2
    <2> HIDE DEF c, l
    <2>7. QED
        BY <1>1, <1>2, <1>3, <1>4, <2>4, <2>5, <2>6, MoveFits
  <1>7. QED
      BY <1>5, <1>6

LEMMA FitStep == OnboardingInv /\ FitInv /\ [Next]_vars => FitInv'
  <1> SUFFICES ASSUME OnboardingInv, FitInv, [Next]_vars PROVE FitInv'
      OBVIOUS
  <1>0. OnboardingInv'
      BY OnboardingStep
  <1>1. ASSUME NEW r \in Runs, NEW o \in Operations, NEW q \in Sources \X (Targets \cup {Created}), Request(r, o, q)
        PROVE  FitInv'
      BY <1>0, <1>1, RequestFits
  <1>2. ASSUME NEW r \in Runs,
               \/ CreateOnboardingOperation(r) \/ GetConnection(r) \/ FindActiveConnectionBySource(r)
               \/ FindActiveConnectionByTarget(r) \/ EnsureTargetProject(r) \/ CreateProject(r)
               \/ CheckpointTarget(r) \/ CreateConnection(r) \/ LinkConnection(r)
        PROVE  FitInv'
      BY <1>0, <1>2, InsertFits, GetConnectionFits, FindSourceFits, FindTargetFits, EnsureTargetFits,
         CreateProjectFits, CheckpointTargetFits, CreateConnectionFits, LinkFits
  <1>3. ASSUME NEW r \in Runs,
               \/ ReadCheckpoint(r) \/ Ensure(r) \/ EnsureManagedResource(r) \/ CheckpointResource(r)
               \/ ProbeReadiness(r) \/ Finish(r) \/ RecordFailure(r)
        PROVE  FitInv'
      BY <1>0, <1>3, ReadFits, EnsureFits, RowFits, CheckpointFits, ProbeFits, EndFits
  <1>4. ASSUME NEW r \in Runs, StepFails(r) PROVE FitInv'
    <2>1. Kept /\ UNCHANGED <<operation, targetOf, done, mixed>>
        BY <1>4, RowsKept DEF StepFails, rows, history
    <2>2. QED
        BY <1>0, <1>4, <2>1, FailureFits DEF StepFails
  <1>5. ASSUME NEW c \in Connections, DisableConnection(c) PROVE FitInv'
    <2>1. UNCHANGED <<operation, targetOf, done, resources, objects, run, mixed>>
        BY <1>5 DEF DisableConnection, provider, history
    <2>2. /\ \A k \in Connections : connection'[k].source = connection[k].source
                                    /\ connection'[k].target = connection[k].target
          /\ \A k \in Connections : Exists(k) => Exists(k)'
        BY <1>5 DEF DisableConnection, OnboardingInv, RowsOK, Bindings, Exists, ConnectionStatus
    <2>3. Kept
        BY <2>1, <2>2 DEF Kept
    <2>4. \A o \in Operations \ mixed : OperationFits(o)'
        BY <2>1, <2>3, OperationFitsStill DEF OnboardingInv, FitInv
    <2>5. ASSUME NEW r \in Runs, NEW x, x = run[r], x.pc # "idle", x.op \notin mixed PROVE RunFits(x)'
      <3>1. x \in Locals /\ RunOK(r) /\ RunFits(x)
          BY <2>5 DEF OnboardingInv, RunsOK, FitInv
      <3>2. /\ x.conn # NoConnection => Exists(x.conn)
            /\ x.pc \in NeedsStep => x.step <= Len(Steps)
          BY <2>5, <3>1 DEF RunOK
      <3>3. QED
          BY <2>1, <2>3, <3>1, <3>2, RunFitsStill DEF OnboardingInv
    <2>6. \A r \in Runs : run'[r].pc # "idle" /\ run'[r].op \notin mixed' => RunFits(run[r])'
      <3> SUFFICES ASSUME NEW r \in Runs, run[r].pc # "idle", run[r].op \notin mixed PROVE RunFits(run[r])'
          BY <2>1
      <3>1. PICK x : x = run[r]
          OBVIOUS
      <3>2. RunFits(x)'
          BY <2>5, <3>1
      <3>3. QED
          BY <2>1, <3>1, <3>2 DEF RunFits, ExpectedTarget
    <2>7. QED
        BY <2>1, <2>4, <2>6 DEF FitInv, OneRun
  <1>6. CASE Crash
    <2>1. UNCHANGED <<operation, targetOf, done, connection, resources, objects, mixed>>
          /\ \A r \in Runs : run'[r].pc = "idle"
        BY <1>6, RestingIsLocal DEF Crash, rows, provider, history
    <2>2. Kept
        BY <2>1 DEF Kept
    <2>3. \A o \in Operations \ mixed : OperationFits(o)'
        BY <2>1, <2>2, OperationFitsStill DEF OnboardingInv, FitInv
    <2>4. QED
        BY <2>1, <2>3 DEF FitInv, OneRun
  <1>7. CASE UNCHANGED vars
    <2>1. FitInv' <=> FitInv
        BY <1>7 DEF vars, rows, provider, history, FitInv, OneRun, OperationFits, RunFits, Ready, ObjectOf, ExpectedTarget
    <2>2. QED
        BY <2>1
  <1>8. QED
      BY <1>1, <1>2, <1>3, <1>4, <1>5, <1>6, <1>7 DEF Next

(***************************************************************************)
(* An operation that is configured has prepared and recorded every         *)
(* resource its Connection needs, also when earlier runs failed, crashed   *)
(* or lost an answer and later ones went on from their checkpoints         *)
(* (Onboard).                                                              *)
(***************************************************************************)
THEOREM FinishedIsComplete == Spec => []ConfiguredIsComplete
  <1>1. Init => FitInv
    <2> SUFFICES ASSUME Init PROVE FitInv
        OBVIOUS
    <2>1. \A r \in Runs : run[r].pc = "idle"
        BY RestingIsLocal DEF Init
    <2>2. \A o \in Operations : operation[o].status = "absent" /\ operation[o].conn = NoConnection /\ done[o] = {}
        BY DEF Init
    <2>3. QED
        BY <2>1, <2>2 DEF FitInv, OneRun, OperationFits
  <1>2. FitInv => ConfiguredIsComplete
      BY DEF FitInv, OperationFits, ConfiguredIsComplete, Ready, ObjectOf
  <1>3. QED
      BY <1>1, <1>2, OnboardingInit, OnboardingStep, FitStep, PTL DEF Spec
=============================================================================
