-------------------------- MODULE SendLaterProofs --------------------------
(***************************************************************************)
(* Proofs about SendLater, for any number of cancel rows, any retry budget *)
(* and any number of faults.                                               *)
(*                                                                         *)
(* A cancel that reports success has, at its last step, nothing before it  *)
(* but its own program counter: the evidence was seen several awaits ago.  *)
(* The argument is that evidence does not age.  A submission is decided    *)
(* once; whatever the client has read, cached, queued or begun on the      *)
(* strength of a decision stays true.  Grounded says this of every place   *)
(* that can hold such knowledge.  Traces says the same of the placement: a *)
(* message that has left Scheduled does not come back to it, so whatever   *)
(* was read without Scheduled is gone from it for good.                    *)
(***************************************************************************)
EXTENDS SendLater, TLAPS

(***************************************************************************)
(* The invariants.                                                         *)
(***************************************************************************)
\* An attempt above the budget is paid for by a death of the worker.
Budget ==
  \A j \in Jobs :
    /\ rows[j].st = "none" => rows[j].attempts = 0
    /\ rows[j].st = "queued" => rows[j].attempts < MaxAttempts + faults
    /\ rows[j].st = "running" => rows[j].attempts <= MaxAttempts + faults

TypeInv == TypeOK /\ Budget

\* A placement that is evidence of how the submission ended.
Justified(where) ==
  /\ "drafts" \in where => decided = "canceled"
  /\ "sent" \in where => decided = "final"

PlacesJustified ==
  Justified(place) /\ Justified(cached) /\ Justified(mail.copy) /\ Justified(op.copy)

\* An answer, or a column, that says how the submission ended is right.
SightsRight ==
  \A seen \in {status, pass.status, pass.seen, op.seen} :
    seen \in Settled => decided = seen

\* A step that acts on a decision is reached only once it was made.
StepsEarned ==
  /\ op.pc \in {"restore", "reconcile", "persist", "clear"} => decided = "canceled"
  /\ op.pc \in {"move", "apply"} => op.job = "move" /\ decided = "final"
  /\ rows["move"].st # "none" => decided = "final"
  /\ told => decided = "canceled"

Grounded == PlacesJustified /\ SightsRight /\ StepsEarned

\* A trigger not yet taken up is carried by the pass, or by a timer between passes.
Owed ==
  asked => \/ pass.pc = "load" \/ pass.queued
           \/ pass.pc = "idle" /\ wake # "none"

Inv == TypeInv /\ Grounded /\ Owed

(***************************************************************************)
(* Types.                                                                  *)
(***************************************************************************)
RowSet == [st : {"none", "queued", "running", "conflicted"},
           attempts : 0..MaxAttempts + MaxFaults]
RowType ==
  /\ rows \in [Jobs -> RowSet]
  /\ \A j \in Jobs : rows[j].st = "running" <=> op.job = j
  /\ Budget
PCs == {"idle", "start", "fetch", "decide", "restore", "reconcile", "persist",
        "clear", "move", "apply"}
OpType ==
  op \in [job : Jobs \cup {"none"}, pc : PCs, seen : Undo \cup {"gone"},
          copy : SUBSET Mailboxes]
PassSet ==
  [pc : {"idle", "load", "fetch", "write", "handoff", "arm"},
   queued : BOOLEAN, held : BOOLEAN, status : Undo \cup {"null"},
   inside : BOOLEAN, seen : Undo \cup {"gone"}, clock : 0..2,
   unresolved : BOOLEAN]
PassType == pass \in PassSet
ServerType ==
  /\ decided \in {"no", "canceled", "final"} /\ kept \in BOOLEAN
  /\ place \subseteq Mailboxes /\ clock \in 0..2
DataType ==
  /\ cached \subseteq Mailboxes /\ status \in Undo \cup {"null"}
  /\ mail \in [on : BOOLEAN, copy : SUBSET Mailboxes]
GhostType ==
  wake \in {"none", "pending", "soon"} /\ {asked, told} \subseteq BOOLEAN
FaultType == faults \in 0..MaxFaults

\* TypeInv is the conjunction of its parts.
LEMMA TypeParts ==
  TypeInv <=> /\ RowType /\ OpType /\ PassType /\ ServerType /\ DataType
              /\ GhostType /\ FaultType
BY DEF TypeInv, TypeOK, RowType, RowSet, OpType, PCs, PassType, PassSet, ServerType,
   DataType, GhostType, FaultType

\* The same of the next state.
LEMMA TypePartsNext ==
  TypeInv' <=> /\ RowType' /\ OpType' /\ PassType' /\ ServerType' /\ DataType'
               /\ GhostType' /\ FaultType'
BY DEF TypeInv, TypeOK, RowType, RowSet, OpType, PCs, PassType, PassSet, ServerType,
   DataType, GhostType, FaultType

\* A row and an operation do not share the name of no job.
LEMMA NoneIsNoJob == "none" \notin Jobs /\ "move" \in Jobs
BY SendLaterAssumption DEF Jobs

\* Every way an operation ends leaves well-typed rows and an idle lane.
LEMMA EndsTyped ==
  ASSUME TypeInv, Succeed \/ Conflict \/ Retry, faults' = faults \/ faults' = faults + 1
  PROVE  RowType' /\ op' = NoOp /\ told' \in BOOLEAN
<1> USE SendLaterAssumption, NoneIsNoJob, TypeParts
<1>1. op' = NoOp /\ told' \in BOOLEAN
  BY DEF Succeed, Conflict, Retry, GhostType
<1>2. faults \in Nat /\ faults' \in Nat /\ faults' >= faults
  BY DEF FaultType
<1>3. \A j \in Jobs : j # op.job => rows[j].st # "running"
  BY DEF RowType
<1>4. \A j \in Jobs : op'.job # j
  BY <1>1 DEF NoOp
<1>5. ASSUME NEW new \in RowSet, rows' = [rows EXCEPT ![op.job] = new],
             new.st # "running",
             new.st = "none" => new.attempts = 0,
             new.st = "queued" => new.attempts < MaxAttempts + faults
      PROVE  RowType'
  <2>1. rows' \in [Jobs -> RowSet]
    BY <1>5 DEF RowType
  <2>2. \A j \in Jobs : rows'[j] = IF j = op.job THEN new ELSE rows[j]
    BY <1>5 DEF RowType
  <2>3. \A j \in Jobs : rows'[j].st # "running"
    BY <1>3, <1>5, <2>2
  <2>4. \A j \in Jobs :
          /\ rows'[j].st = "none" => rows'[j].attempts = 0
          /\ rows'[j].st = "queued" => rows'[j].attempts < MaxAttempts + faults
    BY <1>5, <2>2 DEF RowType, Budget
  <2>5. \A j \in Jobs : rows'[j].attempts \in Nat
    BY <2>1 DEF RowSet
  <2>6. Budget'
    BY <1>2, <2>3, <2>4, <2>5 DEF Budget
  <2> QED
    BY <1>4, <2>1, <2>3, <2>6 DEF RowType
<1>6. CASE op.job \notin Jobs
  <2>1. rows' = rows
    BY <1>6 DEF RowType, Succeed, Conflict, Retry
  <2>2. Budget'
    BY <1>2, <1>3, <1>6, <2>1 DEF RowType, RowSet, Budget
  <2> QED
    BY <1>1, <1>3, <1>4, <1>6, <2>1, <2>2 DEF RowType
<1>7. CASE op.job \in Jobs
  <2> DEFINE row == rows[op.job]
  <2>1. row \in RowSet
    BY <1>7 DEF RowType
  <2>2. CASE Succeed
    <3>1. NoRow \in RowSet
      BY DEF NoRow, RowSet
    <3>2. rows' = [rows EXCEPT ![op.job] = NoRow]
      BY <2>2 DEF Succeed
    <3>3. NoRow.st # "running" /\ NoRow.st # "queued" /\ NoRow.attempts = 0
      BY DEF NoRow
    <3> QED
      BY <1>1, <1>5, <3>1, <3>2, <3>3
  <2>3. ASSUME NEW st \in {"conflicted", "queued"},
               rows' = [rows EXCEPT ![op.job].st = st],
               st = "queued" => ~(row.attempts >= MaxAttempts)
        PROVE  RowType'
    <3>1. [row EXCEPT !.st = st] \in RowSet
      BY <2>1, <2>3 DEF RowSet
    <3>2. [row EXCEPT !.st = st].st = st /\ [row EXCEPT !.st = st].attempts = row.attempts
      BY <2>1 DEF RowSet
    <3>3. row.attempts \in Nat
      BY <2>1 DEF RowSet
    <3>4. rows' = [rows EXCEPT ![op.job] = [row EXCEPT !.st = st]]
      BY <2>3
    <3>5. st = "queued" => row.attempts < MaxAttempts + faults
      BY <1>2, <2>3, <3>3
    <3> HIDE DEF row
    <3> QED
      BY <1>5, <3>1, <3>2, <3>4, <3>5
  <2>4. CASE Conflict
    BY <1>1, <2>3, <2>4 DEF Conflict
  <2>5. CASE Retry
    <3> DEFINE st == IF row.attempts >= MaxAttempts THEN "conflicted" ELSE "queued"
    <3>1. st \in {"conflicted", "queued"} /\ (st = "queued" => ~(row.attempts >= MaxAttempts))
      OBVIOUS
    <3>2. rows' = [rows EXCEPT ![op.job].st = st]
      BY <2>5 DEF Retry
    <3> HIDE DEF st, row
    <3> QED
      BY <1>1, <2>3, <3>1, <3>2
  <2> QED
    BY <1>1, <2>2, <2>4, <2>5
<1> QED
  BY <1>1, <1>6, <1>7

\* A row is queued without having been tried.
LEMMA QueueTyped ==
  ASSUME TypeInv, NEW j \in Jobs, rows[j].st = "none",
         rows' = [rows EXCEPT ![j].st = "queued"], UNCHANGED <<op, faults>>
  PROVE  RowType'
<1> USE SendLaterAssumption, TypeParts
<1> DEFINE new == [st |-> "queued", attempts |-> 0]
<1>1. rows[j] \in RowSet /\ rows[j].attempts = 0
  BY DEF RowType, Budget
<1>2. [rows[j] EXCEPT !.st = "queued"] = new
  BY <1>1 DEF RowSet
<1>3. rows' = [rows EXCEPT ![j] = new]
  BY <1>2
<1>4. faults \in Nat
  BY DEF FaultType
<1>5. new \in RowSet /\ new.st = "queued" /\ new.attempts = 0
  BY DEF RowSet
<1> HIDE DEF new
<1>6. rows' \in [Jobs -> RowSet]
  BY <1>3, <1>5 DEF RowType
<1>7. \A i \in Jobs : rows'[i] = IF i = j THEN new ELSE rows[i]
  BY <1>3 DEF RowType
<1>8. 0 < MaxAttempts + faults
  BY <1>4
<1>9. Budget'
  BY <1>5, <1>7, <1>8 DEF RowType, Budget
<1>10. \A i \in Jobs : rows'[i].st = "running" <=> op'.job = i
  BY <1>5, <1>7 DEF RowType
<1> QED
  BY <1>6, <1>9, <1>10 DEF RowType

\* The lane begins a queued row.
LEMMA BeginTyped ==
  ASSUME TypeInv, NEW j \in Jobs, Begin(j)
  PROVE  RowType' /\ OpType'
<1> USE SendLaterAssumption, TypeParts, NoneIsNoJob
<1> DEFINE new == [st |-> "running", attempts |-> rows[j].attempts + 1]
<1>1. rows[j] \in RowSet /\ rows[j].attempts < MaxAttempts + faults
  BY DEF Begin, RowType, Budget
<1>2. faults \in 0..MaxFaults /\ faults' = faults
  BY DEF FaultType, Begin
<1>3. /\ new \in RowSet /\ new.st = "running"
      /\ new.attempts <= MaxAttempts + faults
  BY <1>1, <1>2 DEF RowSet
<1>4. rows' = [rows EXCEPT ![j] = new]
  BY DEF Begin
<1> HIDE DEF new
<1>5. rows' \in [Jobs -> RowSet]
  BY <1>3, <1>4 DEF RowType
<1>6. \A i \in Jobs : rows'[i] = IF i = j THEN new ELSE rows[i]
  BY <1>4 DEF RowType
<1>7. Budget'
  BY <1>2, <1>3, <1>6 DEF RowType, Budget
<1>8. op'.job = j /\ OpType'
  BY DEF Begin, NoOp, OpType, PCs
<1>9. \A i \in Jobs : rows[i].st # "running"
  BY DEF Begin, Lane, NoOp, RowType
<1>10. \A i \in Jobs : rows'[i].st = "running" <=> op'.job = i
  BY <1>3, <1>6, <1>8, <1>9
<1> QED
  BY <1>5, <1>7, <1>8, <1>10 DEF RowType

\* A restart queues what ran, at the price of a fault.
LEMMA DeathTyped ==
  ASSUME TypeInv, WorkerDies
  PROVE  RowType' /\ OpType'
<1> USE SendLaterAssumption, TypeParts, NoneIsNoJob
<1>1. \A j \in Jobs : rows[j] \in RowSet
  BY DEF RowType
<1>2. \A j \in Jobs : rows'[j] = IF rows[j].st = "running"
                                 THEN [rows[j] EXCEPT !.st = "queued"] ELSE rows[j]
  BY DEF WorkerDies
<1>3. \A j \in Jobs : /\ rows'[j] \in RowSet /\ rows'[j].st # "running"
                      /\ rows'[j].attempts = rows[j].attempts
                      /\ rows'[j].st = "none" => rows[j].st = "none"
                      /\ rows'[j].st = "queued" => rows[j].st \in {"queued", "running"}
  BY <1>1, <1>2 DEF RowSet
<1>4. rows' \in [Jobs -> RowSet]
  BY <1>3 DEF WorkerDies
<1>5. faults \in Nat /\ faults' = faults + 1
  BY DEF WorkerDies, Fault, FaultType
<1>6. \A j \in Jobs : rows[j].attempts \in Nat
  BY <1>1 DEF RowSet
<1>7. Budget'
  BY <1>3, <1>5, <1>6 DEF RowType, Budget
<1>8. op' = NoOp
  BY DEF WorkerDies
<1>9. \A j \in Jobs : op'.job # j
  BY <1>8 DEF NoOp
<1> QED
  BY <1>3, <1>4, <1>7, <1>8, <1>9 DEF RowType, OpType, NoOp, PCs

\* Continuing an operation keeps its row.
LEMMA ContinueTyped ==
  ASSUME TypeInv, NEW pc \in PCs, Continue(pc), faults' = faults
  PROVE  RowType' /\ OpType' /\ told' \in BOOLEAN
BY TypeParts DEF Continue, Goto, RowType, Budget, OpType, GhostType, NoOp

\* The idle lane is well typed.
LEMMA NoOpTyped == ASSUME op' = NoOp PROVE OpType'
BY DEF OpType, NoOp, PCs

\* The fields of the idle pass.
LEMMA NoPassValue ==
  NoPass \in PassSet /\ NoPass.pc = "idle" /\ ~NoPass.queued
BY DEF NoPass, PassSet, Undo

\* A trigger leaves a well-typed pass that will load, or load again.
LEMMA JoinTyped ==
  ASSUME PassType, pass' = Join
  PROVE  PassType' /\ (pass'.pc = "load" \/ pass'.queued)
<1>1. CASE pass.pc = "idle"
  <2>1. pass' = [pass EXCEPT !.pc = "load"]
    BY <1>1 DEF Join
  <2> QED
    BY <2>1 DEF PassType, PassSet
<1>2. CASE pass.pc # "idle"
  <2>1. pass' = [pass EXCEPT !.queued = TRUE]
    BY <1>2 DEF Join
  <2> QED
    BY <2>1 DEF PassType, PassSet
<1> QED
  BY <1>1, <1>2

\* So do a worker's first pass and a trailing run.
LEMMA LoadTyped ==
  ASSUME pass' = [NoPass EXCEPT !.pc = "load"]
  PROVE  PassType' /\ pass'.pc = "load"
BY NoPassValue DEF PassType, PassSet

\* The idle pass is well typed.
LEMMA NoPassTyped == ASSUME pass' = NoPass PROVE PassType' /\ pass'.pc = "idle"
BY NoPassValue DEF PassType, PassSet

\* So is a pass that has nothing left but its timer.
LEMMA ToArmTyped ==
  ASSUME PassType, NEW unresolved \in BOOLEAN, ToArm(unresolved)
  PROVE  PassType' /\ pass'.pc = "arm" /\ pass'.queued = pass.queued
BY NoPassValue DEF PassType, PassSet, ToArm

\* What EmailSubmission/get answers, and what it says of the decision.
LEMMA RecordRight ==
  ASSUME ServerType
  PROVE  /\ Record \in Undo \cup {"gone"}
         /\ Record \in Settled => decided = Record
         /\ Record = "pending" => decided = "no"
BY DEF ServerType, Record, Undo, Settled

\* The first state is well typed, with the budgets unspent.
THEOREM TypeInit == Init => TypeInv
<1> SUFFICES ASSUME Init PROVE TypeInv
  OBVIOUS
<1> USE SendLaterAssumption, NoneIsNoJob
<1>1. RowType
  BY DEF Init, RowType, RowSet, Budget, NoRow, NoOp
<1>2. OpType
  BY DEF Init, OpType, NoOp, PCs
<1>3. PassType
  <2>1. pass = [NoPass EXCEPT !.pc = "load"]
    BY DEF Init
  <2> QED
    BY <2>1, NoPassValue DEF PassType, PassSet
<1>4. ServerType
  BY DEF Init, ServerType, Mailboxes
<1>5. DataType
  BY DEF Init, DataType, Mailboxes, NoMail, Undo
<1>6. GhostType
  <2>1. asked \in BOOLEAN /\ told \in BOOLEAN
    BY DEF Init
  <2>2. wake \in {"none", "pending", "soon"}
    BY DEF Init
  <2> QED
    BY <2>1, <2>2 DEF GhostType
<1>7. FaultType
  BY DEF Init, FaultType
<1> QED
  BY <1>1, <1>2, <1>3, <1>4, <1>5, <1>6, <1>7, TypeParts

\* Every step of the system keeps the types and the budgets.
LEMMA TypeNext == TypeInv /\ [Next]_vars => TypeInv'
<1> SUFFICES ASSUME TypeInv, [Next]_vars PROVE TypeInv'
  OBVIOUS
<1> USE SendLaterAssumption, NoneIsNoJob
<1>0. RowType /\ OpType /\ PassType /\ ServerType /\ DataType /\ GhostType /\ FaultType
  BY TypeParts
<1> DEFINE
  Typed == RowType /\ OpType /\ PassType /\ ServerType /\ DataType /\ GhostType /\ FaultType
<1> SUFFICES Typed'
  BY TypePartsNext
<1>a. ASSUME UNCHANGED <<rows, op, faults>> PROVE RowType' /\ OpType' /\ FaultType'
  BY <1>0, <1>a DEF RowType, OpType, FaultType, Budget
<1>b. ASSUME UNCHANGED pass PROVE PassType'
  BY <1>0, <1>b DEF PassType, PassSet
<1>c. ASSUME UNCHANGED serverVars PROVE ServerType'
  BY <1>0, <1>c DEF ServerType, serverVars
<1>d. ASSUME UNCHANGED <<dbVars, mail>> PROVE DataType'
  BY <1>0, <1>d DEF DataType, dbVars
<1>e. ASSUME UNCHANGED <<wake, ghostVars>> PROVE GhostType'
  BY <1>0, <1>e DEF GhostType, ghostVars
<1>f. ASSUME Fault PROVE FaultType' /\ faults' = faults + 1
  BY <1>0, <1>f DEF FaultType, Fault
<1>s. CASE Tick \/ Release \/ Reap \/ Elsewhere
  <2>1. ServerType'
    <3>1. CASE Tick
      BY <1>0, <3>1 DEF ServerType, Tick
    <3>2. CASE Release \/ Reap
      BY <1>0, <3>2 DEF ServerType, Release, Reap
    <3>3. CASE Elsewhere
      BY <1>0, <3>3 DEF ServerType, Elsewhere, Mailboxes
    <3> QED
      BY <1>s, <3>1, <3>2, <3>3
  <2>2. UNCHANGED Local
    BY <1>s DEF Tick, Release, Reap, Elsewhere
  <2> QED
    BY <1>a, <1>b, <1>d, <1>e, <2>1, <2>2 DEF Local
<1>m. CASE MailRead \/ MailWrite
  <2>1. ASSUME MailRead PROVE DataType'
    BY <1>0, <2>1 DEF MailRead, DataType, ServerType, dbVars
  <2>2. ASSUME MailWrite PROVE DataType'
    <3>1. mail.copy \subseteq Mailboxes
      BY <1>0 DEF DataType
    <3> QED
      BY <1>0, <2>2, <3>1 DEF MailWrite, DataType, NoMail
  <2>3. DataType'
    BY <1>m, <2>1, <2>2
  <2> QED
    BY <1>a, <1>b, <1>c, <1>e, <1>m, <2>3 DEF MailRead, MailWrite
<1>t. CASE Trigger \/ WakeFires
  <2>1. PassType'
    BY <1>0, <1>t, JoinTyped DEF Trigger, WakeFires
  <2>2. GhostType'
    BY <1>0, <1>t DEF Trigger, WakeFires, GhostType
  <2> QED
    BY <1>a, <1>c, <1>d, <1>t, <2>1, <2>2 DEF Trigger, WakeFires
<1>1. CASE PassLoad
  <2> DEFINE inside == "scheduled" \in cached
  <2>1. PassType'
    <3>1. Tracked \in BOOLEAN /\ inside \in BOOLEAN
      BY DEF Tracked
    <3>2. pass' = [NoPass EXCEPT !.pc = "fetch", !.queued = pass.queued,
                     !.held = Tracked, !.status = status, !.inside = inside]
      BY <1>1 DEF PassLoad
    <3>3. status \in Undo \cup {"null"} /\ pass.queued \in BOOLEAN
      BY <1>0 DEF DataType, PassType, PassSet
    <3> HIDE DEF inside
    <3> QED
      BY <3>1, <3>2, <3>3, NoPassValue DEF PassType, PassSet
  <2>2. GhostType'
    BY <1>0, <1>1 DEF PassLoad, GhostType
  <2> QED
    BY <1>1, <1>a, <1>c, <1>d, <2>1, <2>2 DEF PassLoad
<1>2. CASE PassFetch
  <2>1. PassType'
    BY <1>0, <1>2, RecordRight DEF PassFetch, PassType, PassSet, ServerType
  <2> QED
    BY <1>2, <1>a, <1>c, <1>d, <1>e, <2>1 DEF PassFetch
<1>3. CASE PassFails
  <2>1. PassType' /\ GhostType'
    BY <1>0, <1>3, NoPassTyped DEF PassFails, GhostType, ghostVars
  <2>2. RowType' /\ OpType' /\ FaultType'
    BY <1>0, <1>3, <1>f DEF PassFails, RowType, RowSet, Budget, OpType, FaultType
  <2> QED
    BY <1>3, <1>c, <1>d, <2>1, <2>2 DEF PassFails
<1>4. CASE PassWrite
  <2>1. NextStatus \in Undo \cup {"null"}
    BY <1>0 DEF NextStatus, PassType, PassSet, Undo, Settled
  <2>2. DataType'
    BY <1>0, <1>4, <2>1 DEF PassWrite, DataType, ServerType, Undo, dbVars
  <2>3. PassType'
    <3>1. CASE pass.held /\ NextStatus \in Settled
      <4> DEFINE after == [pass EXCEPT !.pc = "handoff", !.status = NextStatus,
                                       !.seen = "gone"]
      <4>1. pass' = after
        BY <1>4, <3>1 DEF PassWrite
      <4>2. after \in PassSet
        <5>1. pass \in PassSet
          BY <1>0 DEF PassType
        <5> QED
          BY <2>1, <5>1 DEF PassSet
      <4> HIDE DEF after
      <4> QED
        BY <4>1, <4>2 DEF PassType
    <3>2. CASE ~(pass.held /\ NextStatus \in Settled)
      <4>1. ToArm(FALSE)
        BY <1>4, <3>2 DEF PassWrite
      <4> QED
        BY <1>0, <4>1, ToArmTyped
    <3> QED
      BY <3>1, <3>2
  <2> QED
    BY <1>4, <1>a, <1>c, <1>e, <2>2, <2>3 DEF PassWrite
<1>5. CASE PassHandoff
  <2>1. PassType'
    <3>1. PICK b \in BOOLEAN : ToArm(b)
      BY <1>5 DEF PassHandoff, Live
    <3> QED
      BY <1>0, <3>1, ToArmTyped
  <2>2. DataType'
    BY <1>0, <1>5 DEF PassHandoff, DataType
  <2>3. RowType'
    <3>1. CASE UNCHANGED rows
      BY <1>0, <1>5, <3>1 DEF PassHandoff, RowType, Budget
    <3>2. ASSUME NEW j \in Jobs, rows' = [rows EXCEPT ![j].st = "queued"],
                 rows[j].st = "none"
          PROVE  RowType'
      BY <1>0, <1>5, <3>2, QueueTyped DEF PassHandoff
    <3> QED
      BY <1>5, <3>1, <3>2 DEF PassHandoff, Enqueue, Jobs
  <2>4. OpType' /\ FaultType'
    BY <1>0, <1>5 DEF PassHandoff, OpType, FaultType
  <2> QED
    BY <1>5, <1>c, <1>e, <2>1, <2>2, <2>3, <2>4 DEF PassHandoff
<1>6. CASE PassArm
  <2>1. PassType'
    BY <1>0, <1>6, NoPassTyped, LoadTyped DEF PassArm
  <2>2. GhostType'
    BY <1>0, <1>6 DEF PassArm, GhostType, ghostVars
  <2> QED
    BY <1>6, <1>a, <1>c, <1>d, <2>1, <2>2 DEF PassArm
<1>7. CASE UserCancel
  <2>1. RowType' /\ OpType' /\ FaultType'
    BY <1>0, <1>7, QueueTyped DEF UserCancel, Jobs, OpType, FaultType
  <2> QED
    BY <1>7, <1>b, <1>c, <1>d, <1>e, <2>1 DEF UserCancel
<1>8. ASSUME NEW j \in Jobs, Begin(j) PROVE Typed'
  <2>1. RowType' /\ OpType' /\ FaultType'
    BY <1>0, <1>8, BeginTyped DEF Begin, FaultType
  <2> QED
    BY <1>8, <1>b, <1>c, <1>d, <1>e, <2>1 DEF Begin
<1>g. ASSUME Succeed \/ Conflict \/ Retry \/ (\E pc \in PCs : Continue(pc)),
             faults' = faults
      PROVE  RowType' /\ OpType' /\ FaultType' /\ told' \in BOOLEAN
  <2>1. FaultType'
    BY <1>0, <1>g DEF FaultType
  <2>2. CASE Succeed \/ Conflict \/ Retry
    BY <1>g, <2>1, <2>2, EndsTyped, NoOpTyped
  <2>3. CASE \E pc \in PCs : Continue(pc)
    BY <1>g, <2>1, <2>3, ContinueTyped
  <2> QED
    BY <1>g, <2>2, <2>3
<1>h. ASSUME told' \in BOOLEAN, asked' = asked, wake' = wake PROVE GhostType'
  BY <1>0, <1>h DEF GhostType
<1>9. CASE CancelStart
  <2>1. Succeed \/ Conflict \/ Continue("fetch")
    BY <1>9 DEF CancelStart
  <2>2. RowType' /\ OpType' /\ FaultType' /\ told' \in BOOLEAN
    BY <1>9, <1>g, <2>1 DEF CancelStart, PCs
  <2> QED
    BY <1>9, <1>b, <1>c, <1>d, <1>h, <2>2 DEF CancelStart
<1>10. CASE CancelFetch
  <2>1. OpType'
    BY <1>0, <1>10, RecordRight DEF CancelFetch, OpType, PCs
  <2>2. op'.job = op.job
    BY <1>0, <1>10 DEF CancelFetch, OpType
  <2>3. RowType' /\ FaultType'
    BY <1>0, <1>10, <2>2 DEF CancelFetch, RowType, FaultType, Budget
  <2> QED
    BY <1>10, <1>b, <1>c, <1>d, <1>e, <2>1, <2>3 DEF CancelFetch
<1>11. CASE CancelDecide
  <2>1. Conflict \/ Retry \/ Continue("restore")
    BY <1>11 DEF CancelDecide
  <2>2. RowType' /\ OpType' /\ FaultType' /\ told' \in BOOLEAN
    BY <1>11, <1>g, <2>1 DEF CancelDecide, PCs
  <2>3. ServerType' /\ DataType'
    BY <1>0, <1>11 DEF CancelDecide, ServeCancel, ServerType, DataType, Undo, Settled
  <2> QED
    BY <1>11, <1>b, <1>h, <2>2, <2>3 DEF CancelDecide
<1>12. CASE CancelRestore
  <2>1. RowType' /\ OpType' /\ FaultType' /\ told' \in BOOLEAN
    BY <1>12, <1>g DEF CancelRestore, PCs
  <2>2. ServerType'
    BY <1>0, <1>12 DEF CancelRestore, ServerType, Mailboxes
  <2> QED
    BY <1>12, <1>b, <1>d, <1>h, <2>1, <2>2 DEF CancelRestore
<1>13. CASE CancelReconcile
  <2>1. OpType'
    BY <1>0, <1>13 DEF CancelReconcile, OpType, PCs, ServerType
  <2>2. op'.job = op.job
    BY <1>0, <1>13 DEF CancelReconcile, OpType
  <2>3. RowType' /\ FaultType'
    BY <1>0, <1>13, <2>2 DEF CancelReconcile, RowType, FaultType, Budget
  <2> QED
    BY <1>13, <1>b, <1>c, <1>d, <1>e, <2>1, <2>3 DEF CancelReconcile
<1>14. CASE CancelPersist
  <2>1. RowType' /\ OpType' /\ FaultType' /\ told' \in BOOLEAN
    BY <1>14, <1>g DEF CancelPersist, PCs
  <2>2. DataType'
    BY <1>0, <1>14 DEF CancelPersist, DataType, OpType
  <2> QED
    BY <1>14, <1>b, <1>c, <1>h, <2>1, <2>2 DEF CancelPersist
<1>15. CASE CancelClear
  <2>1. RowType' /\ OpType' /\ FaultType' /\ told' \in BOOLEAN
    BY <1>15, <1>g DEF CancelClear
  <2>2. DataType'
    BY <1>0, <1>15 DEF CancelClear, DataType
  <2> QED
    BY <1>15, <1>b, <1>c, <1>h, <2>1, <2>2 DEF CancelClear
<1>16. CASE MoveSet
  <2>1. RowType' /\ OpType' /\ FaultType' /\ told' \in BOOLEAN
    BY <1>16, <1>g DEF MoveSet, PCs
  <2>2. ServerType'
    BY <1>0, <1>16 DEF MoveSet, ServerType, Filed, Mailboxes
  <2> QED
    BY <1>16, <1>b, <1>d, <1>h, <2>1, <2>2 DEF MoveSet
<1>17. CASE MoveApply
  <2>1. RowType' /\ OpType' /\ FaultType' /\ told' \in BOOLEAN
    BY <1>17, <1>g DEF MoveApply
  <2>2. DataType'
    BY <1>0, <1>17 DEF MoveApply, DataType, Filed, Mailboxes
  <2> QED
    BY <1>17, <1>b, <1>c, <1>h, <2>1, <2>2 DEF MoveApply
<1>18. CASE CallFails
  <2>1. RowType' /\ OpType' /\ told' \in BOOLEAN
    BY <1>18, EndsTyped, NoOpTyped DEF CallFails, Fault
  <2>2. ServerType'
    BY <1>0, <1>18 DEF CallFails, ServeCancel, ServerType, Filed, Mailboxes
  <2>3. FaultType'
    BY <1>18, <1>f DEF CallFails
  <2> QED
    BY <1>18, <1>b, <1>d, <1>h, <2>1, <2>2, <2>3 DEF CallFails
<1>19. CASE WorkerDies
  <2>1. RowType' /\ OpType'
    BY <1>19, DeathTyped
  <2>2. PassType'
    BY <1>19, LoadTyped DEF WorkerDies
  <2>3. DataType' /\ GhostType'
    BY <1>0, <1>19 DEF WorkerDies, DataType, GhostType, NoMail, dbVars
  <2>4. FaultType'
    BY <1>19, <1>f DEF WorkerDies
  <2> QED
    BY <1>19, <1>c, <2>1, <2>2, <2>3, <2>4 DEF WorkerDies
<1>20. CASE UNCHANGED vars
  BY <1>20, <1>a, <1>b, <1>c, <1>d, <1>e DEF vars
<1> QED
  BY <1>s, <1>m, <1>t, <1>1, <1>2, <1>3, <1>4, <1>5, <1>6, <1>7, <1>8, <1>9, <1>10,
     <1>11, <1>12, <1>13, <1>14, <1>15, <1>16, <1>17, <1>18, <1>19, <1>20
     DEF Next, PassStep, OpStep

\* Every reachable state of a schedule is well typed.
THEOREM TypeCorrect == Spec => []TypeOK
<1>1. Init => TypeInv
  BY TypeInit
<1>2. TypeInv /\ [Next]_vars => TypeInv'
  BY TypeNext
<1>3. TypeInv => TypeOK
  BY DEF TypeInv
<1> QED
  BY <1>1, <1>2, <1>3, PTL DEF Spec

(***************************************************************************)
(* Decisions and what is known of them.                                    *)
(***************************************************************************)
\* Where knowledge lives, as a tuple: steps that leave it alone keep it true.
known == <<decided, place, cached, mail, op, status, pass, rows, told>>

\* A decision is final.
LEMMA DecidedOnce ==
  ASSUME TypeInv, [Next]_vars
  PROVE  decided # "no" => decided' = decided
<1>0. ServerType
  BY TypeParts
<1>1. ASSUME ServeCancel PROVE decided # "no" => decided' = decided
  BY <1>1, <1>0, RecordRight DEF ServeCancel
<1>2. CASE Tick \/ Release \/ Reap \/ Elsewhere
  BY <1>2 DEF Tick, Release, Reap, Elsewhere
<1>3. CASE CancelDecide
  BY <1>1, <1>3 DEF CancelDecide
<1>4. CASE CallFails
  BY <1>1, <1>4 DEF CallFails
<1>5. CASE MailRead \/ MailWrite \/ Trigger \/ WakeFires \/ PassFails \/ UserCancel
           \/ WorkerDies
  BY <1>5 DEF MailRead, MailWrite, Trigger, WakeFires, PassFails, UserCancel,
     WorkerDies, serverVars
<1>6. CASE PassStep
  BY <1>6 DEF PassStep, PassLoad, PassFetch, PassWrite, PassHandoff, PassArm, serverVars
<1>7. CASE OpStep /\ ~CancelDecide
  BY <1>7 DEF OpStep, Begin, CancelStart, CancelFetch, CancelRestore, CancelReconcile,
     CancelPersist, CancelClear, MoveSet, MoveApply, serverVars
<1>8. CASE UNCHANGED vars
  BY <1>8 DEF vars, serverVars
<1> QED
  BY <1>2, <1>3, <1>4, <1>5, <1>6, <1>7, <1>8 DEF Next

\* At the end of an operation nothing new is known but that it succeeded.
LEMMA EndsGrounded ==
  ASSUME TypeInv, StepsEarned, Succeed \/ Conflict \/ Retry,
         told' => told \/ decided = "canceled",
         decided # "no" => decided' = decided
  PROVE  StepsEarned'
<1>1. op' = NoOp
  BY DEF Succeed, Conflict, Retry
<1>2. rows'["move"].st # "none" => rows["move"].st # "none"
  <2>1. rows \in [Jobs -> RowSet] /\ "move" \in Jobs
    BY TypeParts, NoneIsNoJob DEF RowType
  <2>2. \A j \in Jobs : rows[j].st = "running" <=> op.job = j
    BY TypeParts DEF RowType
  <2>3. CASE op.job # "move"
    BY <2>1, <2>3 DEF Succeed, Conflict, Retry
  <2>4. CASE op.job = "move"
    BY <2>1, <2>2, <2>4
  <2> QED
    BY <2>3, <2>4
<1> QED
  BY <1>1, <1>2 DEF StepsEarned, NoOp

\* In the first state nothing is decided and nothing is claimed to be.
THEOREM GroundedInit == Init => Grounded
<1> SUFFICES ASSUME Init PROVE Grounded
  OBVIOUS
<1>1. PlacesJustified
  BY DEF Init, PlacesJustified, Justified, NoMail, NoOp
<1>2. SightsRight
  <2>1. pass = [NoPass EXCEPT !.pc = "load"]
    BY DEF Init
  <2>2. pass.status = "null" /\ pass.seen = "gone"
    BY <2>1 DEF NoPass
  <2>3. status \in {"pending", "null"} /\ op.seen = "gone"
    BY DEF Init, NoOp
  <2> QED
    BY <2>2, <2>3 DEF SightsRight, Settled
<1>3. StepsEarned
  BY NoneIsNoJob DEF Init, StepsEarned, NoOp, NoRow
<1> QED
  BY <1>1, <1>2, <1>3 DEF Grounded

\* Every step keeps what is known true.  Only steps that learn, act or report need
\* an argument of their own.
LEMMA GroundedNext ==
  ASSUME TypeInv, Grounded, [Next]_vars
  PROVE  Grounded'
<1> USE NoneIsNoJob
<1>0. /\ RowType /\ OpType /\ PassType /\ ServerType /\ DataType
      /\ PlacesJustified /\ SightsRight /\ StepsEarned
  BY TypeParts DEF Grounded
<1>1. decided # "no" => decided' = decided
  BY DecidedOnce
<1>p. ASSUME UNCHANGED <<place, cached, mail>>, op'.copy \in {op.copy, {}}
      PROVE  PlacesJustified'
  BY <1>0, <1>1, <1>p DEF PlacesJustified, Justified
<1>v. ASSUME UNCHANGED <<status, pass>>, op'.seen \in {op.seen, "gone"}
      PROVE  SightsRight'
  BY <1>0, <1>1, <1>v DEF SightsRight, Settled
<1>e. ASSUME UNCHANGED <<op, rows, told>> PROVE StepsEarned'
  BY <1>0, <1>1, <1>e DEF StepsEarned
<1>g. ASSUME NEW pc \in PCs, Continue(pc) PROVE op'.copy = {} /\ op'.seen = "gone"
        /\ op'.pc = pc /\ op'.job = op.job /\ UNCHANGED <<rows, told>>
  BY <1>g DEF Continue, Goto, NoOp
<1>h. ASSUME Succeed \/ Conflict \/ Retry PROVE op'.copy = {} /\ op'.seen = "gone"
  BY <1>h DEF Succeed, Conflict, Retry, NoOp
<1>2. CASE Tick \/ Release \/ Reap \/ Elsewhere
  <2>1. UNCHANGED Local
    BY <1>2 DEF Tick, Release, Reap, Elsewhere
  <2>2. PlacesJustified'
    <3>1. Justified(place)'
      BY <1>0, <1>1, <1>2 DEF Tick, Release, Reap, Elsewhere, PlacesJustified, Justified
    <3>2. UNCHANGED <<cached, mail, op>>
      BY <2>1 DEF Local, dbVars
    <3> QED
      BY <1>0, <1>1, <3>1, <3>2 DEF PlacesJustified, Justified
  <2>3. SightsRight' /\ StepsEarned'
    BY <1>v, <1>e, <2>1 DEF Local, dbVars, ghostVars
  <2> QED
    BY <2>2, <2>3 DEF Grounded
<1>3. CASE MailRead \/ MailWrite
  <2>1. PlacesJustified'
    <3>1. ASSUME MailRead PROVE PlacesJustified'
      BY <1>0, <1>1, <3>1 DEF MailRead, PlacesJustified, Justified, serverVars, dbVars
    <3>2. ASSUME MailWrite PROVE PlacesJustified'
      BY <1>0, <1>1, <3>2 DEF MailWrite, PlacesJustified, Justified, serverVars, NoMail
    <3> QED
      BY <1>3, <3>1, <3>2
  <2>2. SightsRight' /\ StepsEarned'
    BY <1>v, <1>e, <1>3 DEF MailRead, MailWrite, dbVars, ghostVars
  <2> QED
    BY <2>1, <2>2 DEF Grounded
<1>w. ASSUME UNCHANGED <<status, op>>,
             pass'.status \in {pass.status, status, "null"},
             pass'.seen \in {pass.seen, "gone"}
      PROVE  SightsRight'
  BY <1>0, <1>1, <1>w DEF SightsRight, Settled
<1>4. CASE Trigger \/ WakeFires
  <2>1. pass'.status = pass.status /\ pass'.seen = pass.seen
    BY <1>0, <1>4 DEF Trigger, WakeFires, Join, PassType, PassSet
  <2> QED
    BY <1>p, <1>w, <1>e, <1>4, <2>1 DEF Trigger, WakeFires, serverVars, dbVars, Grounded
<1>5. CASE PassLoad
  <2>1. pass'.status = status /\ pass'.seen = "gone"
    BY <1>5 DEF PassLoad, NoPass
  <2> QED
    BY <1>p, <1>w, <1>e, <1>5, <2>1 DEF PassLoad, serverVars, dbVars, Grounded
<1>6. CASE PassFetch
  <2>1. pass'.status = pass.status /\ pass'.seen = Record
    BY <1>0, <1>6 DEF PassFetch, PassType, PassSet
  <2>2. SightsRight'
    BY <1>0, <1>1, <1>6, <2>1, RecordRight DEF PassFetch, SightsRight, serverVars, dbVars,
       Settled
  <2> QED
    BY <1>p, <1>e, <1>6, <2>2 DEF PassFetch, serverVars, dbVars, ghostVars, Grounded
<1>7. CASE PassFails \/ PassArm \/ WorkerDies
  <2>1. pass'.status = "null" /\ pass'.seen = "gone"
    BY <1>7 DEF PassFails, PassArm, WorkerDies, NoPass
  <2>2. CASE PassFails \/ PassArm
    BY <1>p, <1>w, <1>e, <2>1, <2>2 DEF PassFails, PassArm, serverVars, dbVars,
       ghostVars, Grounded
  <2>3. CASE WorkerDies
    <3>1. /\ op' = NoOp /\ mail' = NoMail
          /\ UNCHANGED <<decided, place, cached, status, told>>
      BY <2>3 DEF WorkerDies, serverVars, dbVars
    <3>2. rows'["move"].st # "none" => rows["move"].st # "none"
      BY <1>0, <2>3 DEF WorkerDies, RowType
    <3>3. PlacesJustified'
      BY <1>0, <3>1 DEF PlacesJustified, Justified, NoOp, NoMail
    <3>4. SightsRight'
      BY <1>0, <2>1, <3>1 DEF SightsRight, Settled, NoOp
    <3>5. StepsEarned'
      BY <1>0, <3>1, <3>2 DEF StepsEarned, NoOp
    <3> QED
      BY <3>3, <3>4, <3>5 DEF Grounded
  <2> QED
    BY <1>7, <2>2, <2>3
<1>8. CASE PassWrite
  <2>1. NextStatus \in Settled => decided = NextStatus
    BY <1>0 DEF NextStatus, SightsRight, Settled
  <2>2. /\ pass'.status \in {NextStatus, pass.status, "null"}
        /\ pass'.seen = "gone"
    BY <1>0, <1>8 DEF PassWrite, ToArm, PassType, PassSet, NoPass
  <2>3. status' \in {status, NextStatus, "pending"}
    BY <1>8 DEF PassWrite, dbVars
  <2>4. UNCHANGED <<decided, place, mail, op, rows, told>>
    BY <1>8 DEF PassWrite, serverVars, ghostVars
  <2>5. SightsRight'
    BY <1>0, <2>1, <2>2, <2>3, <2>4 DEF SightsRight, Settled
  <2>6. cached' \in {cached, place}
    BY <1>8 DEF PassWrite, dbVars
  <2>7. PlacesJustified'
    BY <1>0, <2>4, <2>6 DEF PlacesJustified, Justified
  <2> QED
    BY <1>e, <2>4, <2>5, <2>7 DEF Grounded
<1>9. CASE PassHandoff
  <2>1. pass'.status = "null" /\ pass'.seen = "gone"
    BY <1>9 DEF PassHandoff, ToArm, NoPass
  <2>2. status' \in {status, "null"} /\ UNCHANGED <<decided, place, cached, mail, op, told>>
    BY <1>9 DEF PassHandoff, serverVars, ghostVars
  <2>3. SightsRight'
    BY <1>0, <2>1, <2>2 DEF SightsRight, Settled
  <2>4. rows'["move"].st # "none" => rows["move"].st # "none" \/ pass.status = "final"
    <3>1. CASE UNCHANGED rows
      BY <3>1
    <3>2. CASE pass.status = "final"
      BY <3>2
    <3>3. CASE ~(UNCHANGED rows) /\ pass.status # "final"
      <4>1. PICK j \in CancelRows : rows' = [rows EXCEPT ![j].st = "queued"]
        BY <1>9, <3>3 DEF PassHandoff, Enqueue
      <4>2. j # "move"
        BY SendLaterAssumption
      <4> QED
        BY <1>0, <4>1, <4>2 DEF RowType
    <3> QED
      BY <3>1, <3>2, <3>3
  <2>5. StepsEarned'
    BY <1>0, <2>2, <2>4 DEF StepsEarned, SightsRight, Settled
  <2> QED
    BY <1>p, <2>2, <2>3, <2>5 DEF Grounded
<1>10. CASE UserCancel
  <2>1. rows'["move"] = rows["move"]
    <3>1. PICK j \in CancelRows : rows' = [rows EXCEPT ![j].st = "queued"]
      BY <1>10 DEF UserCancel
    <3> QED
      BY <1>0, <3>1, SendLaterAssumption DEF RowType
  <2>2. UNCHANGED <<decided, place, cached, mail, op, status, pass, told>>
    BY <1>10 DEF UserCancel, serverVars, dbVars, ghostVars
  <2>3. StepsEarned'
    BY <1>0, <2>1, <2>2 DEF StepsEarned
  <2> QED
    BY <1>p, <1>v, <2>2, <2>3 DEF Grounded
<1>11. ASSUME NEW j \in Jobs, Begin(j) PROVE Grounded'
  <2>1. UNCHANGED <<decided, place, cached, mail, status, pass, told>>
    BY <1>11 DEF Begin, serverVars, dbVars, ghostVars
  <2>2. /\ op'.copy = {} /\ op'.seen = "gone" /\ op'.job = j
        /\ op'.pc = IF j = "move" THEN "move" ELSE "start"
    BY <1>11 DEF Begin, NoOp
  <2>3. rows'["move"].st # "none" => rows["move"].st # "none"
    BY <1>0, <1>11 DEF Begin, RowType
  <2>4. rows[j].st # "none"
    BY <1>11 DEF Begin
  <2>5. StepsEarned'
    BY <1>0, <2>1, <2>2, <2>3, <2>4 DEF StepsEarned
  <2> QED
    BY <1>p, <1>v, <2>1, <2>2, <2>5 DEF Grounded
<1>12. CASE CancelStart
  <2>1. UNCHANGED <<decided, place, cached, mail, status, pass>>
    BY <1>12 DEF CancelStart, serverVars, dbVars
  <2>2. CASE Continue("fetch")
    <3>1. StepsEarned'
      BY <1>0, <1>g, <2>1, <2>2 DEF StepsEarned, PCs
    <3> QED
      BY <1>g, <1>p, <1>v, <2>1, <2>2, <3>1 DEF PCs, Grounded
  <2>3. CASE Succeed \/ Conflict
    <3>1. told' => told \/ decided = "canceled"
      BY <1>0, <1>12 DEF CancelStart, Restored, PlacesJustified, Justified, Conflict,
         Continue
    <3>2. StepsEarned'
      BY <1>0, <1>1, <2>3, <3>1, EndsGrounded
    <3> QED
      BY <1>h, <1>p, <1>v, <2>1, <2>3, <3>2 DEF Grounded
  <2> QED
    BY <1>12, <2>2, <2>3 DEF CancelStart
<1>13. CASE CancelFetch
  <2>1. op'.pc = "decide" /\ op'.seen = Record /\ op'.copy = op.copy /\ op'.job = op.job
    BY <1>0, <1>13 DEF CancelFetch, OpType
  <2>2. UNCHANGED <<decided, place, cached, mail, status, pass, rows, told>>
    BY <1>13 DEF CancelFetch, serverVars, dbVars, ghostVars
  <2>3. SightsRight'
    BY <1>0, <2>1, <2>2, RecordRight DEF SightsRight, Settled
  <2>4. StepsEarned'
    BY <1>0, <2>1, <2>2 DEF StepsEarned
  <2> QED
    BY <1>p, <2>1, <2>2, <2>3, <2>4 DEF Grounded
<1>14. CASE CancelDecide
  <2>1. UNCHANGED <<place, cached, mail, pass>>
    BY <1>14 DEF CancelDecide
  <2>2. CASE Conflict \/ Retry
    <3>1. status' \in {status, op.seen, "null"} /\ told' = told
      BY <1>14, <2>2 DEF CancelDecide, Conflict, Retry
    <3>2. op'.copy = {} /\ op'.seen = "gone"
      BY <1>h, <2>2
    <3>3. SightsRight'
      BY <1>0, <1>1, <2>1, <3>1, <3>2 DEF SightsRight, Settled
    <3>4. StepsEarned'
      BY <1>0, <1>1, <2>2, <3>1, EndsGrounded
    <3> QED
      BY <1>p, <2>1, <3>2, <3>3, <3>4 DEF Grounded
  <2>3. CASE Continue("restore")
    <3>1. op'.copy = {} /\ op'.seen = "gone" /\ op'.pc = "restore"
          /\ UNCHANGED <<rows, told>>
      BY <1>g, <2>3 DEF PCs
    <3>2. status' = status /\ decided' = "canceled"
      <4>1. op'.pc # "idle"
        BY <3>1
      <4>2. ~Conflict /\ ~Retry
        BY <4>1 DEF Conflict, Retry, NoOp
      <4>3. CASE op.seen = "canceled"
        BY <1>0, <1>14, <4>3 DEF CancelDecide, SightsRight, Settled
      <4>4. CASE op.seen # "canceled"
        BY <1>0, <1>14, <4>2, <4>4, RecordRight DEF CancelDecide, Revoked, ServeCancel,
           Settled
      <4> QED
        BY <4>3, <4>4
    <3>3. StepsEarned'
      BY <1>0, <1>1, <3>1, <3>2 DEF StepsEarned
    <3> QED
      BY <1>p, <1>v, <2>1, <3>1, <3>2, <3>3 DEF Grounded
  <2> QED
    BY <1>14, <2>2, <2>3 DEF CancelDecide
<1>15. CASE CancelRestore \/ MoveSet
  <2>1. UNCHANGED <<decided, cached, mail, status, pass>>
    BY <1>15 DEF CancelRestore, MoveSet, dbVars
  <2>2. /\ op'.copy = {} /\ op'.seen = "gone" /\ op'.job = op.job
        /\ op'.pc \in {"reconcile", "apply"} /\ UNCHANGED <<rows, told>>
        /\ op'.pc = "reconcile" => op.pc = "restore"
        /\ op'.pc = "apply" => op.pc = "move"
    BY <1>15, <1>g DEF CancelRestore, MoveSet, PCs
  <2>3. Justified(place)'
    BY <1>0, <1>15, <2>1 DEF CancelRestore, MoveSet, Filed, StepsEarned, PlacesJustified,
       Justified
  <2>4. PlacesJustified'
    BY <1>0, <2>1, <2>2, <2>3 DEF PlacesJustified, Justified
  <2>5. StepsEarned'
    BY <1>0, <2>1, <2>2 DEF StepsEarned
  <2> QED
    BY <1>v, <2>1, <2>2, <2>4, <2>5 DEF Grounded
<1>16. CASE CancelReconcile
  <2>1. UNCHANGED <<decided, place, cached, mail, status, pass, rows, told>>
    BY <1>16 DEF CancelReconcile, serverVars, dbVars, ghostVars
  <2>2. op'.pc = "persist" /\ op'.copy = place /\ op'.seen = op.seen /\ op.pc = "reconcile"
    BY <1>0, <1>16 DEF CancelReconcile, OpType
  <2>3. PlacesJustified'
    BY <1>0, <2>1, <2>2 DEF PlacesJustified, Justified
  <2>4. StepsEarned'
    BY <1>0, <2>1, <2>2 DEF StepsEarned
  <2> QED
    BY <1>v, <2>1, <2>2, <2>3, <2>4 DEF Grounded
<1>17. CASE CancelPersist
  <2>1. UNCHANGED <<decided, place, mail, status, pass>> /\ cached' = op.copy
    BY <1>17 DEF CancelPersist, serverVars
  <2>2. /\ op'.copy = {} /\ op'.seen = "gone" /\ op'.pc = "clear" /\ op.pc = "persist"
        /\ UNCHANGED <<rows, told>>
    BY <1>17, <1>g DEF CancelPersist, PCs
  <2>3. PlacesJustified'
    BY <1>0, <2>1, <2>2 DEF PlacesJustified, Justified
  <2>4. StepsEarned'
    BY <1>0, <2>1, <2>2 DEF StepsEarned
  <2> QED
    BY <1>v, <2>1, <2>2, <2>3, <2>4 DEF Grounded
<1>18. CASE CancelClear \/ MoveApply
  <2>1. /\ Succeed /\ (op.job = "move" \/ decided = "canceled")
        /\ status' \in {status, "null"} /\ UNCHANGED <<decided, place, mail, pass>>
    BY <1>0, <1>18 DEF CancelClear, MoveApply, StepsEarned, serverVars
  <2>2. op'.copy = {} /\ op'.seen = "gone"
    BY <1>h, <2>1
  <2>3. StepsEarned'
    <3>1. told' => told \/ decided = "canceled"
      BY <2>1 DEF Succeed
    <3> QED
      BY <1>0, <1>1, <2>1, <3>1, EndsGrounded
  <2>4. SightsRight'
    BY <1>0, <2>1, <2>2 DEF SightsRight, Settled
  <2>5. Justified(cached)'
    BY <1>0, <1>18, <2>1 DEF CancelClear, MoveApply, Filed, StepsEarned, PlacesJustified,
       Justified
  <2>6. PlacesJustified'
    BY <1>0, <2>1, <2>2, <2>5 DEF PlacesJustified, Justified
  <2> QED
    BY <2>3, <2>4, <2>6 DEF Grounded
<1>19. CASE CallFails
  <2>1. UNCHANGED <<cached, mail, status, pass>> /\ Retry
    BY <1>19 DEF CallFails, dbVars
  <2>2. op'.copy = {} /\ op'.seen = "gone"
    BY <1>h, <2>1
  <2>3. told' = told
    BY <2>1 DEF Retry
  <2>4. StepsEarned'
    BY <1>0, <1>1, <2>1, <2>3, EndsGrounded
  <2>5. Justified(place)'
    BY <1>0, <1>1, <1>19 DEF CallFails, Filed, StepsEarned, PlacesJustified, Justified
  <2>6. PlacesJustified'
    BY <1>0, <1>1, <2>1, <2>2, <2>5 DEF PlacesJustified, Justified
  <2> QED
    BY <1>v, <2>1, <2>2, <2>4, <2>6 DEF Grounded
<1>20. CASE UNCHANGED vars
  BY <1>20, <1>p, <1>v, <1>e DEF vars, serverVars, dbVars, ghostVars, Grounded
<1> QED
  BY <1>2, <1>3, <1>4, <1>5, <1>6, <1>7, <1>8, <1>9, <1>10, <1>11, <1>12, <1>13, <1>14,
     <1>15, <1>16, <1>17, <1>18, <1>19, <1>20 DEF Next, PassStep, OpStep

(***************************************************************************)
(* Triggers.                                                               *)
(***************************************************************************)
\* No step drops a trigger before a pass has begun for it.
LEMMA OwedNext ==
  ASSUME TypeInv, Owed, [Next]_vars
  PROVE  Owed'
<1>0. PassType
  BY TypeParts
<1>1. ASSUME UNCHANGED <<asked, pass, wake>> PROVE Owed'
  BY <1>1 DEF Owed
<1>2. CASE Trigger \/ WakeFires
  <2>1. pass' = Join
    BY <1>2 DEF Trigger, WakeFires
  <2> QED
    BY <1>0, <2>1, JoinTyped DEF Owed
<1>3. CASE PassLoad
  BY <1>3 DEF PassLoad, Owed
<1>4. CASE PassFetch
  <2>1. pass.pc = "fetch" /\ pass'.queued = pass.queued
    BY <1>0, <1>4 DEF PassFetch, PassType, PassSet
  <2> QED
    BY <1>4, <2>1 DEF PassFetch, Owed, ghostVars
<1>5. CASE PassFails
  <2>1. pass'.pc = "idle" /\ wake' = "soon"
    BY <1>5, NoPassTyped DEF PassFails
  <2> QED
    BY <2>1 DEF Owed
<1>6. CASE PassWrite \/ PassHandoff
  <2>1. pass.pc \in {"write", "handoff"} /\ asked' = asked
    BY <1>6 DEF PassWrite, PassHandoff, ghostVars
  <2>2. pass'.queued = pass.queued
    <3>1. ASSUME NEW b \in BOOLEAN, ToArm(b) PROVE pass'.queued = pass.queued
      BY <1>0, <3>1, ToArmTyped
    <3>2. CASE PassWrite
      <4>1. \/ pass' = [pass EXCEPT !.pc = "handoff", !.status = NextStatus, !.seen = "gone"]
            \/ ToArm(FALSE)
        BY <3>2 DEF PassWrite
      <4> QED
        BY <1>0, <3>1, <4>1 DEF PassType, PassSet
    <3>3. CASE PassHandoff
      <4>1. PICK b \in BOOLEAN : ToArm(b)
        BY <3>3 DEF PassHandoff, Live
      <4> QED
        BY <3>1, <4>1
    <3> QED
      BY <1>6, <3>2, <3>3
  <2> QED
    BY <2>1, <2>2 DEF Owed
<1>7. CASE PassArm
  <2>1. pass.pc = "arm" /\ asked' = asked
    BY <1>7 DEF PassArm, ghostVars
  <2>2. pass.queued => pass'.pc = "load"
    BY <1>7, LoadTyped DEF PassArm
  <2> QED
    BY <2>1, <2>2 DEF Owed
<1>8. CASE WorkerDies
  BY <1>8, LoadTyped DEF WorkerDies, Owed
<1>9. CASE Tick \/ Release \/ Reap \/ Elsewhere \/ MailRead \/ MailWrite \/ UserCancel
           \/ OpStep \/ CallFails \/ UNCHANGED vars
  BY <1>1, <1>9 DEF Tick, Release, Reap, Elsewhere, Local, MailRead, MailWrite,
     UserCancel, OpStep, Begin, CancelStart, CancelFetch, CancelDecide, CancelRestore,
     CancelReconcile, CancelPersist, CancelClear, MoveSet, MoveApply, CallFails, vars,
     ghostVars
<1> QED
  BY <1>2, <1>3, <1>4, <1>5, <1>6, <1>7, <1>8, <1>9 DEF Next, PassStep

(***************************************************************************)
(* What is known of a message that has left Scheduled.                     *)
(***************************************************************************)
Left == "scheduled" \notin place

\* A copy of the placement, read at some time: what it misses is gone for good.
Shows(copy) == copy # {} /\ ("scheduled" \in copy \/ Left)

CopyTraces ==
  /\ place # {} /\ (cached # {} => Shows(cached)) /\ (mail.on => Shows(mail.copy))
  /\ op.pc = "persist" => Shows(op.copy)
  /\ status # "null" => cached # {}

PassTraces ==
  /\ pass.pc \in {"fetch", "write", "handoff"} /\ pass.held
       => cached # {} /\ (pass.inside \/ Left)
  /\ pass.pc = "handoff" => pass.held
  /\ pass.pc = "write" => pass.clock <= clock /\ (pass.seen = "gone" => ~kept)

OpTraces ==
  /\ op.pc \in {"fetch", "decide", "restore", "reconcile", "persist", "clear"} => cached # {}
  /\ op.pc = "decide" /\ op.seen = "gone" => ~kept
  /\ op.pc \in {"reconcile", "persist", "clear", "apply"} => Left

Traces == CopyTraces /\ PassTraces /\ OpTraces

\* An answer that the submission is gone is given only once it is.
LEMMA GoneIsGone == ServerType /\ Record = "gone" => ~kept
BY DEF ServerType, Record

\* What has happened stays so: a message never returns to Scheduled, a record never
\* returns, the clock never goes back and a cached message stays cached.
LEMMA WorldMoves ==
  ASSUME TypeInv, CopyTraces, OpTraces, [Next]_vars
  PROVE  /\ Left => Left'
         /\ kept' => kept
         /\ clock <= clock'
         /\ place' # {}
         /\ cached # {} => cached' # {}
<1> USE TypeParts
<1>1. ServerType /\ clock \in Nat
  BY DEF ServerType
<1>2. ASSUME UNCHANGED serverVars PROVE UNCHANGED <<place, kept, clock>> /\ clock <= clock'
  BY <1>1, <1>2 DEF serverVars
<1>3. CASE Tick \/ Release \/ Reap \/ Elsewhere
  BY <1>1, <1>3 DEF Tick, Release, Reap, Elsewhere, Local, dbVars, Left, CopyTraces
<1>4. CASE MailRead \/ Trigger \/ WakeFires \/ UserCancel \/ PassFails \/ WorkerDies
           \/ PassLoad \/ PassFetch \/ PassHandoff \/ PassArm \/ CancelClear
           \/ (\E j \in Jobs : Begin(j)) \/ CancelStart \/ CancelFetch \/ CancelReconcile
  <2>1. UNCHANGED serverVars /\ UNCHANGED cached
    BY <1>4 DEF MailRead, Trigger, WakeFires, UserCancel, PassFails, WorkerDies, PassLoad,
       PassFetch, PassHandoff, PassArm, CancelClear, Begin, CancelStart, CancelFetch,
       CancelReconcile, dbVars
  <2> QED
    BY <1>2, <2>1 DEF CopyTraces, Left
<1>5. CASE MailWrite
  BY <1>2, <1>5 DEF MailWrite, CopyTraces, Shows, Left
<1>6. CASE PassWrite
  <2>1. UNCHANGED serverVars /\ (cached' = cached \/ cached' = place)
    BY <1>6 DEF PassWrite, dbVars
  <2> QED
    BY <1>2, <2>1 DEF CopyTraces, Left
<1>7. CASE CancelPersist \/ MoveApply
  BY <1>2, <1>7 DEF CancelPersist, MoveApply, Filed, CopyTraces, Shows, Left
<1>8. CASE CancelDecide \/ CancelRestore \/ MoveSet \/ CallFails
  BY <1>1, <1>8 DEF CancelDecide, CancelRestore, MoveSet, CallFails, Filed, dbVars, CopyTraces, Left
<1>9. CASE UNCHANGED vars
  BY <1>2, <1>9 DEF vars, dbVars, CopyTraces, Left
<1> QED
  BY <1>3, <1>4, <1>5, <1>6, <1>7, <1>8, <1>9 DEF Next, PassStep, OpStep

\* The steps of an operation, by where they lead.
LEMMA OpMoves ==
  ASSUME TypeInv, [Next]_vars
  PROVE  \/ UNCHANGED op
         \/ op'.pc \in {"idle", "start", "move"}
         \/ op'.pc = "fetch" /\ CancelStart
         \/ op'.pc = "decide" /\ CancelFetch
         \/ op'.pc = "restore" /\ CancelDecide
         \/ op'.pc = "reconcile" /\ CancelRestore
         \/ op'.pc = "persist" /\ CancelReconcile
         \/ op'.pc = "clear" /\ CancelPersist
         \/ op'.pc = "apply" /\ MoveSet
<1>1. OpType
  BY TypeParts
<1>2. ASSUME NEW pc, Continue(pc) PROVE op'.pc = pc
  BY <1>2 DEF Continue, Goto, NoOp
<1>3. Succeed \/ Conflict \/ Retry => op'.pc = "idle"
  BY DEF Succeed, Conflict, Retry, NoOp
<1>4. CASE CancelStart \/ CancelPersist \/ CancelClear \/ MoveSet \/ MoveApply \/ CallFails
           \/ CancelRestore
  BY <1>2, <1>3, <1>4 DEF CancelStart, CancelPersist, CancelClear, MoveSet, MoveApply,
     CallFails, CancelRestore
<1>5. CASE CancelDecide
  <2>1. Continue("restore") \/ Conflict \/ Retry
    BY <1>5 DEF CancelDecide
  <2> QED
    BY <1>2, <1>3, <1>5, <2>1
<1>6. CASE CancelFetch \/ CancelReconcile
  BY <1>1, <1>6 DEF CancelFetch, CancelReconcile, OpType
<1>7. CASE \E j \in Jobs : Begin(j)
  BY <1>7 DEF Begin, NoOp
<1>8. CASE WorkerDies
  BY <1>8 DEF WorkerDies, NoOp
<1>9. CASE Tick \/ Release \/ Reap \/ Elsewhere \/ MailRead \/ MailWrite \/ Trigger
           \/ WakeFires \/ UserCancel \/ PassFails \/ PassStep \/ UNCHANGED vars
  BY <1>9 DEF Tick, Release, Reap, Elsewhere, Local, MailRead, MailWrite, Trigger, WakeFires,
     UserCancel, PassFails, PassStep, PassLoad, PassFetch, PassWrite, PassHandoff, PassArm, vars
<1> QED
  BY <1>4, <1>5, <1>6, <1>7, <1>8, <1>9 DEF Next, OpStep

\* Copies of the placement stay true, and what is tracked stays cached.
LEMMA CopyTracesNext ==
  ASSUME TypeInv, Traces, [Next]_vars
  PROVE  CopyTraces'
<1> USE TypeParts DEF Traces
<1>1. /\ Left => Left'
      /\ place' # {}
      /\ cached # {} => cached' # {}
  BY WorldMoves
<1>2. \A copy : Shows(copy) => Shows(copy)'
  BY <1>1 DEF Shows
<1>3. cached' # {} => Shows(cached)'
  <2>1. CASE UNCHANGED cached
    BY <1>2, <2>1 DEF CopyTraces, Shows
  <2>2. CASE MailWrite
    BY <1>1, <2>2 DEF MailWrite, CopyTraces, Shows
  <2>3. CASE PassWrite
    <3>1. UNCHANGED place /\ (cached' = cached \/ cached' = place)
      BY <2>3 DEF PassWrite, dbVars, serverVars
    <3> QED
      BY <1>1, <2>1, <3>1 DEF Shows, Left
  <2>4. CASE CancelPersist
    BY <1>1, <2>4 DEF CancelPersist, CopyTraces, Shows
  <2>5. CASE MoveApply
    BY <1>1, <2>5 DEF MoveApply, OpTraces, Shows
  <2>6. CASE MailRead \/ Trigger \/ WakeFires \/ UserCancel \/ PassFails \/ WorkerDies
             \/ PassLoad \/ PassFetch \/ PassHandoff \/ PassArm \/ CancelClear
             \/ (\E j \in Jobs : Begin(j)) \/ CancelStart \/ CancelFetch \/ CancelReconcile
             \/ Tick \/ Release \/ Reap \/ Elsewhere
             \/ CancelDecide \/ CancelRestore \/ MoveSet \/ CallFails
    <3>1. UNCHANGED cached
      BY <2>6 DEF MailRead, Trigger, WakeFires, UserCancel, PassFails, WorkerDies, PassLoad,
         PassFetch, PassHandoff, PassArm, CancelClear, Begin, CancelStart, CancelFetch,
         CancelReconcile, Tick, Release, Reap, Elsewhere, Local, CancelDecide, CancelRestore,
         MoveSet, CallFails, dbVars
    <3> QED
      BY <2>1, <3>1
  <2>7. CASE UNCHANGED vars
    BY <2>1, <2>7 DEF vars, dbVars
  <2> QED
    BY <2>1, <2>2, <2>3, <2>4, <2>5, <2>6, <2>7 DEF Next, PassStep, OpStep
<1>4. mail'.on => Shows(mail.copy)'
  <2>1. CASE UNCHANGED mail
    BY <1>2, <2>1 DEF CopyTraces, Shows
  <2>2. CASE MailRead
    <3>1. mail'.copy = place /\ UNCHANGED place
      BY <2>2 DEF MailRead, serverVars
    <3> QED
      BY <1>1, <3>1 DEF Shows, Left
  <2>3. CASE MailWrite \/ WorkerDies
    BY <2>3 DEF MailWrite, WorkerDies, NoMail
  <2>4. CASE ~(MailRead \/ MailWrite \/ WorkerDies)
    <3>1. UNCHANGED mail
      BY <2>4 DEF Next, PassStep, OpStep, Trigger, WakeFires, UserCancel, PassFails, PassLoad,
         PassFetch, PassWrite, PassHandoff, PassArm, CancelClear, Begin, CancelStart,
         CancelFetch, CancelReconcile, CancelPersist, MoveApply, Tick, Release, Reap, Elsewhere,
         Local, CancelDecide, CancelRestore, MoveSet, CallFails, vars
    <3> QED
      BY <2>1, <3>1
  <2> QED
    BY <2>2, <2>3, <2>4
<1>5. op'.pc = "persist" => Shows(op.copy)'
  <2>1. CASE CancelReconcile
    <3>1. op'.copy = place /\ UNCHANGED place
      BY <2>1 DEF CancelReconcile, serverVars, OpType
    <3> QED
      BY <1>1, <3>1 DEF Shows, Left
  <2>2. CASE UNCHANGED op
    BY <1>2, <2>2 DEF CopyTraces, Shows
  <2>3. CASE ~CancelReconcile
    <3>1. UNCHANGED op \/ op'.pc # "persist"
      BY <2>3, OpMoves
    <3> QED
      BY <2>2, <3>1
  <2> QED
    BY <2>1, <2>3
<1>6. status' # "null" => cached' # {}
  <2>1. status # "null" => cached # {}
    BY DEF CopyTraces
  <2>2. CASE UNCHANGED status
    BY <1>1, <2>1, <2>2
  <2>3. CASE PassWrite
    <3>1. CASE pass.held
      <4>1. cached # {}
        BY <2>3, <3>1 DEF PassWrite, PassTraces
      <4> QED
        BY <1>1, <4>1
    <3>2. CASE ~pass.held
      <4>1. CASE pass.seen = "pending" /\ pass.clock = 0
        <5>1. cached' = IF cached = {} THEN place ELSE cached
          BY <2>3, <3>2, <4>1 DEF PassWrite
        <5> QED
          BY <5>1 DEF CopyTraces
      <4>2. CASE ~(pass.seen = "pending" /\ pass.clock = 0)
        BY <2>1, <2>3, <3>2, <4>2 DEF PassWrite, dbVars
      <4> QED
        BY <4>1, <4>2
    <3> QED
      BY <3>1, <3>2
  <2>4. CASE PassHandoff
    <3>1. status' = "null" \/ UNCHANGED status
      BY <2>4 DEF PassHandoff
    <3> QED
      BY <2>2, <3>1
  <2>5. CASE CancelDecide
    <3>1. cached # {}
      BY <2>5 DEF CancelDecide, OpTraces
    <3> QED
      BY <1>1, <3>1
  <2>6. CASE CancelClear
    BY <2>6 DEF CancelClear
  <2>7. CASE ~(PassWrite \/ PassHandoff \/ CancelDecide \/ CancelClear)
    <3>1. UNCHANGED status
      BY <2>7 DEF Next, PassStep, OpStep, MailRead, MailWrite, Trigger, WakeFires, UserCancel,
         PassFails, WorkerDies, PassLoad, PassFetch, PassArm, Begin, CancelStart,
         CancelFetch, CancelReconcile, CancelPersist, MoveApply, Tick, Release, Reap, Elsewhere,
         Local, CancelRestore, MoveSet, CallFails, dbVars, vars
    <3> QED
      BY <2>2, <3>1
  <2> QED
    BY <2>3, <2>4, <2>5, <2>6, <2>7
<1> QED
  BY <1>1, <1>3, <1>4, <1>5, <1>6 DEF CopyTraces

\* The steps of a pass, by where they lead.
LEMMA PassMoves ==
  ASSUME TypeInv, [Next]_vars
  PROVE  \/ UNCHANGED pass
         \/ pass'.pc \in {"idle", "load", "arm"}
         \/ pass'.pc = "fetch" /\ PassLoad
         \/ pass'.pc = "write" /\ PassFetch
         \/ pass'.pc = "handoff" /\ PassWrite
         \/ pass'.pc = pass.pc /\ pass' = [pass EXCEPT !.queued = TRUE]
<1>1. PassType
  BY TypeParts
<1>2. ASSUME NEW b, ToArm(b) PROVE pass'.pc = "arm"
  BY <1>2 DEF ToArm, NoPass
<1>3. CASE Trigger \/ WakeFires
  BY <1>1, <1>3 DEF Trigger, WakeFires, Join, PassType, PassSet
<1>4. CASE PassLoad \/ PassFetch \/ PassFails \/ PassArm \/ WorkerDies
  <2>1. CASE PassLoad
    <3>1. pass'.pc = "fetch"
      BY <2>1 DEF PassLoad, NoPass
    <3> QED
      BY <2>1, <3>1
  <2>2. CASE PassFetch
    <3>1. pass'.pc = "write"
      BY <1>1, <2>2 DEF PassFetch, PassType, PassSet
    <3> QED
      BY <2>2, <3>1
  <2>3. CASE PassFails
    BY <2>3 DEF PassFails, NoPass
  <2>4. CASE WorkerDies
    BY <2>4 DEF WorkerDies, NoPass
  <2>5. CASE PassArm
    <3>1. pass' = NoPass \/ pass' = [NoPass EXCEPT !.pc = "load"]
      BY <2>5 DEF PassArm
    <3> QED
      BY <3>1 DEF NoPass
  <2> QED
    BY <1>4, <2>1, <2>2, <2>3, <2>4, <2>5
<1>5. CASE PassWrite
  <2>1. ToArm(FALSE) \/ pass' = [pass EXCEPT !.pc = "handoff", !.status = NextStatus, !.seen = "gone"]
    BY <1>5 DEF PassWrite
  <2> QED
    BY <1>1, <1>2, <1>5, <2>1 DEF PassType, PassSet
<1>6. CASE PassHandoff
  BY <1>2, <1>6 DEF PassHandoff
<1>7. CASE Tick \/ Release \/ Reap \/ Elsewhere \/ MailRead \/ MailWrite
           \/ UserCancel \/ OpStep \/ CallFails \/ UNCHANGED vars
  BY <1>7 DEF Tick, Release, Reap, Elsewhere, Local, MailRead, MailWrite, UserCancel, OpStep,
     Begin, CancelStart, CancelFetch, CancelDecide, CancelRestore, CancelReconcile,
     CancelPersist, CancelClear, MoveSet, MoveApply, CallFails, vars
<1> QED
  BY <1>3, <1>4, <1>5, <1>6, <1>7 DEF Next, PassStep

\* What a pass knows of the placement and the record stays true.
LEMMA PassTracesNext ==
  ASSUME TypeInv, Traces, [Next]_vars
  PROVE  PassTraces'
<1>1. /\ Left => Left'
      /\ kept' => kept
      /\ clock <= clock' /\ clock \in 0..2 /\ clock' \in 0..2
      /\ cached # {} => cached' # {}
  BY WorldMoves, TypeNext, TypeParts, TypePartsNext DEF Traces, ServerType
<1>2. PassType /\ ServerType
  BY TypeParts
<1>3. CASE UNCHANGED pass
  BY <1>1, <1>2, <1>3 DEF Traces, PassTraces, PassType, PassSet
<1>4. CASE pass' = [pass EXCEPT !.queued = TRUE]
  <2>1. /\ pass'.pc = pass.pc /\ pass'.held = pass.held /\ pass'.inside = pass.inside
        /\ pass'.seen = pass.seen /\ pass'.clock = pass.clock
    BY <1>2, <1>4 DEF PassType, PassSet
  <2> QED
    BY <1>1, <1>2, <2>1 DEF Traces, PassTraces, PassType, PassSet
<1>5. CASE PassLoad
  <2>1. /\ pass'.pc = "fetch" /\ pass'.held = Tracked /\ pass'.inside = ("scheduled" \in cached)
        /\ UNCHANGED <<cached, place>>
    BY <1>5 DEF PassLoad, NoPass, dbVars, serverVars
  <2>2. Tracked => cached # {} /\ Shows(cached)
    BY DEF Tracked, Traces, CopyTraces
  <2> QED
    BY <2>1, <2>2 DEF PassTraces, Shows, Left
<1>6. CASE PassFetch
  <2>1. /\ pass.pc = "fetch" /\ pass'.pc = "write" /\ pass'.held = pass.held
        /\ pass'.inside = pass.inside /\ pass'.seen = Record /\ pass'.clock = clock
        /\ UNCHANGED <<cached, place, clock, kept>>
    BY <1>2, <1>6 DEF PassFetch, dbVars, serverVars, PassType, PassSet
  <2> QED
    BY <1>1, <1>2, <2>1, GoneIsGone DEF Traces, PassTraces, Left
<1>7. CASE PassWrite /\ pass'.pc = "handoff"
  <2>1. CASE pass.held
    <3>1. ~ToArm(FALSE)
      BY <1>7 DEF ToArm, NoPass
    <3>2. pass' = [pass EXCEPT !.pc = "handoff", !.status = NextStatus, !.seen = "gone"]
      BY <1>7, <2>1, <3>1 DEF PassWrite
    <3>3. pass'.held = pass.held /\ pass'.inside = pass.inside
      BY <1>2, <3>2 DEF PassType, PassSet
    <3>4. pass.pc = "write"
      BY <1>7 DEF PassWrite
    <3>5. cached # {} /\ (pass.inside \/ Left)
      BY <2>1, <3>4 DEF Traces, PassTraces
    <3>6. pass'.pc = "handoff" /\ pass'.held
      BY <1>7, <2>1, <3>3
    <3>7. cached' # {} /\ (pass'.inside \/ Left')
      BY <1>1, <2>1, <3>3, <3>5
    <3> QED
      BY <3>6, <3>7 DEF PassTraces
  <2>2. CASE ~pass.held
    <3>1. ToArm(FALSE)
      BY <1>7, <2>2 DEF PassWrite
    <3> QED
      BY <1>7, <3>1 DEF ToArm, NoPass
  <2> QED
    BY <2>1, <2>2
<1>8. CASE pass'.pc \in {"idle", "load", "arm"}
  BY <1>8 DEF PassTraces
<1> QED
  BY <1>3, <1>4, <1>5, <1>6, <1>7, <1>8, PassMoves

\* What an operation has done and seen stays so.
LEMMA OpTracesNext ==
  ASSUME TypeInv, Traces, [Next]_vars
  PROVE  OpTraces'
<1>1. /\ Left => Left'
      /\ kept' => kept
      /\ cached # {} => cached' # {}
  BY WorldMoves DEF Traces
<1>2. OpType /\ ServerType
  BY TypeParts
<1>3. CASE UNCHANGED op
  BY <1>1, <1>3 DEF Traces, OpTraces
<1>4. CASE op'.pc \in {"idle", "start", "move"}
  BY <1>4 DEF OpTraces
<1>5. CASE op'.pc = "fetch" /\ CancelStart
  <2>1. status # "null"
    <3>1. Succeed \/ Conflict => op'.pc = "idle"
      BY DEF Succeed, Conflict, NoOp
    <3> QED
      BY <1>5, <3>1 DEF CancelStart
  <2> QED
    BY <1>1, <1>5, <2>1 DEF Traces, CopyTraces, OpTraces
<1>6. CASE op'.pc = "decide" /\ CancelFetch
  <2>1. op.pc = "fetch" /\ op'.seen = Record /\ UNCHANGED kept
    BY <1>2, <1>6 DEF CancelFetch, serverVars, OpType
  <2> QED
    BY <1>1, <1>2, <1>6, <2>1, GoneIsGone DEF Traces, OpTraces
<1>7. CASE op'.pc = "restore" /\ CancelDecide
  <2>1. op.pc = "decide"
    BY <1>7 DEF CancelDecide
  <2> QED
    BY <1>1, <1>7, <2>1 DEF Traces, OpTraces
<1>8. CASE op'.pc = "reconcile" /\ CancelRestore
  <2>1. op.pc = "restore" /\ Left'
    BY <1>8 DEF CancelRestore, Left
  <2> QED
    BY <1>1, <1>8, <2>1 DEF Traces, OpTraces
<1>9. CASE op'.pc = "persist" /\ CancelReconcile
  <2>1. op.pc = "reconcile"
    BY <1>9 DEF CancelReconcile
  <2> QED
    BY <1>1, <1>9, <2>1 DEF Traces, OpTraces
<1>10. CASE op'.pc = "clear" /\ CancelPersist
  <2>1. op.pc = "persist"
    BY <1>10 DEF CancelPersist
  <2> QED
    BY <1>1, <1>10, <2>1 DEF Traces, OpTraces
<1>11. CASE op'.pc = "apply" /\ MoveSet
  <2>1. Left'
    BY <1>11 DEF MoveSet, Filed, Left
  <2> QED
    BY <1>11, <2>1 DEF OpTraces
<1> QED
  BY <1>3, <1>4, <1>5, <1>6, <1>7, <1>8, <1>9, <1>10, <1>11, OpMoves

(***************************************************************************)
(* The theorems.                                                           *)
(***************************************************************************)
\* The inductive invariant: types, the truth of all that is known, and the debt of
\* a trigger.
THEOREM SendLaterInvariant == Spec => []Inv
<1>1. Init => Inv
  <2>1. Init => Owed
    BY LoadTyped DEF Init, Owed, NoPass
  <2> QED
    BY <2>1, TypeInit, GroundedInit DEF Inv
<1>2. Inv /\ [Next]_vars => Inv'
  BY TypeNext, GroundedNext, OwedNext DEF Inv
<1> QED
  BY <1>1, <1>2, PTL DEF Spec

\* Whatever races it, a cancel is reported successful only if the message will
\* never be released.
THEOREM CancelReportedTruly == Spec => []CancelIsTrue
<1>1. Inv => CancelIsTrue
  BY DEF Inv, Grounded, StepsEarned, CancelIsTrue
<1> QED
  BY <1>1, SendLaterInvariant, PTL

\* No message is filed in Drafts or in Sent but on a decision of the server.
THEOREM PlacedTruly == Spec => []PlacedOnEvidence
<1>1. Inv => PlacedOnEvidence
  BY DEF Inv, Grounded, PlacesJustified, Justified, PlacedOnEvidence
<1> QED
  BY <1>1, SendLaterInvariant, PTL

\* A push, a folder open or a timer that comes at any moment of a pass is taken up
\* by a pass that begins after it, or a timer is armed to begin one.
THEOREM TriggersAnswered == Spec => []TriggerAnswered
<1>1. Inv => TriggerAnswered
  BY DEF Inv, Owed, TriggerAnswered
<1> QED
  BY <1>1, SendLaterInvariant, PTL

\* All of this from the start on.
LEMMA TracesAlways == Spec => []Traces
<1>1. Init => Traces
  <2>1. Init => CopyTraces
    BY DEF Init, CopyTraces, Shows, NoMail, NoOp
  <2>2. Init => PassTraces /\ OpTraces
    BY LoadTyped DEF Init, PassTraces, OpTraces, NoPass, NoOp
  <2> QED
    BY <2>1, <2>2 DEF Traces
<1>2. Inv /\ Traces /\ [Next]_vars => Traces'
  BY CopyTracesNext, PassTracesNext, OpTracesNext DEF Inv, Traces
<1> QED
  BY <1>1, <1>2, SendLaterInvariant, PTL DEF Spec

\* The scheduled columns of a message are cleared only once it has left Scheduled on
\* the server, or the submission is gone there behind its target time.
THEOREM ColumnClearedLast == Spec => ClearsLast
<1> DEFINE Cleared == status # "null" /\ status' = "null" =>
                        "scheduled" \notin place \/ (~kept /\ clock >= 1)
<1>1. Inv /\ Traces /\ [Next]_vars => Cleared
  <2> SUFFICES ASSUME TypeInv, Traces, [Next]_vars, status # "null", status' = "null"
               PROVE  "scheduled" \notin place \/ (~kept /\ clock >= 1)
    BY DEF Inv
  <2>1. CASE PassWrite
    <3>1. pass.pc = "write" /\ pass.held /\ NextStatus = "null" /\ NextStatus # pass.status
      BY <2>1 DEF PassWrite, dbVars
    <3>2. pass.seen = "gone" /\ pass.clock >= 1 /\ pass.clock \in 0..2 /\ clock \in 0..2
      BY <3>1, TypeParts DEF NextStatus, PassType, PassSet, ServerType, Undo, Settled
    <3> QED
      BY <3>1, <3>2 DEF Traces, PassTraces
  <2>2. CASE PassHandoff
    <3>1. pass.pc = "handoff" /\ ~pass.inside
      BY <2>2 DEF PassHandoff, Over
    <3> QED
      BY <3>1 DEF Traces, PassTraces, Left
  <2>3. CASE CancelDecide
    <3>1. op.pc = "decide" /\ op.seen = "gone" /\ clock >= 1
      BY <2>3 DEF CancelDecide
    <3> QED
      BY <3>1 DEF Traces, OpTraces
  <2>4. CASE CancelClear
    BY <2>4 DEF CancelClear, Traces, OpTraces, Left
  <2>5. CASE ~(PassWrite \/ PassHandoff \/ CancelDecide \/ CancelClear)
    <3>1. UNCHANGED status
      BY <2>5 DEF Next, PassStep, OpStep, MailRead, MailWrite, Trigger, WakeFires, UserCancel,
         PassFails, WorkerDies, PassLoad, PassFetch, PassArm, Begin, CancelStart,
         CancelFetch, CancelReconcile, CancelPersist, MoveApply, Tick, Release, Reap, Elsewhere,
         Local, CancelRestore, MoveSet, CallFails, dbVars, vars
    <3> QED
      BY <3>1
  <2> QED
    BY <2>1, <2>2, <2>3, <2>4, <2>5
<1> QED
  BY <1>1, TracesAlways, SendLaterInvariant, PTL DEF Spec, ClearsLast
=============================================================================
