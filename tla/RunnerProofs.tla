---------------------------- MODULE RunnerProofs ----------------------------
(***************************************************************************)
(* Proofs about OutboxRunner, for any rows, lanes, callers, budgets and    *)
(* bounds: any number of restarts and of failing statements.               *)
(*                                                                         *)
(* The runner is safe for three reasons that support each other.  Outside  *)
(* a wave no task exists, and outside a live runner no wave (Barrier), so  *)
(* that recovery rewrites rows nobody works on.  A task that works on a    *)
(* row holds it in flight with the values it was dispatched with (RowInv), *)
(* so that nobody else settles it.  And who settles a row answers for it   *)
(* in the same step, while a caller that comes later looks for itself      *)
(* (CallInv).                                                              *)
(***************************************************************************)
EXTENDS OutboxRunner, FiniteSetTheorems, WellFoundedInduction, TLAPS

(***************************************************************************)
(* The invariant.                                                          *)
(***************************************************************************)
Alive == {"live", "stopping"}

\* Tasks exist during a wave only, and waves while the runner is alive.
Barrier ==
  /\ drain # "wave" => \A r \in Rows : task[r] = "none"
  /\ runner \notin Alive => drain = "idle"

\* A task past its place in the lane has no task before it.
LaneOrder ==
  \A q, r \in Rows :
    q < r /\ LaneOf[q] = LaneOf[r] /\ task[r] \in Running \cup {"unclaimed"}
      => task[q] = "none"

Budget == MaxAttempts + restarts

\* What a task holds and what its row may still cost.
TaskInv(r) ==
  /\ task[r] # "none" => snap[r].attempts < Budget /\ status[r] # "unborn"
  /\ task[r] \in Running => /\ status[r] = "in_flight"
                            /\ (r \in converted <=> snap[r].converted)
                            /\ attempts[r] <= snap[r].attempts + 1
  /\ task[r] = "retry" => attempts[r] < Budget

\* An attempt was counted before it began.  A row in flight when the runner went
\* away was paid for by its going.
CountInv(r) ==
  /\ status[r] = "unborn" => attempts[r] = 0
  /\ status[r] \in Queued => attempts[r] < Budget
  /\ attempts[r] <= Budget
  /\ status[r] = "in_flight" /\ Stopped => attempts[r] < Budget

\* A row interrupted past the point of no return is parked before it could be
\* reset, or remains in flight.
ParkInv(r) ==
  r \in midCrash =>
    /\ r \in Unsafe /\ phase[r] = "irreversible" /\ task[r] = "none"
    /\ status[r] \in {"in_flight", "conflicted"}
    /\ runner = "resetting" => status[r] = "conflicted"

RowInv(r) == TaskInv(r) /\ CountInv(r) /\ ParkInv(r)

\* A caller's row exists; one that waits may still be answered; what it was told
\* holds; and no call outlives the runner it registered with.
CallInv(c) ==
  /\ call[c].pc # "idle" => status[call[c].row] # "unborn"
  /\ call[c].pc = "waiting" => status[call[c].row] \in Live
  /\ call[c].answer = "ok" => status[call[c].row] = "gone"
  /\ call[c].answer = "failed" /\ call[c].row \in Unsafe =>
       status[call[c].row] = "conflicted"
  /\ call[c].pc = "loaded" => runner = "live"
  /\ call[c].pc \in {"registered", "waiting"} => runner \in Alive
  /\ call[c].pc = "leaving" => runner \in {"stopping", "stopped"}

\* Once the pass has found nothing ready, a row that becomes ready without a time
\* to wait for has somebody on the way to notify.
WakingCovered ==
  runner = "live" /\ drain = "waking" /\ dbFailures = 0
  /\ (\E r \in Rows : status[r] \in Queued /\ notBefore[r] = "null")
    => kickPending \/ hook # {} \/ \E c \in Callers : call[c].pc = "registered"

Rest == Barrier /\ LaneOrder /\ WakingCovered /\ WakeCovered

Inv ==
  /\ TypeOK /\ Rest
  /\ \A r \in Rows : RowInv(r)
  /\ \A c \in Callers : CallInv(c)

(***************************************************************************)
(* Types.                                                                  *)
(***************************************************************************)
SnapSet == [status: Queued, attempts: Nat, converted: BOOLEAN]
CallSet == [pc: {"idle", "loaded", "leaving", "registered", "waiting", "done"},
            row: Rows, answer: Answers]

RowType ==
  /\ status \in [Rows -> Statuses] /\ attempts \in [Rows -> Nat]
  /\ notBefore \in [Rows -> Waits] /\ phase \in [Rows -> Phases]
  /\ abandoned \in [Rows -> {"no", "kept", "discarded"}] /\ hook \in SUBSET Rows
RunnerType ==
  /\ runner \in {"off", "conflicting", "resetting", "live", "stopping", "stopped"}
  /\ bootDue \in BOOLEAN
TimerType ==
  /\ kickPending \in BOOLEAN /\ notifyTimer \in BOOLEAN /\ wakeTimer \in BOOLEAN
  /\ drain \in {"idle", "loading", "wave", "waking"}
TaskType == snap \in [Rows -> SnapSet] /\ task \in [Rows -> Tasks]
CallType == call \in [Callers -> CallSet]
BoundType ==
  /\ midCrash \in SUBSET Rows
  /\ restarts \in 0..MaxRestarts /\ dbFailures \in 0..MaxDbFailures
  /\ revivals \in 0..MaxRevivals

\* TypeOK is the conjunction of its parts.
LEMMA TypeParts ==
  TypeOK <=> RowType /\ RunnerType /\ TimerType /\ TaskType /\ CallType /\ BoundType
BY DEF TypeOK, RowType, RunnerType, TimerType, TaskType, CallType, BoundType, SnapSet,
   CallSet

\* The same of the next state.
LEMMA TypePartsNext ==
  TypeOK' <=> RowType' /\ RunnerType' /\ TimerType' /\ TaskType' /\ CallType' /\ BoundType'
BY DEF TypeOK, RowType, RunnerType, TimerType, TaskType, CallType, BoundType, SnapSet,
   CallSet

\* A restart adds to the budget, and only natural numbers are counted.
LEMMA Counters ==
  ASSUME TypeOK
  PROVE  restarts \in Nat /\ MaxAttempts \in Nat \ {0} /\ Budget \in Nat /\ Budget > 0
BY TypeParts, BoundsAssumption DEF BoundType, Budget

\* The copy of a row no task holds.
LEMMA NoCopyTyped == NoCopy \in SnapSet
BY DEF NoCopy, SnapSet, Queued

\* What notify() can do.
LEMMA NotifyMoves ==
  ASSUME TypeOK, NEW immediate \in BOOLEAN, Notify(immediate)
  PROVE  /\ TimerType' \/ wakeTimer' # wakeTimer
         /\ drain' # drain => drain = "idle" /\ drain' = "loading" /\ runner = "live"
         /\ runner # "live" => UNCHANGED <<drain, kickPending, notifyTimer>>
         /\ runner = "live" /\ drain # "idle" => kickPending'
         /\ runner = "live" /\ drain = "idle" => drain' = "loading" \/ notifyTimer'
         /\ runner = "live" /\ drain = "idle" /\ immediate => drain' = "loading"
         /\ ~immediate => drain' = drain
<1>1. CASE Stopped
  BY <1>1, TypeParts DEF Notify, Stopped, TimerType
<1>2. CASE ~Stopped /\ drain # "idle"
  BY <1>2, TypeParts DEF Notify, Stopped, TimerType
<1>3. CASE ~Stopped /\ drain = "idle" /\ immediate
  BY <1>3, TypeParts DEF Notify, Stopped, TimerType
<1>4. CASE ~Stopped /\ drain = "idle" /\ ~immediate
  BY <1>4, TypeParts DEF Notify, Stopped, TimerType
<1> QED
  BY <1>1, <1>2, <1>3, <1>4

\* What _kickDrain can do.
LEMMA KickMoves ==
  ASSUME TypeOK, KickDrain
  PROVE  /\ kickPending' \in BOOLEAN /\ drain' \in {"idle", "loading", "wave", "waking"}
         /\ drain' # drain => drain = "idle" /\ drain' = "loading" /\ runner = "live"
         /\ runner = "live" /\ drain = "idle" => drain' = "loading"
         /\ drain' = drain => kickPending' = kickPending
BY TypeParts DEF KickDrain, Stopped, TimerType

\* What the end of a pass can do.
LEMMA EndMoves ==
  ASSUME TypeOK, EndDrain
  PROVE  /\ kickPending' \in BOOLEAN /\ drain' \in {"idle", "loading"}
         /\ drain' = "loading" => runner = "live"
         /\ drain' = "idle" => kickPending' = kickPending /\ (runner = "live" => ~kickPending)
BY TypeParts DEF EndDrain, Stopped, TimerType

\* Answers leave calls well typed.
LEMMA ResolvedTyped ==
  ASSUME TypeOK, NEW r \in Rows, NEW a \in Answers
  PROVE  /\ Resolved(r, a) \in [Callers -> CallSet]
         /\ \A c \in Callers :
              /\ Resolved(r, a)[c].row = call[c].row
              /\ call[c].row = r /\ call[c].pc \in {"registered", "waiting"} =>
                   Resolved(r, a)[c].pc = "done" /\ Resolved(r, a)[c].answer = a
              /\ ~(call[c].row = r /\ call[c].pc \in {"registered", "waiting"}) =>
                   Resolved(r, a)[c] = call[c]
BY TypeParts DEF Resolved, CallType, CallSet

\* So does the answer to one caller.
LEMMA AnswerTyped ==
  ASSUME TypeOK, NEW c \in Callers, NEW a \in Answers, Answer(c, a)
  PROVE  /\ CallType'
         /\ call'[c].pc = "done" /\ call'[c].row = call[c].row /\ call'[c].answer = a
         /\ \A d \in Callers \ {c} : call'[d] = call[d]
BY TypeParts DEF Answer, CallType, CallSet

\* So does stop().
LEMMA AnswerStoppedTyped ==
  ASSUME TypeOK, AnswerStopped
  PROVE  /\ CallType'
         /\ \A c \in Callers :
              /\ call'[c].row = call[c].row
              /\ call[c].pc \in {"registered", "waiting"} =>
                   call'[c].pc = "done" /\ call'[c].answer \in {"outcomeUnknown", "stopped"}
              /\ call[c].pc = "loaded" =>
                   call'[c].pc = "leaving" /\ call'[c].answer = call[c].answer
              /\ call[c].pc \in {"idle", "leaving", "done"} => call'[c] = call[c]
<1>1. ASSUME NEW c \in Callers
      PROVE  /\ call'[c] \in CallSet /\ call'[c].row = call[c].row
             /\ call[c].pc \in {"registered", "waiting"} =>
                  call'[c].pc = "done" /\ call'[c].answer \in {"outcomeUnknown", "stopped"}
             /\ call[c].pc = "loaded" =>
                  call'[c].pc = "leaving" /\ call'[c].answer = call[c].answer
             /\ call[c].pc \in {"idle", "leaving", "done"} => call'[c] = call[c]
  <2>1. call[c] \in CallSet
    BY TypeParts DEF CallType
  <2>2. CASE call[c].pc \in {"registered", "waiting"}
    BY <2>1, <2>2 DEF AnswerStopped, StoppedAnswer, CallSet, Answers
  <2>3. CASE call[c].pc = "loaded"
    BY <2>1, <2>3 DEF AnswerStopped, CallSet
  <2>4. CASE call[c].pc \in {"idle", "leaving", "done"}
    BY <2>1, <2>4 DEF AnswerStopped, CallSet
  <2> QED
    BY <2>1, <2>2, <2>3, <2>4 DEF CallSet
<1>2. call' = [c \in Callers |-> call'[c]]
  BY DEF AnswerStopped
<1>3. call' \in [Callers -> CallSet]
  BY <1>1, <1>2
<1> QED
  BY <1>1, <1>3 DEF CallType

\* The first state.
LEMMA InitInv == Init => Inv
<1> SUFFICES ASSUME Init PROVE Inv
  OBVIOUS
<1>1. TypeOK
  <2>1. RowType /\ RunnerType /\ TimerType
    BY DEF Init, RowType, RunnerType, TimerType, Statuses, Waits, Phases
  <2>2. TaskType
    BY NoCopyTyped DEF Init, TaskType, Tasks
  <2>3. CallType /\ BoundType
    BY BoundsAssumption DEF Init, CallType, CallSet, Answers, BoundType
  <2> QED
    BY <2>1, <2>2, <2>3, TypeParts
<1>2. Barrier /\ LaneOrder /\ WakingCovered /\ WakeCovered
  BY DEF Init, Barrier, LaneOrder, WakingCovered, WakeCovered, Running, Alive
<1>3. ASSUME NEW r \in Rows PROVE RowInv(r)
  <2>1. /\ task[r] = "none" /\ status[r] = "unborn" /\ attempts[r] = 0 /\ r \notin midCrash
        /\ Budget \in Nat
    BY <1>1, Counters DEF Init
  <2> QED
    BY <2>1 DEF RowInv, TaskInv, CountInv, ParkInv, Running, Queued
<1>4. ASSUME NEW c \in Callers PROVE CallInv(c)
  <2>1. call[c].pc = "idle" /\ call[c].answer = "none"
    BY DEF Init
  <2> QED
    BY <2>1 DEF CallInv
<1> QED
  BY <1>1, <1>2, <1>3, <1>4 DEF Inv, Rest

\* Every step keeps the types.
LEMMA TypeNext ==
  ASSUME TypeOK, \A r \in Rows : RowInv(r), \A c \in Callers : CallInv(c), [Next]_vars
  PROVE  TypeOK'
<1> USE DEF rowVars, timerVars, drainVars, boundVars
<1>1. RowType /\ RunnerType /\ TimerType /\ TaskType /\ CallType /\ BoundType
  BY TypeParts
<1>2. ASSUME UNCHANGED <<rowVars, hook>> PROVE RowType'
  BY <1>1, <1>2 DEF RowType
<1>3. ASSUME UNCHANGED <<runner, bootDue>> PROVE RunnerType'
  BY <1>1, <1>3 DEF RunnerType
<1>4. ASSUME UNCHANGED <<timerVars, drain>> PROVE TimerType'
  BY <1>1, <1>4 DEF TimerType
<1>5. ASSUME UNCHANGED <<snap, task>> PROVE TaskType'
  BY <1>1, <1>5 DEF TaskType
<1>6. ASSUME UNCHANGED call PROVE CallType'
  BY <1>1, <1>6 DEF CallType
<1>7. ASSUME UNCHANGED <<midCrash, boundVars>> PROVE BoundType'
  BY <1>1, <1>7 DEF BoundType
<1> USE TypePartsNext
<1>8. ASSUME NEW r \in Rows, Insert(r) \/ Revive(r) \/ Abandon(r) \/ ConvertToDiscard(r)
                             \/ BackoffElapses(r)
      PROVE  TypeOK'
  <2>1. RowType'
    BY <1>1, <1>8 DEF Insert, Revive, Abandon, ConvertToDiscard, BackoffElapses, DeleteRow,
       RowType, Statuses, Waits, Phases
  <2>2. BoundType'
    BY <1>1, <1>8, BoundsAssumption DEF Insert, Revive, Abandon, ConvertToDiscard,
       BackoffElapses, BoundType
  <2> QED
    BY <1>3, <1>4, <1>5, <1>6, <1>8, <2>1, <2>2 DEF Insert, Revive, Abandon,
       ConvertToDiscard, BackoffElapses
<1>9. ASSUME NEW r \in Rows, InsertHook(r) PROVE TypeOK'
  <2>1. Notify(FALSE) /\ wakeTimer' = wakeTimer
    BY <1>9 DEF InsertHook
  <2>2. TimerType'
    BY <2>1, NotifyMoves
  <2>3. RowType'
    BY <1>1, <1>9 DEF InsertHook, RowType
  <2> QED
    BY <1>3, <1>5, <1>6, <1>7, <1>9, <2>2, <2>3 DEF InsertHook
<1>10. CASE BootNotify
  <2>1. Notify(FALSE) /\ wakeTimer' = wakeTimer
    BY <1>10 DEF BootNotify
  <2>2. TimerType'
    BY <2>1, NotifyMoves
  <2>3. RunnerType'
    BY <1>1, <1>10 DEF BootNotify, RunnerType
  <2> QED
    BY <1>2, <1>5, <1>6, <1>7, <1>10, <2>2, <2>3 DEF BootNotify
<1>11. CASE NotifyTimerFires \/ WakeTimerFires \/ DrainRequest
  <2>1. KickDrain
    BY <1>11 DEF NotifyTimerFires, WakeTimerFires, DrainRequest
  <2>2. TimerType'
    BY <1>1, <1>11, <2>1, KickMoves DEF NotifyTimerFires, WakeTimerFires, DrainRequest,
       TimerType
  <2> QED
    BY <1>2, <1>3, <1>5, <1>6, <1>7, <1>11, <2>2 DEF NotifyTimerFires, WakeTimerFires,
       DrainRequest
<1>12. CASE DrainArmWake \/ DrainFails \/ DrainStopped
  <2>1. EndDrain
    BY <1>12 DEF DrainArmWake, DrainFails, DrainStopped
  <2>2. TimerType'
    BY <1>1, <1>12, <2>1, EndMoves DEF DrainArmWake, DrainFails, DrainStopped, TimerType,
       NextWake
  <2>3. BoundType'
    BY <1>1, <1>12, BoundsAssumption DEF DrainArmWake, DrainFails, DrainStopped, BoundType
  <2> QED
    BY <1>2, <1>3, <1>5, <1>6, <1>12, <2>2, <2>3 DEF DrainArmWake, DrainFails, DrainStopped
<1>13. CASE DrainEmpty \/ DrainWaveDone
  <2>1. TimerType'
    BY <1>1, <1>13 DEF DrainEmpty, DrainWaveDone, TimerType
  <2> QED
    BY <1>2, <1>3, <1>5, <1>6, <1>7, <1>13, <2>1 DEF DrainEmpty, DrainWaveDone
<1>14. CASE DrainLoad
  <2>1. TimerType'
    BY <1>1, <1>14 DEF DrainLoad, TimerType
  <2>2. ASSUME NEW r \in Rows
        PROVE  /\ (IF r \in Batch
                   THEN [status |-> status[r], attempts |-> attempts[r],
                         converted |-> r \in converted]
                   ELSE snap[r]) \in SnapSet
               /\ (IF r \in Batch THEN "queued" ELSE task[r]) \in Tasks
    <3>1. r \in Batch => status[r] \in Queued
      BY DEF Batch, Ready
    <3>2. (r \in converted) \in BOOLEAN
      OBVIOUS
    <3> QED
      BY <1>1, <3>1, <3>2 DEF RowType, TaskType, SnapSet, Tasks
  <2>3. TaskType'
    BY <1>14, <2>2 DEF DrainLoad, TaskType
  <2> QED
    BY <1>2, <1>3, <1>6, <1>7, <1>14, <2>1, <2>3 DEF DrainLoad
<1>15. ASSUME NEW r \in Rows,
              TaskSkip(r) \/ TaskSettleFails(r) \/ Process(r) \/ TaskClaim(r) \/ TaskClaimFails(r)
       PROVE  TypeOK'
  <2>1. TaskType'
    BY <1>1, <1>15, NoCopyTyped DEF TaskSkip, TaskSettleFails, Process, ProcessOk,
       ProcessRetryable, ProcessTerminal, TaskClaim, TaskClaimFails, EndTask, TaskType, Tasks
  <2>2. snap[r].attempts + 1 \in Nat
    BY <1>1 DEF TaskType, SnapSet
  <2>3. RowType'
    BY <1>1, <1>15, <2>2 DEF TaskSkip, TaskSettleFails, Process, ProcessOk,
       ProcessRetryable, ProcessTerminal, TaskClaim, TaskClaimFails, RowType, Statuses
  <2>4. BoundType'
    BY <1>1, <1>15, BoundsAssumption DEF TaskSkip, TaskSettleFails, Process, ProcessOk,
       ProcessRetryable, ProcessTerminal, TaskClaim, TaskClaimFails, BoundType
  <2> QED
    BY <1>3, <1>4, <1>6, <1>15, <2>1, <2>3, <2>4 DEF TaskSkip, TaskSettleFails, Process,
       ProcessOk, ProcessRetryable, ProcessTerminal, TaskClaim, TaskClaimFails
<1>16. ASSUME NEW r \in Rows, ProcessCheckpoint(r) PROVE TypeOK'
  <2>1. phase[r] \in Phases
    BY <1>1 DEF RowType
  <2>2. \A p \in NextPhases[phase[r]] : p \in Phases
    BY <2>1 DEF NextPhases, Phases
  <2>3. RowType'
    BY <1>1, <1>16, <2>2 DEF ProcessCheckpoint, RowType
  <2> QED
    BY <1>3, <1>4, <1>5, <1>6, <1>7, <1>16, <2>3 DEF ProcessCheckpoint
<1>17. ASSUME NEW r \in Rows, TaskUnclaimed(r) PROVE TypeOK'
  <2>1. status[r] # "unborn" /\ status[r] \in Statuses
    BY <1>1, <1>17 DEF TaskUnclaimed, RowInv, TaskInv, RowType
  <2>2. CallType'
    BY <1>1, <1>17, <2>1, ResolvedTyped DEF TaskUnclaimed, CallType, Statuses, Live, Answers
  <2>3. TaskType'
    BY <1>1, <1>17, NoCopyTyped DEF TaskUnclaimed, EndTask, TaskType, Tasks
  <2> QED
    BY <1>2, <1>3, <1>4, <1>7, <1>17, <2>2, <2>3 DEF TaskUnclaimed
<1>18. ASSUME NEW r \in Rows, TaskSettle(r) PROVE TypeOK'
  <2>1. RowType'
    BY <1>1, <1>18 DEF TaskSettle, DeleteRow, RowType, Statuses, Waits, Phases
  <2>2. CallType'
    BY <1>1, <1>18, ResolvedTyped DEF TaskSettle, CallType, Answers
  <2>3. TaskType'
    BY <1>1, <1>18, NoCopyTyped DEF TaskSettle, EndTask, TaskType, Tasks
  <2> QED
    BY <1>3, <1>4, <1>7, <1>18, <2>1, <2>2, <2>3 DEF TaskSettle
<1>19. ASSUME NEW c \in Callers, CallStep(c) PROVE TypeOK'
  <2>1. call[c] \in CallSet /\ call[c].row \in Rows /\ status[call[c].row] \in Statuses
    BY <1>1 DEF CallType, CallSet, RowType
  <2>2. CASE CallLoad(c)
    <3>1. CallType'
      BY <1>1, <2>1, <2>2, AnswerTyped DEF CallLoad, CallType, CallSet, Statuses, Live,
         Answers, Stopped
    <3> QED
      BY <1>2, <1>3, <1>4, <1>5, <1>7, <2>2, <3>1 DEF CallLoad
  <2>3. CASE CallRegister(c) \/ CallLeave(c)
    <3>1. RowType'
      BY <1>1, <2>3 DEF CallRegister, CallLeave, ClearBackoff, RowType, Waits
    <3>2. CallType'
      BY <1>1, <2>3, AnswerTyped DEF CallRegister, CallLeave, CallType, CallSet,
         StoppedAnswer, Answers
    <3> QED
      BY <1>3, <1>4, <1>5, <1>7, <2>3, <3>1, <3>2 DEF CallRegister, CallLeave
  <2>4. CASE CallRecheck(c)
    <3>1. status[call[c].row] # "unborn"
      BY <2>4 DEF CallRecheck, CallInv
    <3>2. CallType'
      BY <1>1, <2>1, <2>4, <3>1, ResolvedTyped DEF CallRecheck, SecondLook, CallType,
         CallSet, Statuses, Live, Answers
    <3>3. Notify(TRUE) /\ wakeTimer' = wakeTimer
      BY <2>4 DEF CallRecheck
    <3>4. TimerType'
      BY <3>3, NotifyMoves
    <3> QED
      BY <1>2, <1>3, <1>5, <1>7, <2>4, <3>2, <3>4 DEF CallRecheck
  <2> QED
    BY <1>19, <2>2, <2>3, <2>4 DEF CallStep
<1>20. CASE Crash
  <2>1. RunnerType' /\ TimerType'
    BY <1>20 DEF Crash, NewRunner, RunnerType, TimerType
  <2>2. TaskType'
    BY <1>20, NoCopyTyped DEF Crash, NewRunner, TaskType, Tasks
  <2>3. CallType'
    BY <1>1, <1>20 DEF Crash, CallType, CallSet, Answers
  <2>4. RowType'
    BY <1>1, <1>20 DEF Crash, RowType
  <2>5. midCrash' \in SUBSET Rows
    BY <1>1, <1>20, UnsafeAssumption DEF Crash, BoundType
  <2>6. /\ restarts < MaxRestarts /\ restarts' = restarts + 1
        /\ UNCHANGED <<dbFailures, revivals>>
    BY <1>20 DEF Crash
  <2>7. BoundType'
    BY <1>1, <2>5, <2>6, BoundsAssumption DEF BoundType
  <2> QED
    BY <2>1, <2>2, <2>3, <2>4, <2>7
<1>21. CASE Stop
  <2>1. RunnerType' /\ TimerType'
    BY <1>1, <1>21 DEF Stop, RunnerType, TimerType
  <2>2. CallType'
    <3>1. CASE StopWaits
      BY <1>1, <1>21, <3>1 DEF Stop, CallType, CallSet
    <3>2. CASE ~StopWaits
      BY <1>21, <3>2, AnswerStoppedTyped DEF Stop
    <3> QED
      BY <3>1, <3>2
  <2>3. BoundType'
    BY <1>1, <1>21, BoundsAssumption DEF Stop, BoundType
  <2> QED
    BY <1>2, <1>5, <1>21, <2>1, <2>2, <2>3 DEF Stop
<1>22. CASE StopDone
  <2>1. RunnerType'
    BY <1>1, <1>22 DEF StopDone, RunnerType
  <2>2. CallType'
    BY <1>22, AnswerStoppedTyped DEF StopDone
  <2> QED
    BY <1>2, <1>4, <1>5, <1>7, <1>22, <2>1, <2>2 DEF StopDone
<1>23. CASE Start
  <2>1. RunnerType' /\ TimerType'
    BY <1>1, <1>23 DEF Start, NewRunner, RunnerType, TimerType
  <2>2. TaskType'
    BY <1>23, NoCopyTyped DEF Start, NewRunner, TaskType, Tasks
  <2> QED
    BY <1>2, <1>6, <1>7, <1>23, <2>1, <2>2 DEF Start
<1>24. CASE RecoverConflict \/ RecoverReset \/ RecoverFails
  <2>1. RunnerType'
    BY <1>1, <1>24 DEF RecoverConflict, RecoverReset, RecoverFails, RunnerType
  <2>2. RowType'
    BY <1>1, <1>24 DEF RecoverConflict, RecoverReset, RecoverFails, RowType, Statuses, Waits
  <2>3. BoundType'
    BY <1>1, <1>24, BoundsAssumption DEF RecoverConflict, RecoverReset, RecoverFails,
       BoundType
  <2> QED
    BY <1>4, <1>5, <1>6, <1>24, <2>1, <2>2, <2>3 DEF RecoverConflict, RecoverReset,
       RecoverFails
<1>25. CASE UNCHANGED vars
  BY <1>2, <1>3, <1>4, <1>5, <1>6, <1>7, <1>25 DEF vars
<1> QED
  BY <1>8, <1>9, <1>10, <1>11, <1>12, <1>13, <1>14, <1>15, <1>16, <1>17, <1>18, <1>19,
     <1>20, <1>21, <1>22, <1>23, <1>24, <1>25 DEF Next, TaskStep, DrainStep, StartStep

(***************************************************************************)
(* Rows and tasks.                                                         *)
(***************************************************************************)
\* A step that leaves a row and its task alone keeps what is known of them.  Who
\* stops the runner pays for it.
LEMMA RowKept ==
  ASSUME TypeOK, NEW r \in Rows, RowInv(r),
         status'[r] = status[r], attempts'[r] = attempts[r], phase'[r] = phase[r],
         r \in converted' <=> r \in converted,
         snap'[r] = snap[r], task'[r] = task[r],
         r \in midCrash' => r \in midCrash,
         restarts' \in Nat, restarts' >= restarts,
         runner' = "resetting" => runner = "resetting",
         runner' # "live" => runner # "live" \/ restarts' > restarts
  PROVE  RowInv(r)'
<1>1. /\ restarts \in Nat /\ MaxAttempts \in Nat /\ attempts[r] \in Nat
      /\ snap[r].attempts \in Nat
  BY Counters, TypeParts DEF RowType, TaskType, SnapSet
<1>2. TaskInv(r)'
  BY <1>1 DEF RowInv, TaskInv, Budget
<1>3. CountInv(r)'
  BY <1>1 DEF RowInv, CountInv, Budget, Stopped
<1>4. ParkInv(r)'
  BY DEF RowInv, ParkInv
<1> QED
  BY <1>2, <1>3, <1>4 DEF RowInv

\* Every step keeps what is known of a row.
LEMMA RowNext ==
  ASSUME TypeOK, Barrier, \A q \in Rows : RowInv(q), [Next]_vars, NEW r \in Rows
  PROVE  RowInv(r)'
<1> USE DEF rowVars, timerVars, drainVars, boundVars
<1>1. /\ status[r] \in Statuses /\ attempts[r] \in Nat /\ phase[r] \in Phases
      /\ snap[r] \in SnapSet /\ snap[r].attempts \in Nat /\ task[r] \in Tasks
      /\ status \in [Rows -> Statuses] /\ attempts \in [Rows -> Nat]
      /\ phase \in [Rows -> Phases] /\ notBefore \in [Rows -> Waits]
      /\ snap \in [Rows -> SnapSet] /\ task \in [Rows -> Tasks]
      /\ abandoned \in [Rows -> {"no", "kept", "discarded"}]
  BY TypeParts DEF RowType, TaskType, SnapSet
<1>2. restarts \in Nat /\ MaxAttempts \in Nat /\ MaxAttempts > 0
  BY Counters
<1>3. RowInv(r)
  OBVIOUS
<1>4. restarts >= restarts
  BY <1>2
<1>5. CASE \/ NotifyTimerFires \/ WakeTimerFires \/ BootNotify \/ DrainRequest \/ DrainEmpty
           \/ DrainArmWake \/ DrainFails \/ DrainWaveDone \/ DrainStopped \/ UNCHANGED vars
  <2>1. UNCHANGED <<status, attempts, phase, abandoned, snap, task, midCrash, restarts, runner>>
    BY <1>5 DEF NotifyTimerFires, WakeTimerFires, BootNotify, DrainRequest, DrainEmpty,
       DrainArmWake, DrainFails, DrainWaveDone, DrainStopped, vars
  <2> QED
    BY <1>2, <1>3, <1>4, <2>1, RowKept DEF converted
<1>6. ASSUME NEW q \in Rows, InsertHook(q) \/ BackoffElapses(q) PROVE RowInv(r)'
  <2>1. UNCHANGED <<status, attempts, phase, abandoned, snap, task, midCrash, restarts, runner>>
    BY <1>6 DEF InsertHook, BackoffElapses
  <2> QED
    BY <1>2, <1>3, <1>4, <2>1, RowKept DEF converted
<1>7. ASSUME NEW c \in Callers, CallStep(c) PROVE RowInv(r)'
  <2>1. UNCHANGED <<status, attempts, phase, abandoned, snap, task, midCrash, restarts, runner>>
    BY <1>7 DEF CallStep, CallLoad, CallRegister, CallLeave, CallRecheck
  <2> QED
    BY <1>2, <1>3, <1>4, <2>1, RowKept DEF converted
<1>8. CASE Stop \/ StopDone \/ RecoverFails
  <2>1. UNCHANGED <<status, attempts, phase, abandoned, snap, task, midCrash>>
    BY <1>8 DEF Stop, StopDone, RecoverFails
  <2>2. /\ restarts' \in Nat /\ restarts' >= restarts /\ runner' # "resetting"
        /\ runner' # "live" => runner # "live" \/ restarts' > restarts
    BY <1>2, <1>8 DEF Stop, StopDone, RecoverFails
  <2> QED
    BY <1>3, <2>1, <2>2, RowKept DEF converted
<1>9. CASE Start \/ RecoverConflict \/ RecoverReset
  <2>1. task[r] = "none"
    BY <1>9 DEF Barrier, Alive, Start, RecoverConflict, RecoverReset
  <2>2. /\ task'[r] = "none" /\ restarts' = restarts /\ midCrash' = midCrash
        /\ attempts' = attempts /\ phase' = phase /\ runner # "live"
    BY <1>9, <2>1 DEF Start, NewRunner, RecoverConflict, RecoverReset
  <2>3. TaskInv(r)'
    BY <2>2 DEF TaskInv, Running
  <2>4. CASE Start
    BY <1>1, <1>3, <2>1, <2>2, <2>3, <2>4 DEF Start, RowInv, CountInv, ParkInv, Budget, Stopped
  <2>5. CASE RecoverConflict
    <3>1. status'[r] = IF Interrupted(r) THEN "conflicted" ELSE status[r]
      BY <2>5 DEF RecoverConflict
    <3>2. CountInv(r)'
      BY <1>1, <1>2, <1>3, <2>2, <2>5, <3>1 DEF RecoverConflict, RowInv, CountInv, Budget,
         Stopped, Queued, Interrupted
    <3>3. ParkInv(r)'
      BY <1>3, <2>1, <2>2, <2>5, <3>1 DEF RowInv, ParkInv, Interrupted
    <3> QED
      BY <2>3, <3>2, <3>3 DEF RowInv
  <2>6. CASE RecoverReset
    <3>1. status'[r] = IF status[r] = "in_flight" THEN "pending" ELSE status[r]
      BY <2>6 DEF RecoverReset
    <3>2. CountInv(r)'
      BY <1>1, <1>2, <1>3, <2>2, <2>6, <3>1 DEF RecoverReset, RowInv, CountInv, Budget,
         Stopped, Queued
    <3>3. ParkInv(r)'
      BY <1>3, <2>1, <2>2, <2>6, <3>1 DEF RecoverReset, RowInv, ParkInv
    <3> QED
      BY <2>3, <3>2, <3>3 DEF RowInv
  <2> QED
    BY <1>9, <2>4, <2>5, <2>6
<1>10. CASE Crash
  <2>1. /\ task'[r] = "none" /\ restarts' = restarts + 1 /\ runner' = "off"
        /\ UNCHANGED <<status, attempts, phase>>
        /\ r \in midCrash' => r \in midCrash \/
             (r \in Unsafe /\ status[r] = "in_flight" /\ phase[r] = "irreversible")
    BY <1>10 DEF Crash, NewRunner
  <2>2. TaskInv(r)'
    BY <2>1 DEF TaskInv, Running
  <2>3. CountInv(r)'
    BY <1>1, <1>2, <1>3, <2>1 DEF RowInv, CountInv, Budget, Stopped
  <2>4. ParkInv(r)'
    BY <1>3, <2>1 DEF RowInv, ParkInv
  <2> QED
    BY <2>2, <2>3, <2>4 DEF RowInv
<1>11. CASE DrainLoad
  <2>1. task[r] = "none"
    BY <1>11 DEF Barrier, DrainLoad
  <2>2. UNCHANGED <<status, attempts, phase, abandoned, midCrash, restarts, runner>>
    BY <1>11 DEF DrainLoad
  <2>3. CASE r \in Batch
    <3>1. status[r] \in Queued
      BY <2>3 DEF Batch, Ready
    <3>2. task'[r] = "queued" /\ snap'[r].attempts = attempts[r]
      BY <1>11, <2>3 DEF DrainLoad
    <3>3. attempts[r] < Budget
      BY <1>3, <3>1 DEF RowInv, CountInv
    <3>4. TaskInv(r)'
      BY <2>2, <3>1, <3>2, <3>3 DEF TaskInv, Running, Queued, Budget
    <3>5. CountInv(r)'
      BY <1>3, <2>2 DEF RowInv, CountInv, Budget, Stopped
    <3>6. ParkInv(r)'
      BY <1>3, <2>2, <3>1 DEF RowInv, ParkInv, Queued
    <3> QED
      BY <3>4, <3>5, <3>6 DEF RowInv
  <2>4. CASE r \notin Batch
    <3>1. task'[r] = task[r] /\ snap'[r] = snap[r]
      BY <1>11, <2>4 DEF DrainLoad
    <3> QED
      BY <1>2, <1>3, <1>4, <2>2, <3>1, RowKept DEF converted
  <2> QED
    BY <2>3, <2>4
<1>12. ASSUME NEW q \in Rows, q # r,
              Insert(q) \/ Revive(q) \/ Abandon(q) \/ ConvertToDiscard(q) \/ TaskStep(q)
                \/ Process(q) \/ ProcessCheckpoint(q) \/ TaskClaimFails(q) \/ TaskSettleFails(q)
       PROVE  RowInv(r)'
  <2>1. /\ status'[r] = status[r] /\ attempts'[r] = attempts[r] /\ phase'[r] = phase[r]
        /\ abandoned'[r] = abandoned[r] /\ snap'[r] = snap[r] /\ task'[r] = task[r]
        /\ UNCHANGED <<midCrash, restarts, runner>>
    BY <1>1, <1>12 DEF Insert, Revive, Abandon, ConvertToDiscard, DeleteRow, TaskStep, TaskSkip,
       TaskClaim, TaskUnclaimed, TaskSettle, EndTask, Process, ProcessOk, ProcessRetryable,
       ProcessTerminal, ProcessCheckpoint, TaskClaimFails, TaskSettleFails
  <2> QED
    BY <1>2, <1>3, <1>4, <2>1, RowKept DEF converted
<1>13. CASE Insert(r)
  <2>1. /\ status[r] = "unborn" /\ status'[r] = "pending"
        /\ UNCHANGED <<attempts, snap, task, midCrash, restarts, runner>>
    BY <1>1, <1>13 DEF Insert
  <2>2. task[r] = "none" /\ attempts[r] = 0 /\ r \notin midCrash
    BY <1>3, <2>1 DEF RowInv, TaskInv, CountInv, ParkInv
  <2> QED
    BY <1>2, <2>1, <2>2 DEF RowInv, TaskInv, CountInv, ParkInv, Budget, Running
<1>14. CASE Revive(r) \/ Abandon(r) \/ ConvertToDiscard(r)
  <2>1. /\ r \notin Unsafe /\ status[r] \in {"pending", "retry", "conflicted"}
        /\ status'[r] \in {"pending", "retry", "conflicted", "gone"}
        /\ attempts'[r] \in {0, attempts[r]}
        /\ status'[r] \in Queued => attempts'[r] = 0
        /\ UNCHANGED <<snap, task, midCrash, restarts>>
    BY <1>1, <1>14 DEF Revive, Abandon, ConvertToDiscard, Abandonable, DeleteRow, Queued
  <2>2. task[r] \notin Running /\ r \notin midCrash
    BY <1>3, <2>1 DEF RowInv, TaskInv, ParkInv
  <2>3. TaskInv(r)'
    BY <1>3, <2>1, <2>2 DEF RowInv, TaskInv, Budget, Running
  <2>4. CountInv(r)'
    BY <1>1, <1>2, <1>3, <2>1 DEF RowInv, CountInv, Budget
  <2> QED
    BY <2>1, <2>2, <2>3, <2>4 DEF RowInv, ParkInv
<1>15. CASE TaskSkip(r) \/ TaskUnclaimed(r) \/ TaskSettleFails(r)
  <2>1. /\ task[r] # "none" /\ task'[r] = "none"
        /\ UNCHANGED <<status, attempts, phase, abandoned, midCrash, restarts, runner>>
    BY <1>1, <1>15 DEF TaskSkip, TaskUnclaimed, TaskSettleFails, EndTask
  <2> QED
    BY <1>3, <2>1 DEF RowInv, TaskInv, CountInv, ParkInv, Running, Budget, Stopped
<1>16. ASSUME task[r] = "queued", snap'[r] = snap[r] \/ task'[r] = "none",
              task'[r] \in {"none", "running"}, status[r] \in Queued,
              status'[r] = "in_flight", attempts'[r] = snap[r].attempts + 1,
              task'[r] = "running" => (r \in converted' <=> snap[r].converted),
              runner = "live", UNCHANGED <<midCrash, restarts, runner>>
       PROVE  RowInv(r)'
  <2>1. snap[r].attempts + 1 <= Budget /\ Budget \in Nat
    BY <1>1, <1>3, <1>16, Counters DEF RowInv, TaskInv
  <2>2. TaskInv(r)'
    BY <1>1, <1>3, <1>16 DEF RowInv, TaskInv, Running, Budget
  <2>3. CountInv(r)'
    BY <1>16, <2>1 DEF CountInv, Queued, Stopped, Budget
  <2>4. ParkInv(r)'
    BY <1>3, <1>16 DEF RowInv, ParkInv
  <2> QED
    BY <2>2, <2>3, <2>4 DEF RowInv
<1>17. CASE TaskClaim(r)
  <2>1. /\ task[r] = "queued" /\ runner = "live"
        /\ UNCHANGED <<abandoned, snap, phase, midCrash, restarts, runner>>
    BY <1>17 DEF TaskClaim, Stopped
  <2>2. CASE SnapCurrent(r)
    <3>1. status'[r] = "in_flight" /\ attempts'[r] = snap[r].attempts + 1 /\ task'[r] = "running"
      BY <1>1, <1>17, <2>2 DEF TaskClaim
    <3>2. status[r] \in Queued
      BY <1>1, <2>2 DEF SnapCurrent, SnapSet
    <3>3. r \in converted' <=> snap[r].converted
      BY <2>1, <2>2 DEF SnapCurrent, converted
    <3> QED
      BY <1>16, <2>1, <3>1, <3>2, <3>3
  <2>3. CASE ~SnapCurrent(r)
    <3>1. status' = status /\ attempts' = attempts /\ task'[r] = "unclaimed"
      BY <1>1, <1>17, <2>3 DEF TaskClaim
    <3> QED
      BY <1>3, <2>1, <3>1 DEF RowInv, TaskInv, CountInv, ParkInv, Running, Budget, Stopped
  <2> QED
    BY <2>2, <2>3
<1>18. CASE TaskClaimFails(r)
  <2>1. /\ task[r] = "queued" /\ runner = "live" /\ task'[r] = "none"
        /\ UNCHANGED <<abandoned, phase, midCrash, restarts, runner>>
    BY <1>1, <1>18 DEF TaskClaimFails, EndTask, Stopped
  <2>2. CASE status' = status /\ attempts' = attempts
    BY <1>3, <2>1, <2>2 DEF RowInv, TaskInv, CountInv, ParkInv, Running, Budget, Stopped
  <2>3. CASE /\ SnapCurrent(r) /\ status' = [status EXCEPT ![r] = "in_flight"]
             /\ attempts' = [attempts EXCEPT ![r] = snap[r].attempts + 1]
    <3>1. status'[r] = "in_flight" /\ attempts'[r] = snap[r].attempts + 1
      BY <1>1, <2>3
    <3>2. status[r] \in Queued
      BY <1>1, <2>3 DEF SnapCurrent, SnapSet
    <3> QED
      BY <1>16, <2>1, <3>1, <3>2
  <2> QED
    BY <1>18, <2>2, <2>3 DEF TaskClaimFails
<1>19. CASE ProcessCheckpoint(r)
  <2>1. /\ task[r] = "running" /\ attempts'[r] \in {0, attempts[r]}
        /\ UNCHANGED <<status, abandoned, snap, task, midCrash, restarts, runner>>
    BY <1>1, <1>19 DEF ProcessCheckpoint
  <2>2. r \notin midCrash
    BY <1>3, <2>1 DEF RowInv, ParkInv
  <2>3. status[r] = "in_flight"
    BY <1>3, <2>1 DEF RowInv, TaskInv, Running
  <2>4. TaskInv(r)'
    BY <1>1, <1>3, <2>1 DEF RowInv, TaskInv, Running, Budget, converted
  <2>5. CountInv(r)'
    BY <1>1, <1>2, <1>3, <2>1, <2>3 DEF RowInv, CountInv, Queued, Budget, Stopped
  <2> QED
    BY <2>1, <2>2, <2>4, <2>5 DEF RowInv, ParkInv
<1>20. CASE Process(r)
  <2>1. /\ task[r] = "running" /\ task'[r] \in {"ok", "retry", "conflict"}
        /\ task'[r] = "retry" => snap[r].attempts + 1 < MaxAttempts
        /\ UNCHANGED <<status, attempts, phase, abandoned, snap, midCrash, restarts, runner>>
    BY <1>1, <1>2, <1>20 DEF Process, ProcessOk, ProcessRetryable, ProcessTerminal, Exhausted
  <2>2. TaskInv(r)'
    BY <1>1, <1>2, <1>3, <2>1 DEF RowInv, TaskInv, Running, Budget, converted
  <2> QED
    BY <1>3, <2>1, <2>2 DEF RowInv, CountInv, ParkInv, Budget, Stopped
<1>21. CASE TaskSettle(r)
  <2>1. /\ task[r] \in {"ok", "retry", "conflict"} /\ task'[r] = "none"
        /\ midCrash' = midCrash /\ restarts' = restarts /\ runner' = runner
    BY <1>1, <1>21 DEF TaskSettle, EndTask
  <2>2. /\ status'[r] \in {"gone", "conflicted", "retry"}
        /\ attempts'[r] \in {0, attempts[r]}
        /\ status'[r] = "retry" => task[r] = "retry"
    BY <1>1, <1>21 DEF TaskSettle, DeleteRow
  <2>3. r \notin midCrash
    BY <1>3, <2>1 DEF RowInv, ParkInv
  <2>4. TaskInv(r)'
    BY <2>1 DEF TaskInv, Running
  <2>5. CountInv(r)'
    BY <1>1, <1>2, <1>3, <2>1, <2>2 DEF RowInv, TaskInv, CountInv, Queued, Budget
  <2> QED
    BY <2>1, <2>3, <2>4, <2>5 DEF RowInv, ParkInv
<1> QED
  BY <1>5, <1>6, <1>7, <1>8, <1>9, <1>10, <1>11, <1>12, <1>13, <1>14, <1>15, <1>17, <1>18,
     <1>19, <1>20, <1>21 DEF Next, TaskStep, DrainStep, StartStep

\* A task appears when none exists, passes its place when the lane lets it, and
\* goes.
LEMMA TaskMoves ==
  ASSUME TypeOK, Barrier, [Next]_vars, NEW r \in Rows
  PROVE  \/ task'[r] = task[r]
         \/ task'[r] = "none"
         \/ task'[r] = "queued" /\ \A q \in Rows : task[q] = "none"
         \/ task[r] = "queued" /\ LaneTurn(r)
         \/ task[r] \in Running /\ task'[r] \in Running
<1> USE DEF timerVars, drainVars, boundVars
<1>1. task \in [Rows -> Tasks]
  BY TypeParts DEF TaskType
<1>2. CASE \/ NotifyTimerFires \/ WakeTimerFires \/ BootNotify \/ DrainRequest \/ DrainEmpty
           \/ DrainArmWake \/ DrainFails \/ DrainWaveDone \/ DrainStopped \/ UNCHANGED vars
           \/ Stop \/ StopDone \/ RecoverFails \/ RecoverConflict \/ RecoverReset
  BY <1>2 DEF NotifyTimerFires, WakeTimerFires, BootNotify, DrainRequest, DrainEmpty,
     DrainArmWake, DrainFails, DrainWaveDone, DrainStopped, Stop, StopDone, RecoverFails,
     RecoverConflict, RecoverReset, vars
<1>3. CASE Crash \/ Start
  BY <1>3 DEF Crash, Start, NewRunner
<1>4. CASE DrainLoad
  BY <1>4 DEF DrainLoad, Barrier
<1>5. ASSUME NEW c \in Callers, CallStep(c) PROVE task' = task
  BY <1>5 DEF CallStep, CallLoad, CallRegister, CallLeave, CallRecheck
<1>6. ASSUME NEW q \in Rows, \/ InsertHook(q) \/ BackoffElapses(q) \/ Insert(q) \/ Revive(q)
                             \/ Abandon(q) \/ ConvertToDiscard(q) \/ ProcessCheckpoint(q)
      PROVE  task' = task
  BY <1>6 DEF InsertHook, BackoffElapses, Insert, Revive, Abandon, ConvertToDiscard,
     ProcessCheckpoint
<1>7. ASSUME NEW q \in Rows, q # r,
             TaskStep(q) \/ Process(q) \/ TaskClaimFails(q) \/ TaskSettleFails(q)
      PROVE  task'[r] = task[r]
  BY <1>1, <1>7 DEF TaskStep, TaskSkip, TaskClaim, TaskUnclaimed, TaskSettle, EndTask, Process,
     ProcessOk, ProcessRetryable, ProcessTerminal, TaskClaimFails, TaskSettleFails
<1>8. CASE TaskSkip(r) \/ TaskUnclaimed(r) \/ TaskSettle(r) \/ TaskClaimFails(r)
           \/ TaskSettleFails(r)
  BY <1>1, <1>8 DEF TaskSkip, TaskUnclaimed, TaskSettle, EndTask, TaskClaimFails,
     TaskSettleFails
<1>9. CASE TaskClaim(r)
  BY <1>9 DEF TaskClaim
<1>10. CASE Process(r)
  BY <1>1, <1>10 DEF Process, ProcessOk, ProcessRetryable, ProcessTerminal, Running
<1> QED
  BY <1>2, <1>3, <1>4, <1>5, <1>6, <1>7, <1>8, <1>9, <1>10 DEF Next, TaskStep, DrainStep,
     StartStep

\* A pass becomes a wave by loading it and stops being one when its tasks are gone.
\* It begins under a live runner.
LEMMA DrainMoves ==
  ASSUME TypeOK, Barrier, [Next]_vars
  PROVE  /\ drain' # "wave" => (drain # "wave" /\ task' = task) \/ \A r \in Rows : task'[r] = "none"
         /\ drain' = "wave" => drain = "wave" \/ drain = "loading"
         /\ drain' = "idle" \/ drain' = drain \/ runner \in Alive
<1> USE DEF timerVars, drainVars, boundVars
<1> DEFINE Moved ==
      /\ drain' # "wave" => (drain # "wave" /\ task' = task) \/ \A r \in Rows : task'[r] = "none"
      /\ drain' = "wave" => drain = "wave" \/ drain = "loading"
      /\ drain' = "idle" \/ drain' = drain \/ runner \in Alive
<1> SUFFICES Moved
  OBVIOUS
<1>0. ASSUME task' = task, drain' = drain PROVE Moved
  BY <1>0 DEF Barrier
<1>1. CASE NotifyTimerFires \/ WakeTimerFires \/ DrainRequest
  <2>1. KickDrain /\ task' = task
    BY <1>1 DEF NotifyTimerFires, WakeTimerFires, DrainRequest
  <2> QED
    BY <2>1, KickMoves DEF Barrier, Alive
<1>2. ASSUME NEW r \in Rows, InsertHook(r) PROVE Moved
  <2>1. Notify(FALSE) /\ task' = task
    BY <1>2 DEF InsertHook
  <2> QED
    BY <1>0, <2>1, NotifyMoves
<1>3. CASE BootNotify
  <2>1. Notify(FALSE) /\ task' = task
    BY <1>3 DEF BootNotify
  <2>2. drain' = drain
    BY <2>1, NotifyMoves
  <2> QED
    BY <1>0, <2>1, <2>2
<1>4. ASSUME NEW c \in Callers, CallStep(c)
      PROVE  Moved
  <2>1. CASE CallRecheck(c)
    <3>1. Notify(TRUE) /\ task' = task
      BY <2>1 DEF CallRecheck
    <3> QED
      BY <1>0, <3>1, NotifyMoves DEF Barrier, Alive
  <2>2. CASE CallLoad(c) \/ CallRegister(c) \/ CallLeave(c)
    BY <1>0, <2>2 DEF CallLoad, CallRegister, CallLeave
  <2> QED
    BY <1>4, <2>1, <2>2 DEF CallStep
<1>5. CASE DrainArmWake \/ DrainFails \/ DrainStopped
  <2>1. EndDrain /\ task' = task /\ drain \in {"loading", "waking"}
    BY <1>5 DEF DrainArmWake, DrainFails, DrainStopped
  <2> QED
    BY <2>1, EndMoves DEF Barrier, Alive
<1>6. CASE DrainLoad
  BY <1>6 DEF DrainLoad, Barrier, Alive, Stopped
<1>7. CASE DrainEmpty \/ DrainWaveDone
  <2>1. task' = task /\ runner \in Alive
    BY <1>7 DEF DrainEmpty, DrainWaveDone, Barrier
  <2> QED
    BY <1>7, <2>1 DEF DrainEmpty, DrainWaveDone
<1>8. CASE Crash \/ Start
  BY <1>8 DEF Crash, Start, NewRunner
<1>9. CASE Stop \/ StopDone \/ RecoverFails \/ RecoverConflict \/ RecoverReset \/ UNCHANGED vars
  <2>1. task' = task /\ drain' = drain
    BY <1>9 DEF Stop, StopDone, RecoverFails, RecoverConflict, RecoverReset, vars
  <2> QED
    BY <1>0, <2>1
<1>10. ASSUME NEW r \in Rows, \/ BackoffElapses(r) \/ Insert(r) \/ Revive(r) \/ Abandon(r)
                              \/ ConvertToDiscard(r) \/ ProcessCheckpoint(r)
       PROVE  Moved
  BY <1>0, <1>10 DEF BackoffElapses, Insert, Revive, Abandon, ConvertToDiscard, ProcessCheckpoint
<1>11. ASSUME NEW r \in Rows, \/ TaskStep(r) \/ Process(r) \/ TaskClaimFails(r)
                              \/ TaskSettleFails(r)
       PROVE  Moved
  <2>1. drain' = drain /\ task[r] # "none"
    BY <1>11 DEF TaskStep, TaskSkip, TaskClaim, TaskUnclaimed, TaskSettle, EndTask, Process,
       ProcessOk, ProcessRetryable, ProcessTerminal, TaskClaimFails, TaskSettleFails
  <2> QED
    BY <2>1 DEF Barrier
<1> HIDE DEF Moved
<1> QED
  BY <1>1, <1>2, <1>3, <1>4, <1>5, <1>6, <1>7, <1>8, <1>9, <1>10, <1>11 DEF Next, DrainStep,
     StartStep

\* The runner leaves life through a stop that waits, or through a crash.
LEMMA RunnerMoves ==
  ASSUME TypeOK, Barrier, [Next]_vars
  PROVE  /\ runner' \notin Alive => runner' = runner \/ drain' = "idle"
         /\ runner' # runner => \/ Stop \/ StopDone \/ Crash \/ Start
                                \/ RecoverConflict \/ RecoverReset \/ RecoverFails
<1> USE DEF timerVars, drainVars, boundVars
<1>1. CASE Stop
  BY <1>1 DEF Stop, StopWaits, Alive
<1>2. CASE StopDone \/ Crash \/ Start
  BY <1>2 DEF StopDone, Crash, Start, NewRunner
<1>3. CASE RecoverConflict \/ RecoverReset \/ RecoverFails
  BY <1>3 DEF RecoverConflict, RecoverReset, RecoverFails, Alive, Barrier
<1>4. CASE NotifyTimerFires \/ WakeTimerFires \/ DrainRequest \/ DrainStep \/ DrainFails
           \/ BootNotify \/ UNCHANGED vars
  BY <1>4 DEF NotifyTimerFires, WakeTimerFires, DrainRequest, DrainStep, DrainLoad, DrainEmpty,
     DrainArmWake, DrainWaveDone, DrainStopped, DrainFails, BootNotify, vars
<1>5. ASSUME NEW c \in Callers, CallStep(c) PROVE runner' = runner
  BY <1>5 DEF CallStep, CallLoad, CallRegister, CallLeave, CallRecheck
<1>6. ASSUME NEW r \in Rows, \/ Insert(r) \/ InsertHook(r) \/ Revive(r) \/ Abandon(r)
                             \/ ConvertToDiscard(r) \/ BackoffElapses(r)
      PROVE  runner' = runner
  BY <1>6 DEF Insert, InsertHook, Revive, Abandon, ConvertToDiscard, BackoffElapses
<1>7. ASSUME NEW r \in Rows, \/ TaskStep(r) \/ Process(r) \/ ProcessCheckpoint(r)
                             \/ TaskClaimFails(r) \/ TaskSettleFails(r)
      PROVE  runner' = runner
  BY <1>7 DEF TaskStep, TaskSkip, TaskClaim, TaskUnclaimed, TaskSettle, EndTask, Process,
     ProcessOk, ProcessRetryable, ProcessTerminal, ProcessCheckpoint, TaskClaimFails,
     TaskSettleFails
<1> QED
  BY <1>1, <1>2, <1>3, <1>4, <1>5, <1>6, <1>7 DEF Next, StartStep

\* The barrier between waves, and the chains within them.
LEMMA LaneNext ==
  ASSUME TypeOK, Barrier, LaneOrder, [Next]_vars
  PROVE  Barrier' /\ LaneOrder'
<1>1. Barrier'
  <2>1. drain' # "wave" => \A r \in Rows : task'[r] = "none"
    BY DrainMoves DEF Barrier
  <2>2. runner' \notin Alive => drain' = "idle"
    BY DrainMoves, RunnerMoves DEF Barrier
  <2> QED
    BY <2>1, <2>2 DEF Barrier
<1>2. LaneOrder'
  <2> SUFFICES ASSUME NEW q \in Rows, NEW r \in Rows, q < r, LaneOf[q] = LaneOf[r],
                      task'[r] \in Running \cup {"unclaimed"}
               PROVE  task'[q] = "none"
    BY DEF LaneOrder, Running
  <2>1. task[r] # "none" /\ task[q] = "none"
    BY TaskMoves DEF LaneOrder, LaneTurn, Running
  <2>2. \/ task'[q] = task[q] \/ task'[q] = "none"
        \/ \A s \in Rows : task[s] = "none"
        \/ task[q] \in Running \cup {"queued"}
    BY TaskMoves
  <2> QED
    BY <2>1, <2>2 DEF Running
<1> QED
  BY <1>1, <1>2

(***************************************************************************)
(* Calls.                                                                  *)
(***************************************************************************)
\* A row that is gone, or parked and never to be replayed, remains so, and only a
\* task, an abandon or the recovery settles one.
LEMMA StatusMoves ==
  ASSUME TypeOK, \A q \in Rows : RowInv(q), [Next]_vars, NEW r \in Rows
  PROVE  /\ status[r] # "unborn" => status'[r] # "unborn"
         /\ status[r] = "gone" => status'[r] = "gone"
         /\ status[r] = "conflicted" /\ r \in Unsafe => status'[r] = "conflicted"
         /\ status[r] \in Live /\ status'[r] \notin Live =>
              TaskSettle(r) \/ Abandon(r) \/ RecoverConflict
<1> USE DEF rowVars, timerVars, drainVars, boundVars
<1> DEFINE Moved ==
      /\ status[r] # "unborn" => status'[r] # "unborn"
      /\ status[r] = "gone" => status'[r] = "gone"
      /\ status[r] = "conflicted" /\ r \in Unsafe => status'[r] = "conflicted"
      /\ status[r] \in Live /\ status'[r] \notin Live =>
           TaskSettle(r) \/ Abandon(r) \/ RecoverConflict
<1> SUFFICES Moved
  OBVIOUS
<1>0. ASSUME status'[r] = status[r] PROVE Moved
  BY <1>0
<1>1. status \in [Rows -> Statuses] /\ snap[r] \in SnapSet
  BY TypeParts DEF RowType, TaskType
<1>2. CASE \/ NotifyTimerFires \/ WakeTimerFires \/ BootNotify \/ DrainRequest \/ DrainStep
           \/ DrainFails \/ Stop \/ StopDone \/ Start \/ RecoverFails \/ Crash \/ UNCHANGED vars
  BY <1>0, <1>2 DEF NotifyTimerFires, WakeTimerFires, BootNotify, DrainRequest, DrainStep,
     DrainLoad, DrainEmpty, DrainArmWake, DrainWaveDone, DrainStopped, DrainFails, Stop,
     StopDone, Start, RecoverFails, Crash, vars
<1>3. ASSUME NEW c \in Callers, CallStep(c) PROVE Moved
  BY <1>0, <1>3 DEF CallStep, CallLoad, CallRegister, CallLeave, CallRecheck
<1>4. ASSUME NEW q \in Rows, \/ InsertHook(q) \/ BackoffElapses(q) \/ ProcessCheckpoint(q)
                             \/ Process(q) \/ TaskSkip(q) \/ TaskUnclaimed(q) \/ TaskSettleFails(q)
      PROVE  Moved
  BY <1>0, <1>4 DEF InsertHook, BackoffElapses, ProcessCheckpoint, Process, ProcessOk,
     ProcessRetryable, ProcessTerminal, TaskSkip, TaskUnclaimed, TaskSettleFails
<1>5. ASSUME NEW q \in Rows, q # r, \/ Insert(q) \/ Revive(q) \/ Abandon(q) \/ ConvertToDiscard(q)
                                    \/ TaskClaim(q) \/ TaskClaimFails(q) \/ TaskSettle(q)
      PROVE  Moved
  <2>1. status'[r] = status[r]
    BY <1>1, <1>5 DEF Insert, Revive, Abandon, ConvertToDiscard, DeleteRow, TaskClaim,
       TaskClaimFails, TaskSettle
  <2> QED
    BY <1>0, <2>1
<1>6. CASE Insert(r) \/ Revive(r) \/ ConvertToDiscard(r)
  <2>1. /\ status[r] # "gone" /\ status'[r] \in {"pending", "retry"}
        /\ status[r] = "conflicted" => r \notin Unsafe
    BY <1>1, <1>6 DEF Insert, Revive, ConvertToDiscard, Abandonable
  <2> QED
    BY <2>1 DEF Live
<1>7. CASE Abandon(r)
  <2>1. status[r] # "gone" /\ r \notin Unsafe /\ status'[r] \in {"gone", "conflicted"}
    BY <1>1, <1>7 DEF Abandon, Abandonable, DeleteRow
  <2> QED
    BY <1>7, <2>1
<1>8. CASE TaskClaim(r) \/ TaskClaimFails(r)
  <2>1. status'[r] = status[r] \/ (status[r] \in Queued /\ status'[r] = "in_flight")
    BY <1>1, <1>8 DEF TaskClaim, TaskClaimFails, SnapCurrent, SnapSet
  <2> QED
    BY <1>0, <2>1 DEF Queued, Live
<1>9. CASE TaskSettle(r)
  <2>1. task[r] \in Running /\ status'[r] \in {"gone", "conflicted", "retry"}
    BY <1>1, <1>9 DEF TaskSettle, DeleteRow, Running
  <2>2. status[r] = "in_flight"
    BY <2>1 DEF RowInv, TaskInv
  <2> QED
    BY <1>9, <2>1, <2>2
<1>10. CASE RecoverConflict
  BY <1>10 DEF RecoverConflict, Interrupted
<1>11. CASE RecoverReset
  BY <1>11 DEF RecoverReset, Live
<1> QED
  BY <1>2, <1>3, <1>4, <1>5, <1>6, <1>7, <1>8, <1>9, <1>10, <1>11 DEF Next, TaskStep, StartStep

\* A step that leaves a caller alone keeps what is known of it.
LEMMA CallKept ==
  ASSUME TypeOK, \A q \in Rows : RowInv(q), [Next]_vars, NEW c \in Callers, CallInv(c),
         call'[c] = call[c],
         call[c].pc = "waiting" => status'[call[c].row] \in Live,
         runner' = runner \/ call[c].pc \in {"idle", "done"}
                          \/ (call[c].pc \in {"registered", "waiting"} /\ runner' \in Alive)
                          \/ (call[c].pc = "leaving" /\ runner' \in {"stopping", "stopped"})
  PROVE  CallInv(c)'
<1>1. call[c].row \in Rows
  BY TypeParts DEF CallType, CallSet
<1>2. /\ status[call[c].row] # "unborn" => status'[call[c].row] # "unborn"
      /\ status[call[c].row] = "gone" => status'[call[c].row] = "gone"
      /\ status[call[c].row] = "conflicted" /\ call[c].row \in Unsafe =>
           status'[call[c].row] = "conflicted"
  <2> DEFINE r == call[c].row
  <2>1. PICK q \in Rows : q = r
    BY <1>1
  <2> QED
    BY <2>1, StatusMoves
<1> QED
  BY <1>2 DEF CallInv

\* Every step keeps what is known of a caller.
LEMMA CallNext ==
  ASSUME TypeOK, Barrier, \A q \in Rows : RowInv(q), \A d \in Callers : CallInv(d),
         [Next]_vars, NEW c \in Callers
  PROVE  CallInv(c)'
<1> USE DEF rowVars, timerVars, drainVars, boundVars
<1>1. /\ call[c] \in CallSet /\ call[c].row \in Rows /\ call \in [Callers -> CallSet]
      /\ status[call[c].row] \in Statuses /\ status \in [Rows -> Statuses]
      /\ task \in [Rows -> Tasks]
  BY TypeParts DEF CallType, CallSet, RowType, TaskType
<1>2. PICK r \in Rows : r = call[c].row
  BY <1>1
<1>3. CallInv(c)
  OBVIOUS
<1>4. CASE \/ NotifyTimerFires \/ WakeTimerFires \/ BootNotify \/ DrainRequest \/ DrainStep
           \/ DrainFails \/ UNCHANGED vars
  <2>1. call' = call /\ runner' = runner /\ status' = status
    BY <1>4 DEF NotifyTimerFires, WakeTimerFires, BootNotify, DrainRequest, DrainStep,
       DrainLoad, DrainEmpty, DrainArmWake, DrainWaveDone, DrainStopped, DrainFails, vars
  <2> QED
    BY <1>3, <2>1, CallKept DEF CallInv
<1>5. ASSUME NEW q \in Rows, \/ InsertHook(q) \/ BackoffElapses(q) \/ ProcessCheckpoint(q)
                             \/ Process(q) \/ TaskSkip(q) \/ TaskSettleFails(q)
      PROVE  CallInv(c)'
  <2>1. call' = call /\ runner' = runner /\ status' = status
    BY <1>5 DEF InsertHook, BackoffElapses, ProcessCheckpoint, Process, ProcessOk,
       ProcessRetryable, ProcessTerminal, TaskSkip, TaskSettleFails
  <2> QED
    BY <1>3, <2>1, CallKept DEF CallInv
<1>6. ASSUME NEW q \in Rows, \/ Insert(q) \/ Revive(q) \/ ConvertToDiscard(q)
                             \/ TaskClaim(q) \/ TaskClaimFails(q)
      PROVE  CallInv(c)'
  <2>1. call' = call /\ runner' = runner
    BY <1>6 DEF Insert, Revive, ConvertToDiscard, TaskClaim, TaskClaimFails
  <2>2. status'[r] = status[r] \/ status'[r] \in Live
    BY <1>1, <1>6 DEF Insert, Revive, ConvertToDiscard, TaskClaim, TaskClaimFails, Live
  <2>3. call[c].pc = "waiting" => status'[call[c].row] \in Live
    BY <1>2, <1>3, <2>2 DEF CallInv
  <2> QED
    BY <1>3, <2>1, <2>3, CallKept
<1>7. ASSUME NEW q \in Rows, Abandon(q) PROVE CallInv(c)'
  <2>1. call' = call /\ runner' = runner
    BY <1>7 DEF Abandon
  <2>2. call[c].pc = "waiting" => q # r
    BY <1>2, <1>7 DEF Abandon, Abandonable
  <2>3. q # r => status'[r] = status[r]
    BY <1>1, <1>7 DEF Abandon, DeleteRow
  <2>4. call[c].pc = "waiting" => status'[call[c].row] \in Live
    BY <1>2, <1>3, <2>2, <2>3 DEF CallInv
  <2> QED
    BY <1>3, <2>1, <2>4, CallKept
<1>8. ASSUME NEW q \in Rows, TaskSettle(q) PROVE CallInv(c)'
  <2>1. runner' = runner /\ (q # r => status'[r] = status[r])
    BY <1>1, <1>8 DEF TaskSettle, DeleteRow
  <2>2. CASE q = r /\ task[q] # "retry" /\ call[c].pc \in {"registered", "waiting"}
    <3>1. \/ call' = Resolved(q, "ok") /\ status'[q] = "gone"
          \/ call' = Resolved(q, "failed") /\ status'[q] = "conflicted"
      BY <1>1, <1>8, <2>2 DEF TaskSettle, DeleteRow
    <3>2. /\ call'[c].row = call[c].row /\ call'[c].pc = "done"
          /\ \/ call'[c].answer = "ok" /\ status'[r] = "gone"
             \/ call'[c].answer = "failed" /\ status'[r] = "conflicted"
      BY <1>2, <2>2, <3>1, ResolvedTyped DEF Answers
    <3> QED
      BY <1>2, <3>2 DEF CallInv
  <2>3. CASE ~(q = r /\ task[q] # "retry" /\ call[c].pc \in {"registered", "waiting"})
    <3>1. \/ call' = Resolved(q, "ok") /\ task[q] # "retry"
          \/ call' = Resolved(q, "failed") /\ task[q] # "retry"
          \/ call' = call /\ status'[q] = "retry"
      BY <1>1, <1>8 DEF TaskSettle
    <3>2. call'[c] = call[c]
      BY <1>2, <2>3, <3>1, ResolvedTyped DEF Answers
    <3>3. call[c].pc = "waiting" => status'[r] \in Live
      BY <1>2, <1>3, <2>1, <2>3, <3>1 DEF CallInv, Live
    <3> QED
      BY <1>2, <1>3, <2>1, <3>2, <3>3, CallKept
  <2> QED
    BY <2>2, <2>3
<1>9. ASSUME NEW q \in Rows, TaskUnclaimed(q) PROVE CallInv(c)'
  <2>1. runner' = runner /\ status' = status
    BY <1>9 DEF TaskUnclaimed
  <2>2. status[q] \in Statuses \ {"unborn"}
    BY <1>1, <1>9 DEF TaskUnclaimed, RowInv, TaskInv
  <2>3. \/ call' = Resolved(q, "ok") /\ status[q] = "gone"
        \/ call' = Resolved(q, "failed") /\ status[q] = "conflicted"
        \/ call' = call
    BY <1>9, <2>2 DEF TaskUnclaimed, Statuses, Live
  <2>4. \/ call'[c] = call[c]
        \/ /\ call'[c].row = call[c].row /\ call[c].row = q /\ call'[c].pc = "done"
           /\ \/ call'[c].answer = "ok" /\ status[q] = "gone"
              \/ call'[c].answer = "failed" /\ status[q] = "conflicted"
    BY <2>3, ResolvedTyped DEF Answers
  <2>5. CASE call'[c] = call[c]
    BY <1>3, <2>1, <2>5, CallKept DEF CallInv
  <2>6. CASE call'[c] # call[c]
    BY <2>1, <2>4, <2>6 DEF CallInv
  <2> QED
    BY <2>5, <2>6
<1>10. ASSUME NEW d \in Callers, CallStep(d) PROVE CallInv(c)'
  <2>1. runner' = runner /\ status' = status
    BY <1>10 DEF CallStep, CallLoad, CallRegister, CallLeave, CallRecheck
  <2>2. ASSUME call'[c] = call[c] PROVE CallInv(c)'
    BY <1>3, <2>1, <2>2, CallKept DEF CallInv
  <2>3. CASE CallRecheck(d)
    <3>1. call[d] \in CallSet /\ call[d].row \in Rows /\ call[d].pc = "registered"
      BY <1>1, <2>3 DEF CallRecheck, CallSet
    <3>2. status[call[d].row] \in Statuses \ {"unborn"} /\ runner \in Alive
      BY <1>1, <3>1 DEF CallInv
    <3>3. PICK q \in Rows : q = call[d].row
      BY <3>1
    <3>4. \/ call' = Resolved(q, "ok") /\ status[q] = "gone"
          \/ call' = Resolved(q, "failed") /\ status[q] = "conflicted"
          \/ call' = [call EXCEPT ![d].pc = "waiting"] /\ status[q] \in Live
      BY <2>3, <3>2, <3>3 DEF CallRecheck, SecondLook, Statuses, Live
    <3>5. CASE call' = [call EXCEPT ![d].pc = "waiting"] /\ status[q] \in Live
      <4>1. CASE c = d
        <5>1. /\ call'[c].row = call[c].row /\ call'[c].pc = "waiting"
              /\ call'[c].answer = call[c].answer
          BY <1>1, <3>5, <4>1 DEF CallSet
        <5> QED
          BY <1>3, <2>1, <3>2, <3>3, <3>5, <4>1, <5>1 DEF CallInv
      <4>2. CASE c # d
        BY <1>1, <2>2, <3>5, <4>2
      <4> QED
        BY <4>1, <4>2
    <3>6. CASE \/ call' = Resolved(q, "ok") /\ status[q] = "gone"
               \/ call' = Resolved(q, "failed") /\ status[q] = "conflicted"
      <4>1. \/ call'[c] = call[c]
            \/ /\ call'[c].row = call[c].row /\ call[c].row = q /\ call'[c].pc = "done"
               /\ \/ call'[c].answer = "ok" /\ status[q] = "gone"
                  \/ call'[c].answer = "failed" /\ status[q] = "conflicted"
        BY <3>6, ResolvedTyped DEF Answers
      <4>2. CASE call'[c] # call[c]
        BY <2>1, <4>1, <4>2 DEF CallInv
      <4> QED
        BY <2>2, <4>2
    <3> QED
      BY <3>4, <3>5, <3>6
  <2>4. CASE c # d /\ ~CallRecheck(d)
    <3> SUFFICES call'[c] = call[c]
      BY <2>2
    <3>1. ASSUME NEW a, Answer(d, a) PROVE call'[c] = call[c]
      BY <1>1, <2>4, <3>1 DEF Answer
    <3>2. CASE CallLoad(d)
      <4>1. status[call[d].row] \in Statuses \ {"unborn"}
        BY <1>1, <3>2 DEF CallLoad, CallSet
      <4>2. \/ Answer(d, "zero") \/ Answer(d, "ok") \/ Answer(d, "failed")
            \/ call' = [call EXCEPT ![d].pc = "loaded"]
        BY <3>2, <4>1 DEF CallLoad, Stopped, Statuses, Live
      <4> QED
        BY <1>1, <2>4, <3>1, <4>2
    <3>3. CASE CallLeave(d)
      BY <3>1, <3>3 DEF CallLeave
    <3>4. CASE CallRegister(d)
      BY <1>1, <2>4, <3>4 DEF CallRegister
    <3> QED
      BY <1>10, <2>4, <3>2, <3>3, <3>4 DEF CallStep
  <2>5. CASE c = d /\ CallLoad(c)
    <3>1. status[r] \in Statuses \ {"unborn"} /\ call[c].pc = "idle"
      BY <1>1, <1>2, <2>5 DEF CallLoad
    <3>2. \/ Answer(c, "zero")
          \/ Answer(c, "ok") /\ status[r] = "gone"
          \/ Answer(c, "failed") /\ status[r] = "conflicted"
          \/ call' = [call EXCEPT ![c].pc = "loaded"] /\ runner = "live"
      BY <1>2, <2>5, <3>1 DEF CallLoad, Stopped, Statuses, Live
    <3>3. /\ call'[c].row = r
          /\ \/ /\ call'[c].pc = "done"
                /\ \/ call'[c].answer = "zero"
                   \/ call'[c].answer = "ok" /\ status[r] = "gone"
                   \/ call'[c].answer = "failed" /\ status[r] = "conflicted"
             \/ call'[c].pc = "loaded" /\ runner = "live" /\ call'[c].answer = call[c].answer
      BY <1>1, <1>2, <3>2, AnswerTyped DEF Answers, CallSet
    <3> QED
      BY <1>2, <1>3, <2>1, <3>1, <3>3 DEF CallInv
  <2>6. CASE c = d /\ CallRegister(c)
    <3>1. /\ call'[c].row = r /\ call'[c].pc = "registered" /\ call[c].pc = "loaded"
          /\ call'[c].answer = call[c].answer
      BY <1>1, <1>2, <2>6 DEF CallRegister, CallSet
    <3> QED
      BY <1>2, <1>3, <2>1, <3>1 DEF CallInv, Alive
  <2>7. CASE c = d /\ CallLeave(c)
    <3>1. PICK a \in {"outcomeUnknown", "stopped"} : Answer(c, a)
      BY <2>7 DEF CallLeave, StoppedAnswer
    <3>2. call'[c].row = r /\ call'[c].pc = "done" /\ call'[c].answer = a
      BY <1>2, <3>1, AnswerTyped DEF Answers
    <3>3. call[c].pc = "leaving"
      BY <2>7 DEF CallLeave
    <3> QED
      BY <1>2, <1>3, <2>1, <3>1, <3>2, <3>3 DEF CallInv
  <2> QED
    BY <1>10, <2>3, <2>4, <2>5, <2>6, <2>7 DEF CallStep
<1>11. ASSUME AnswerStopped, runner' = "stopped", status' = status PROVE CallInv(c)'
  <2>1. /\ call'[c].row = r
        /\ call[c].pc \in {"registered", "waiting"} =>
             call'[c].pc = "done" /\ call'[c].answer \in {"outcomeUnknown", "stopped"}
        /\ call[c].pc = "loaded" => call'[c].pc = "leaving" /\ call'[c].answer = call[c].answer
        /\ call[c].pc \in {"idle", "leaving", "done"} => call'[c] = call[c]
    BY <1>2, <1>11, AnswerStoppedTyped
  <2>2. call[c].pc \in {"idle", "loaded", "leaving", "registered", "waiting", "done"}
    BY <1>1 DEF CallSet
  <2> QED
    BY <1>2, <1>3, <1>11, <2>1, <2>2 DEF CallInv
<1>12. CASE Stop
  <2>1. CASE ~StopWaits
    BY <1>11, <1>12, <2>1 DEF Stop
  <2>2. CASE StopWaits
    <3>1. /\ runner = "live" /\ runner' = "stopping" /\ status' = status
          /\ call'[c] = IF call[c].pc = "loaded" THEN [call[c] EXCEPT !.pc = "leaving"]
                        ELSE call[c]
      BY <1>12, <2>2 DEF Stop
    <3>2. /\ call'[c].row = r /\ call'[c].answer = call[c].answer
          /\ call'[c].pc = IF call[c].pc = "loaded" THEN "leaving" ELSE call[c].pc
      BY <1>1, <1>2, <3>1 DEF CallSet
    <3> QED
      BY <1>2, <1>3, <3>1, <3>2 DEF CallInv, Alive
  <2> QED
    BY <2>1, <2>2
<1>13. CASE StopDone
  BY <1>11, <1>13 DEF StopDone
<1>14. CASE Crash
  <2>1. /\ status' = status
        /\ call'[c] = IF call[c].pc \in {"idle", "done"} THEN call[c]
                      ELSE [call[c] EXCEPT !.pc = "done", !.answer = "lost"]
    BY <1>14 DEF Crash
  <2>2. /\ call'[c].row = r
        /\ \/ call'[c] = call[c] /\ call[c].pc \in {"idle", "done"}
           \/ call'[c].pc = "done" /\ call'[c].answer = "lost" /\ call[c].pc # "idle"
    BY <1>1, <1>2, <2>1 DEF CallSet
  <2> QED
    BY <1>2, <1>3, <2>1, <2>2 DEF CallInv
<1>15. CASE Start \/ RecoverConflict \/ RecoverReset \/ RecoverFails
  <2>1. call' = call /\ runner \notin Alive /\ (runner = "stopped" => call[c].pc # "leaving")
    BY <1>15 DEF Start, RecoverConflict, RecoverReset, RecoverFails, Alive
  <2>2. call[c].pc \in {"idle", "done"}
    BY <1>1, <1>3, <1>15, <2>1 DEF CallInv, Alive, CallSet, Start, RecoverConflict,
       RecoverReset, RecoverFails
  <2> QED
    BY <1>3, <2>1, <2>2, CallKept
<1> QED
  BY <1>4, <1>5, <1>6, <1>7, <1>8, <1>9, <1>10, <1>12, <1>13, <1>14, <1>15 DEF Next, TaskStep,
     StartStep

\* The ready rows before a row in the queue.
Before(r) == {q \in Rows : Ready(q) /\ q < r}

\* The query that loads a batch finds something whenever a row is ready: the least
\* ready row has nothing before it.
LEMMA BatchFinds ==
  ASSUME NEW s \in Rows, Ready(s)
  PROVE  Batch # {}
<1> DEFINE T == {Before(r) : r \in {q \in Rows : Ready(q)}}
<1>1. \A r \in Rows : Before(r) \in FiniteSubsetsOf(Rows)
  BY RowsAssumption, FS_Subset DEF Before, FiniteSubsetsOf
<1>2. T \subseteq FiniteSubsetsOf(Rows) /\ T # {}
  BY <1>1
<1>3. \E x \in T : \A y \in T : ~ (<<y, x>> \in StrictSubsetOrdering(Rows))
  <2> HIDE DEF T
  <2> QED
    BY <1>2, FS_StrictSubsetOrderingWellFounded, WFMin
<1>4. PICK r \in Rows :
        Ready(r) /\ \A q \in Rows :
          Ready(q) => <<Before(q), Before(r)>> \notin StrictSubsetOrdering(Rows)
  BY <1>3
<1>5. Before(r) = {}
  <2> SUFFICES ASSUME NEW q \in Before(r) PROVE FALSE
    OBVIOUS
  <2>1. q \in Rows /\ Ready(q) /\ q < r /\ q \in Nat /\ r \in Nat
    BY RowsAssumption DEF Before
  <2>2. Before(q) \subseteq Before(r)
    <3> SUFFICES ASSUME NEW x \in Before(q) PROVE x \in Before(r)
      OBVIOUS
    <3>1. x \in Rows /\ Ready(x) /\ x < q
      BY DEF Before
    <3>2. x \in Nat
      BY <3>1, RowsAssumption
    <3>3. x < r
      BY <2>1, <3>1, <3>2
    <3> QED
      BY <3>1, <3>3 DEF Before
  <2>3. q \notin Before(q)
    BY <2>1 DEF Before
  <2>4. <<Before(q), Before(r)>> \in StrictSubsetOrdering(Rows)
    <3>1. <<Before(q), Before(r)>> \in (SUBSET Rows) \X (SUBSET Rows)
      BY DEF Before
    <3> QED
      BY <2>2, <2>3, <3>1 DEF StrictSubsetOrdering
  <2> QED
    BY <1>4, <2>1, <2>4
<1>6. Cardinality({q \in Rows : Ready(q) /\ q < r}) = 0
  BY <1>5, FS_EmptySet DEF Before
<1> QED
  BY <1>4, <1>6, BoundsAssumption DEF Batch

\* Every step leaves a row that waits with somebody to wake the runner.
LEMMA WakeNext ==
  ASSUME TypeOK, Barrier, \A c \in Callers : CallInv(c), WakingCovered, WakeCovered,
         [Next]_vars
  PROVE  WakingCovered' /\ WakeCovered'
<1> USE DEF timerVars, drainVars, boundVars
<1> DEFINE Covered == WakingCovered' /\ WakeCovered'
<1> SUFFICES Covered
  OBVIOUS
<1>1. ASSUME \/ runner' # "live" \/ drain' \notin {"waking", "idle"} \/ hook' # {}
             \/ dbFailures' # 0 \/ \E c \in Callers : call'[c].pc = "registered"
      PROVE  Covered
  BY <1>1 DEF WakingCovered, WakeCovered, Waker
<1>2. ASSUME UNCHANGED <<runner, drain, dbFailures, kickPending, bootDue, notifyTimer,
                         wakeTimer, hook>>,
             \A r \in Rows : status'[r] \in Queued =>
               status[r] \in Queued /\ (notBefore'[r] = "null" => notBefore[r] = "null"),
             \A c \in Callers : call[c].pc = "registered" => call'[c].pc = "registered"
      PROVE  Covered
  BY <1>2 DEF WakingCovered, WakeCovered, Waker
<1>3. ASSUME drain = "wave", drain' = drain PROVE Covered
  BY <1>1, <1>3
<1>4. CASE UNCHANGED vars
  BY <1>2, <1>4 DEF vars, rowVars
<1>5. ASSUME NEW r \in Rows, Insert(r) \/ Revive(r) \/ ConvertToDiscard(r) PROVE Covered
  <2>1. hook' # {}
    BY <1>5 DEF Insert, Revive, ConvertToDiscard
  <2> QED
    BY <1>1, <2>1
<1>6. ASSUME Notify(FALSE), UNCHANGED <<runner, dbFailures, status, notBefore>> PROVE Covered
  <2>1. /\ drain' = drain
        /\ runner = "live" /\ drain # "idle" => kickPending'
        /\ runner = "live" /\ drain = "idle" => drain' = "loading" \/ notifyTimer'
    BY <1>6, NotifyMoves
  <2> QED
    BY <1>6, <2>1 DEF WakingCovered, WakeCovered, Waker
<1>7. ASSUME NEW r \in Rows, InsertHook(r) PROVE Covered
  BY <1>6, <1>7 DEF InsertHook, rowVars
<1>8. CASE BootNotify
  BY <1>6, <1>8 DEF BootNotify, rowVars
<1>9. ASSUME KickDrain,
             UNCHANGED <<runner, dbFailures, status, notBefore, hook, bootDue, call>>
      PROVE  Covered
  <2>1. CASE runner # "live" \/ drain = "idle"
    BY <1>1, <1>9, <2>1, KickMoves
  <2>2. CASE runner = "live" /\ drain # "idle"
    <3>1. drain' = drain /\ kickPending' = kickPending
      BY <1>9, <2>2, KickMoves
    <3> QED
      BY <1>9, <2>2, <3>1 DEF WakingCovered, WakeCovered
  <2> QED
    BY <2>1, <2>2
<1>10. CASE NotifyTimerFires \/ WakeTimerFires \/ DrainRequest
  BY <1>9, <1>10 DEF NotifyTimerFires, WakeTimerFires, DrainRequest, rowVars
<1>11. ASSUME NEW r \in Rows, BackoffElapses(r) PROVE Covered
  <2>1. notBefore'[r] = "reached" /\ \A q \in Rows \ {r} : notBefore'[q] = notBefore[q]
    BY <1>11, TypeParts DEF BackoffElapses, RowType
  <2>2. UNCHANGED <<runner, drain, dbFailures, kickPending, bootDue, notifyTimer,
                    wakeTimer, hook, status, call>>
    BY <1>11 DEF BackoffElapses
  <2> QED
    BY <1>2, <2>1, <2>2
<1>12. ASSUME NEW r \in Rows, Abandon(r) PROVE Covered
  <2>1. /\ status'[r] \in {"gone", "conflicted"}
        /\ \A q \in Rows \ {r} : status'[q] = status[q] /\ notBefore'[q] = notBefore[q]
    BY <1>12, TypeParts DEF Abandon, DeleteRow, RowType
  <2>2. UNCHANGED <<runner, drain, dbFailures, kickPending, bootDue, notifyTimer,
                    wakeTimer, hook, call>>
    BY <1>12 DEF Abandon
  <2> QED
    BY <1>2, <2>1, <2>2 DEF Queued
<1>13. ASSUME NEW c \in Callers, CallStep(c) PROVE Covered
  <2>1. call \in [Callers -> CallSet]
    BY TypeParts DEF CallType
  <2>2. CASE CallLoad(c)
    <3>1. /\ UNCHANGED <<runner, drain, dbFailures, kickPending, bootDue, notifyTimer,
                         wakeTimer, hook, status, notBefore>>
          /\ call[c].pc = "idle"
      BY <2>2 DEF CallLoad, rowVars
    <3>2. \A d \in Callers \ {c} : call'[d] = call[d]
      BY <2>1, <2>2, TypeParts DEF CallLoad, Answer, Stopped, RowType, Statuses, Live, CallSet
    <3> QED
      BY <1>2, <3>1, <3>2
  <2>3. CASE CallRegister(c)
    BY <1>1, <2>1, <2>3 DEF CallRegister, CallSet
  <2>4. CASE CallLeave(c)
    <3>1. runner' # "live"
      BY <2>4 DEF CallLeave, CallInv
    <3> QED
      BY <1>1, <3>1
  <2>5. CASE CallRecheck(c)
    <3>1. /\ Notify(TRUE)
          /\ UNCHANGED <<runner, dbFailures>>
      BY <2>5 DEF CallRecheck
    <3>2. /\ runner = "live" /\ drain # "idle" => kickPending'
          /\ runner = "live" /\ drain = "idle" => drain' = "loading"
          /\ drain' # drain => drain = "idle"
      BY <3>1, NotifyMoves
    <3> QED
      BY <1>1, <3>1, <3>2 DEF WakingCovered, WakeCovered
  <2> QED
    BY <1>13, <2>2, <2>3, <2>4, <2>5 DEF CallStep
<1>14. CASE DrainLoad \/ DrainWaveDone
  <2>1. drain' \in {"wave", "loading"}
    BY <1>14 DEF DrainLoad, DrainWaveDone
  <2> QED
    BY <1>1, <2>1
<1>15. CASE DrainEmpty
  <2>1. \A r \in Rows : ~Ready(r)
    BY <1>15, BatchFinds DEF DrainEmpty
  <2>2. drain' = "waking" /\ UNCHANGED <<status, notBefore>>
    BY <1>15 DEF DrainEmpty, rowVars
  <2> QED
    BY <2>1, <2>2 DEF WakingCovered, WakeCovered, Ready
<1>16. CASE DrainArmWake
  <2>1. /\ drain = "waking" /\ EndDrain
        /\ wakeTimer' = (\E r \in Rows : status[r] \in Queued /\ notBefore[r] # "null")
        /\ UNCHANGED <<runner, dbFailures, status, notBefore, hook, bootDue, call>>
    BY <1>16 DEF DrainArmWake, NextWake, rowVars
  <2>2. /\ drain' \in {"idle", "loading"}
        /\ drain' = "idle" /\ runner = "live" => ~kickPending
    BY <2>1, EndMoves
  <2>3. WakeCovered'
    <3> SUFFICES ASSUME runner = "live", drain' = "idle", dbFailures = 0,
                        NEW r \in Rows, status[r] \in Queued
                 PROVE  Waker'
      BY <2>1 DEF WakeCovered
    <3>1. CASE notBefore[r] # "null"
      BY <2>1, <3>1 DEF Waker
    <3>2. CASE notBefore[r] = "null"
      BY <2>1, <2>2, <3>2 DEF WakingCovered, Waker
    <3> QED
      BY <3>1, <3>2
  <2> QED
    BY <2>2, <2>3 DEF WakingCovered
<1>17. CASE DrainFails
  <2>1. dbFailures' # 0
    BY <1>17, TypeParts, BoundsAssumption DEF DrainFails, BoundType
  <2> QED
    BY <1>1, <2>1
<1>18. CASE RecoverFails
  <2>1. dbFailures' # 0
    BY <1>18, TypeParts, BoundsAssumption DEF RecoverFails, BoundType
  <2> QED
    BY <1>1, <2>1
<1>19. CASE DrainStopped \/ Crash \/ Stop \/ StopDone \/ Start \/ RecoverConflict
  <2>1. runner' # "live"
    BY <1>19 DEF DrainStopped, Stopped, Crash, Stop, StopDone, Start, RecoverConflict
  <2> QED
    BY <1>1, <2>1
<1>20. CASE RecoverReset
  <2>1. bootDue' /\ drain' = drain /\ runner = "resetting"
    BY <1>20 DEF RecoverReset
  <2>2. drain' = "idle"
    BY <2>1 DEF Barrier, Alive
  <2> QED
    BY <2>1, <2>2 DEF WakingCovered, WakeCovered, Waker
<1>21. ASSUME NEW r \in Rows, \/ TaskStep(r) \/ Process(r) \/ ProcessCheckpoint(r)
                              \/ TaskClaimFails(r) \/ TaskSettleFails(r)
       PROVE  Covered
  <2>1. task[r] # "none" /\ drain' = drain
    BY <1>21 DEF TaskStep, TaskSkip, TaskClaim, TaskUnclaimed, TaskSettle, EndTask, Process,
       ProcessOk, ProcessRetryable, ProcessTerminal, ProcessCheckpoint, TaskClaimFails,
       TaskSettleFails
  <2>2. drain = "wave"
    BY <2>1 DEF Barrier
  <2> QED
    BY <1>3, <2>1, <2>2
<1> HIDE DEF Covered
<1> QED
  BY <1>4, <1>5, <1>7, <1>8, <1>10, <1>11, <1>12, <1>13, <1>14, <1>15, <1>16, <1>17, <1>18,
     <1>19, <1>20, <1>21 DEF Next, DrainStep, StartStep

(***************************************************************************)
(* The theorems.                                                           *)
(***************************************************************************)
\* Everything the runner relies on holds in every reachable state.
THEOREM RunnerInvariant == Spec => []Inv
<1>1. Inv /\ [Next]_vars => Inv'
  <2> SUFFICES ASSUME Inv, [Next]_vars PROVE Inv'
    OBVIOUS
  <2>1. /\ TypeOK /\ Barrier /\ LaneOrder /\ WakingCovered /\ WakeCovered
        /\ \A r \in Rows : RowInv(r)
        /\ \A c \in Callers : CallInv(c)
    BY DEF Inv, Rest
  <2>2. TypeOK'
    BY <2>1, TypeNext
  <2>3. Barrier' /\ LaneOrder'
    BY <2>1, LaneNext
  <2>4. WakingCovered' /\ WakeCovered'
    BY <2>1, WakeNext
  <2>5. ASSUME NEW r \in Rows PROVE RowInv(r)'
    BY <2>1, RowNext
  <2>6. ASSUME NEW c \in Callers PROVE CallInv(c)'
    BY <2>1, CallNext
  <2> QED
    BY <2>2, <2>3, <2>4, <2>5, <2>6 DEF Inv, Rest
<1> QED
  BY InitInv, <1>1, PTL DEF Spec

\* Every variable keeps its type, for any number of rows, callers and failures.
THEOREM TypeCorrect == Spec => []TypeOK
<1>1. Inv => TypeOK
  BY DEF Inv
<1> QED
  BY RunnerInvariant, <1>1, PTL

\* Two mutations of one lane are never worked on at once (_dispatch, _drainLoop).
THEOREM LanesExclude == Spec => []LaneExclusion
<1>1. Inv => LaneExclusion
  <2> SUFFICES ASSUME Inv, NEW q \in Rows, NEW r \in Rows, q # r, LaneOf[q] = LaneOf[r],
                      task[q] \in Running, task[r] \in Running
               PROVE  FALSE
    BY DEF LaneExclusion
  <2>1. q < r \/ r < q
    <3>1. q \in Nat /\ r \in Nat
      BY RowsAssumption
    <3> QED
      BY <3>1
  <2>2. task[q] # "none" /\ task[r] # "none"
    BY DEF Running
  <2>3. LaneOrder
    BY DEF Inv, Rest
  <2> QED
    BY <2>1, <2>2, <2>3 DEF LaneOrder
<1> QED
  BY RunnerInvariant, <1>1, PTL

\* A task works on a row only while the table says in flight and the row is still
\* of the type it was dispatched with (_claimInFlight).
THEOREM ClaimsHold == Spec => []RunningHoldsRow
<1>1. Inv => RunningHoldsRow
  <2> SUFFICES ASSUME Inv, NEW r \in Rows, task[r] \in Running
               PROVE  status[r] = "in_flight" /\ (r \in converted) = snap[r].converted
    BY DEF RunningHoldsRow
  <2>1. status[r] = "in_flight" /\ (r \in converted <=> snap[r].converted)
    BY DEF Inv, RowInv, TaskInv
  <2>2. snap[r].converted \in BOOLEAN
    BY TypeParts DEF Inv, TaskType, SnapSet
  <2>3. (r \in converted) = snap[r].converted
    BY <2>1, <2>2
  <2> QED
    BY <2>1, <2>3
<1> QED
  BY RunnerInvariant, <1>1, PTL

\* No caller waits for an answer already given (_awaitMutation).
THEOREM AwaitersServed == Spec => []AwaiterHasLiveRow
<1>1. Inv => AwaiterHasLiveRow
  BY DEF Inv, CallInv, AwaiterHasLiveRow
<1> QED
  BY RunnerInvariant, <1>1, PTL

\* What a caller of runMutation was told remains so.
THEOREM AnswersTrue == Spec => []AnswersAgree
<1>1. Inv => AnswersAgree
  BY DEF Inv, CallInv, AnswersAgree
<1> QED
  BY RunnerInvariant, <1>1, PTL

\* While no statement fails, a row that waits has something to wake the runner.
THEOREM WakeUpsCovered == Spec => []WakeCovered
<1>1. Inv => WakeCovered
  BY DEF Inv, Rest
<1> QED
  BY RunnerInvariant, <1>1, PTL

\* stop() resolves to a quiesced runner.
THEOREM StopIsQuiet == Spec => []StopQuiesces
<1>1. Inv => StopQuiesces
  <2> SUFFICES ASSUME Inv, runner = "stopped" PROVE StopQuiesces
    BY DEF StopQuiesces
  <2>1. drain = "idle" /\ \A r \in Rows : task[r] = "none"
    BY DEF Inv, Rest, Barrier, Alive
  <2>2. \A c \in Callers : call[c].pc \notin {"registered", "waiting"}
    BY DEF Inv, CallInv, Alive
  <2> QED
    BY <2>1, <2>2 DEF StopQuiesces
<1> QED
  BY RunnerInvariant, <1>1, PTL

\* A row whose worker died past the point of no return is never worked on again.
THEOREM InterruptedParked == Spec => []InterruptedIsParked
<1>1. Inv => InterruptedIsParked
  <2> SUFFICES ASSUME Inv, NEW r \in midCrash
               PROVE  status[r] \in {"in_flight", "conflicted"} /\ task[r] = "none"
    BY DEF InterruptedIsParked
  <2>1. r \in Rows
    BY TypeParts DEF Inv, BoundType
  <2> QED
    BY <2>1 DEF Inv, RowInv, ParkInv
<1> QED
  BY RunnerInvariant, <1>1, PTL

\* Only a restart buys a row one attempt more than its budget.
THEOREM BudgetHeld == Spec => []AttemptBudget
<1>1. Inv => AttemptBudget
  BY DEF Inv, RowInv, CountInv, AttemptBudget, Budget
<1> QED
  BY RunnerInvariant, <1>1, PTL
=============================================================================
