--------------------------- MODULE OutboxRunner ---------------------------
(***************************************************************************)
(* The self-driving outbox queue of one account.                           *)
(*                                                                         *)
(* Every local change the server has to learn about is a row of the SQLite *)
(* table pending_mutations.  One OutboxRunner per backend drains the table:*)
(* a single drain pass at a time loads the ready rows, dispatches the whole*)
(* wave in parallel behind per-lane promise chains, waits for the wave and *)
(* loads again, until nothing is ready and it arms a wake-up timer.        *)
(* Callers of runMutation wait for one row.  The worker that owns the      *)
(* runner may die between any two awaits, and the next one starts by       *)
(* reclaiming the rows left in flight.                                     *)
(*                                                                         *)
(* An action is the code between two awaits: a database statement and the  *)
(* continuation that consumes its result.  What processRow does with a row *)
(* is opaque here, as it is to the runner (SendOperation models one such   *)
(* function in full).                                                      *)
(***************************************************************************)
EXTENDS Naturals, FiniteSets

CONSTANTS
  Rows,             \* ids of the rows; the order is created_at, id
  LaneOf,           \* the lane key _dispatch computes for each row
  Unsafe,           \* rows whose mutation type must never be replayed blindly
  Callers,          \* runMutation calls
  MaxAttempts,      \* the per-row retry budget
  BatchSize,        \* LIMIT of the ready-row query
  MaxRestarts,      \* bound on crashes plus orderly stops
  MaxDbFailures,    \* bound on failed database statements
  MaxRevivals       \* bound on user retries of a conflicted row

ASSUME RowsAssumption == Rows \subseteq Nat /\ IsFiniteSet(Rows)
ASSUME LaneAssumption == LaneOf \in [Rows -> Nat]
ASSUME UnsafeAssumption == Unsafe \subseteq Rows
ASSUME BoundsAssumption ==
  /\ MaxAttempts \in Nat \ {0}
  /\ BatchSize \in Nat \ {0}
  /\ MaxRestarts \in Nat
  /\ MaxDbFailures \in Nat
  /\ MaxRevivals \in Nat

VARIABLES
  status,       \* local_status; "unborn" and "gone" are rows not in the table
  attempts,     \* attempts column
  notBefore,    \* not_before column: NULL, still ahead, or reached
  phase,        \* phase column, as the recovery policy classifies it
  abandoned,    \* what an abandon made of a SAVE_DRAFT row
  hook,         \* rows committed whose onMutationInserted hook has yet to run
  runner,       \* life cycle of the backend's runner
  bootDue,      \* the bootstrap notify() has yet to be issued
  kickPending, notifyTimer, wakeTimer,
  drain,        \* where the single drain pass is
  snap,         \* the row values a dispatched task captured
  task,         \* progress of the dispatched task of a row
  call,         \* runMutation calls
  midCrash,     \* history: rows that died past the point of no return
  restarts, dbFailures, revivals

rowVars == <<status, attempts, notBefore, phase, abandoned>>
timerVars == <<kickPending, notifyTimer, wakeTimer>>
drainVars == <<drain, snap, task>>
boundVars == <<restarts, dbFailures, revivals>>
vars == <<rowVars, hook, runner, bootDue, timerVars, drainVars, call,
          midCrash, boundVars>>

Statuses == {"unborn", "pending", "in_flight", "retry", "conflicted", "gone"}
Waits == {"null", "ahead", "reached"}
\* "replayable" and "completed" are the phases of MUTATION_RECOVERY_POLICIES;
\* "irreversible" is any other recorded phase (submitting, unknown).
Phases == {"null", "replayable", "irreversible", "completed"}
Tasks == {"none", "queued", "unclaimed", "running", "ok", "retry", "conflict"}
Answers == {"none", "ok", "failed", "outcomeUnknown", "stopped", "zero", "lost"}

Queued == {"pending", "retry"}
Settled == {"conflicted", "gone"}
Live == {"pending", "retry", "in_flight"}

TypeOK ==
  /\ status \in [Rows -> Statuses]
  /\ attempts \in [Rows -> Nat]
  /\ notBefore \in [Rows -> Waits]
  /\ phase \in [Rows -> Phases]
  /\ abandoned \in [Rows -> {"no", "kept", "discarded"}]
  /\ hook \in SUBSET Rows
  /\ runner \in {"off", "conflicting", "resetting", "live", "stopping", "stopped"}
  /\ bootDue \in BOOLEAN
  /\ kickPending \in BOOLEAN
  /\ notifyTimer \in BOOLEAN
  /\ wakeTimer \in BOOLEAN
  /\ drain \in {"idle", "loading", "wave", "waking"}
  /\ snap \in [Rows -> [status: Queued, attempts: Nat, converted: BOOLEAN]]
  /\ task \in [Rows -> Tasks]
  /\ call \in [Callers -> [pc: {"idle", "loaded", "leaving", "registered",
                                "waiting", "done"},
                           row: Rows, answer: Answers]]
  /\ midCrash \in SUBSET Rows
  /\ restarts \in 0..MaxRestarts
  /\ dbFailures \in 0..MaxDbFailures
  /\ revivals \in 0..MaxRevivals

\* Rows whose mutation_type became DISCARD_DRAFT.
converted == {r \in Rows : abandoned[r] = "discarded"}

\* A row no task holds has no dispatched copy.
NoCopy == [status |-> "pending", attempts |-> 0, converted |-> FALSE]

Init ==
  /\ status = [r \in Rows |-> "unborn"]
  /\ attempts = [r \in Rows |-> 0]
  /\ notBefore = [r \in Rows |-> "null"]
  /\ phase = [r \in Rows |-> "null"]
  /\ abandoned = [r \in Rows |-> "no"]
  /\ hook = {}
  /\ runner = "off"
  /\ bootDue = FALSE
  /\ kickPending = FALSE
  /\ notifyTimer = FALSE
  /\ wakeTimer = FALSE
  /\ drain = "idle"
  /\ snap = [r \in Rows |-> NoCopy]
  /\ task = [r \in Rows |-> "none"]
  /\ call \in [Callers -> [pc: {"idle"}, row: Rows, answer: {"none"}]]
  /\ midCrash = {}
  /\ restarts = 0
  /\ dbFailures = 0
  /\ revivals = 0

(***************************************************************************)
(* Waking the runner.                                                      *)
(***************************************************************************)
Stopped == runner # "live"

\* _kickDrain: single flight.
KickDrain ==
  IF ~Stopped /\ drain = "idle"
  THEN drain' = "loading" /\ kickPending' = FALSE
  ELSE UNCHANGED <<drain, kickPending>>

\* notify(): recorded while a drain runs, otherwise debounced or immediate.
Notify(immediate) ==
  CASE Stopped ->
         UNCHANGED <<kickPending, notifyTimer, drain>>
    [] ~Stopped /\ drain # "idle" ->
         kickPending' = TRUE /\ UNCHANGED <<notifyTimer, drain>>
    [] ~Stopped /\ drain = "idle" /\ immediate ->
         notifyTimer' = FALSE /\ drain' = "loading" /\ kickPending' = FALSE
    [] ~Stopped /\ drain = "idle" /\ ~immediate ->
         notifyTimer' = TRUE /\ kickPending' = TRUE /\ UNCHANGED drain

NotifyTimerFires ==
  /\ notifyTimer
  /\ notifyTimer' = FALSE
  /\ KickDrain
  /\ UNCHANGED <<rowVars, hook, runner, bootDue, wakeTimer, snap, task, call,
                 midCrash, boundVars>>

\* The delay is abstract: the timer may fire at any time after it is armed.
WakeTimerFires ==
  /\ wakeTimer
  /\ wakeTimer' = FALSE
  /\ KickDrain
  /\ UNCHANGED <<rowVars, hook, runner, bootDue, notifyTimer, snap, task, call,
                 midCrash, boundVars>>

\* The clock passes a row's not_before.
BackoffElapses(r) ==
  /\ notBefore[r] = "ahead"
  /\ notBefore' = [notBefore EXCEPT ![r] = "reached"]
  /\ UNCHANGED <<status, attempts, phase, abandoned, hook, runner, bootDue, timerVars,
                 drainVars, call, midCrash, boundVars>>

(***************************************************************************)
(* Rows enter, are retried by the user, or are taken back.                 *)
(***************************************************************************)
DeleteRow(r) ==
  /\ status' = [status EXCEPT ![r] = "gone"]
  /\ attempts' = [attempts EXCEPT ![r] = 0]
  /\ notBefore' = [notBefore EXCEPT ![r] = "null"]
  /\ phase' = [phase EXCEPT ![r] = "null"]

\* PENDING_MUTATION_INSERT up to its commit; ids grow with insertion.
Insert(r) ==
  /\ status[r] = "unborn"
  /\ \A q \in Rows : q < r => status[q] # "unborn"
  /\ status' = [status EXCEPT ![r] = "pending"]
  /\ hook' = hook \cup {r}
  /\ UNCHANGED <<attempts, notBefore, phase, abandoned, runner, bootDue, timerVars,
                 drainVars, call, midCrash, boundVars>>

\* The hook after the commit: a fire-and-forget notify().
InsertHook(r) ==
  /\ r \in hook
  /\ hook' = hook \ {r}
  /\ Notify(FALSE)
  /\ UNCHANGED <<rowVars, runner, bootDue, wakeTimer, snap, task, call,
                 midCrash, boundVars>>

\* PENDING_MUTATION_RETRY: the composer retries a draft save it saw fail, but
\* not one it abandoned with copies to preserve.
Revive(r) ==
  /\ r \notin Unsafe \cup converted /\ abandoned[r] # "kept"
  /\ status[r] \in {"conflicted", "retry"}
  /\ revivals < MaxRevivals
  /\ revivals' = revivals + 1
  /\ status' = [status EXCEPT ![r] = "retry"]
  /\ attempts' = [attempts EXCEPT ![r] = 0]
  /\ notBefore' = [notBefore EXCEPT ![r] = "null"]
  /\ hook' = hook \cup {r}
  /\ UNCHANGED <<phase, abandoned, runner, bootDue, timerVars, drainVars, call,
                 midCrash, restarts, dbFailures>>

\* PENDING_MUTATION_ABANDON_DRAFT on a row no attempt holds: delete it, park
\* it, or turn it into the DISCARD_DRAFT of what it left on the server.  The
\* composer abandons a save only after its own runMutation has answered.
Abandonable(r) ==
  /\ r \notin Unsafe /\ r \notin converted
  /\ status[r] \in {"pending", "retry", "conflicted"}
  /\ \A c \in Callers : call[c].row = r => call[c].pc \in {"idle", "done"}
  /\ \E c \in Callers : call[c].row = r /\ call[c].pc = "done"

Abandon(r) ==
  /\ Abandonable(r)
  /\ \/ DeleteRow(r) /\ UNCHANGED abandoned
     \/ /\ status' = [status EXCEPT ![r] = "conflicted"]
        /\ notBefore' = [notBefore EXCEPT ![r] = "null"]
        /\ abandoned' = [abandoned EXCEPT ![r] = "kept"]
        /\ UNCHANGED <<attempts, phase>>
  /\ UNCHANGED <<hook, runner, bootDue, timerVars,
                 drainVars, call, midCrash, boundVars>>

ConvertToDiscard(r) ==
  /\ Abandonable(r)
  /\ status' = [status EXCEPT ![r] = "pending"]
  /\ attempts' = [attempts EXCEPT ![r] = 0]
  /\ notBefore' = [notBefore EXCEPT ![r] = "null"]
  /\ phase' = [phase EXCEPT ![r] = "null"]
  /\ abandoned' = [abandoned EXCEPT ![r] = "discarded"]
  /\ hook' = hook \cup {r}
  /\ UNCHANGED <<runner, bootDue, timerVars, drainVars, call, midCrash,
                 boundVars>>

(***************************************************************************)
(* runMutation.                                                            *)
(***************************************************************************)
Answer(c, a) ==
  call' = [call EXCEPT ![c] = [@ EXCEPT !.pc = "done", !.answer = a]]

\* _resolveAwaiters: every registered caller of the row is answered.
Resolved(r, a) ==
  [c \in Callers |->
     IF call[c].row = r /\ call[c].pc \in {"registered", "waiting"}
     THEN [call[c] EXCEPT !.pc = "done", !.answer = a]
     ELSE call[c]]

\* Mutant: stop() reports every row it never saw settle as a plain failure.
StoppedAnswerPlain(r) == "failed"

\* _stoppedError: what stop() may say about a row it never saw settle.
StoppedAnswer(r) == IF r \in Unsafe THEN "outcomeUnknown" ELSE "stopped"

\* First lookup of the row.
CallLoad(c) ==
  /\ call[c].pc = "idle"
  /\ status[call[c].row] # "unborn"
  /\ CASE Stopped -> Answer(c, "zero")
       [] ~Stopped /\ status[call[c].row] = "gone" -> Answer(c, "ok")
       [] ~Stopped /\ status[call[c].row] = "conflicted" -> Answer(c, "failed")
       [] ~Stopped /\ status[call[c].row] \in Live ->
            call' = [call EXCEPT ![c].pc = "loaded"]
  /\ UNCHANGED <<rowVars, hook, runner, bootDue, timerVars, drainVars,
                 midCrash, boundVars>>

\* Clear the backoff and register.
ClearBackoff(r) ==
  notBefore' = IF status[r] \in Queued
               THEN [notBefore EXCEPT ![r] = "null"] ELSE notBefore

CallRegister(c) ==
  /\ call[c].pc = "loaded"
  /\ ClearBackoff(call[c].row)
  /\ call' = [call EXCEPT ![c].pc = "registered"]
  /\ UNCHANGED <<status, attempts, phase, abandoned, hook, runner, bootDue,
                 timerVars, drainVars, midCrash, boundVars>>

\* The same step after stop(): the backoff is cleared, nothing is registered.
CallLeave(c) ==
  /\ call[c].pc = "leaving"
  /\ ClearBackoff(call[c].row)
  /\ Answer(c, StoppedAnswer(call[c].row))
  /\ UNCHANGED <<status, attempts, phase, abandoned, hook, runner, bootDue,
                 timerVars, drainVars, midCrash, boundVars>>

\* Mutant: wait without looking again.
SecondLookSkipped(c) == [call EXCEPT ![c].pc = "waiting"]

\* The calls after a registered caller has read its row once more.
SecondLook(c) ==
  LET r == call[c].row IN
    CASE status[r] = "gone" -> Resolved(r, "ok")
      [] status[r] = "conflicted" -> Resolved(r, "failed")
      [] status[r] \in Live -> [call EXCEPT ![c].pc = "waiting"]

\* Look again now that the awaiter is visible, resolve if the row settled in
\* between, and wake the runner.
CallRecheck(c) ==
  /\ call[c].pc = "registered"
  /\ call' = SecondLook(c)
  /\ Notify(TRUE)
  /\ UNCHANGED <<rowVars, hook, runner, bootDue, wakeTimer, snap, task,
                 midCrash, boundVars>>

\* drain(): with no pass running, force one.
DrainRequest ==
  /\ ~Stopped /\ drain = "idle"
  /\ KickDrain
  /\ UNCHANGED <<rowVars, hook, runner, bootDue, notifyTimer, wakeTimer, snap,
                 task, call, midCrash, boundVars>>

(***************************************************************************)
(* The drain pass.                                                         *)
(***************************************************************************)
Ready(r) == status[r] \in Queued /\ notBefore[r] # "ahead"

\* The oldest BatchSize ready rows.
Batch ==
  {r \in Rows : Ready(r) /\ Cardinality({q \in Rows : Ready(q) /\ q < r}) < BatchSize}

\* Mutant: what was notified during the drain is forgotten.
EndDrainForgets == drain' = "idle" /\ UNCHANGED kickPending

\* The finally of _kickDrain: leave, or go again when a notify() was recorded.
EndDrain ==
  IF kickPending /\ ~Stopped
  THEN drain' = "loading" /\ kickPending' = FALSE
  ELSE drain' = "idle" /\ UNCHANGED kickPending

\* One turn of _drainLoop: load the ready rows and dispatch them all.
DrainLoad ==
  /\ drain = "loading" /\ ~Stopped /\ Batch # {}
  /\ drain' = "wave"
  /\ snap' = [r \in Rows |->
                IF r \in Batch
                THEN [status |-> status[r], attempts |-> attempts[r],
                      converted |-> r \in converted]
                ELSE snap[r]]
  /\ task' = [r \in Rows |-> IF r \in Batch THEN "queued" ELSE task[r]]
  /\ UNCHANGED <<rowVars, hook, runner, bootDue, timerVars, call, midCrash,
                 boundVars>>

\* Nothing is ready: the old wake timer is cancelled before MIN(not_before)
\* is queried.
DrainEmpty ==
  /\ drain = "loading" /\ ~Stopped /\ Batch = {}
  /\ drain' = "waking"
  /\ wakeTimer' = FALSE
  /\ UNCHANGED <<rowVars, hook, runner, bootDue, kickPending, notifyTimer, snap,
                 task, call, midCrash, boundVars>>

\* Mutant: only rows never tried before are waited for.
NextWakeFirstTries == \E r \in Rows : status[r] = "pending" /\ notBefore[r] # "null"

NextWake == \E r \in Rows : status[r] \in Queued /\ notBefore[r] # "null"

\* _scheduleNextWake's query returns; the pass ends.
DrainArmWake ==
  /\ drain = "waking"
  /\ wakeTimer' = NextWake
  /\ EndDrain
  /\ UNCHANGED <<rowVars, hook, runner, bootDue, notifyTimer, snap, task, call,
                 midCrash, boundVars>>

\* Either query throws: the pass ends as if done, without arming a timer.
DrainFails ==
  /\ drain \in {"loading", "waking"}
  /\ dbFailures < MaxDbFailures
  /\ dbFailures' = dbFailures + 1
  /\ EndDrain
  /\ UNCHANGED <<rowVars, hook, runner, bootDue, notifyTimer, wakeTimer, snap,
                 task, call, midCrash, restarts, revivals>>

\* allSettled: the wave is over when its last task is.
DrainWaveDone ==
  /\ drain = "wave"
  /\ \A r \in Rows : task[r] = "none"
  /\ drain' = "loading"
  /\ UNCHANGED <<rowVars, hook, runner, bootDue, timerVars, snap, task, call,
                 midCrash, boundVars>>

\* The loop condition after stop().
DrainStopped ==
  /\ drain = "loading" /\ Stopped
  /\ EndDrain
  /\ UNCHANGED <<rowVars, hook, runner, bootDue, notifyTimer, wakeTimer, snap,
                 task, call, midCrash, boundVars>>

(***************************************************************************)
(* One dispatched row: _runWithRetry behind its lane.                      *)
(***************************************************************************)
\* Mutant: no promise chains.
LaneTurnAlways(r) == TRUE

\* The promise chain of the lane has reached this row.
LaneTurn(r) ==
  \A q \in Rows : q < r /\ LaneOf[q] = LaneOf[r] => task[q] = "none"

EndTask(r) ==
  /\ task' = [task EXCEPT ![r] = "none"]
  /\ snap' = [snap EXCEPT ![r] = NoCopy]

\* Mutant: the claim does not compare the mutation type.
SnapStatusCurrent(r) == status[r] = snap[r].status

\* The WHERE of _claimInFlight.
SnapCurrent(r) ==
  status[r] = snap[r].status /\ (r \in converted) = snap[r].converted

TaskSkip(r) ==
  /\ task[r] = "queued" /\ LaneTurn(r) /\ Stopped
  /\ EndTask(r)
  /\ UNCHANGED <<rowVars, hook, runner, bootDue, timerVars, drain, call,
                 midCrash, boundVars>>

\* _claimInFlight: compare-and-set against the dispatched copy of the row.
TaskClaim(r) ==
  /\ task[r] = "queued" /\ LaneTurn(r) /\ ~Stopped
  /\ IF SnapCurrent(r)
     THEN /\ status' = [status EXCEPT ![r] = "in_flight"]
          /\ attempts' = [attempts EXCEPT ![r] = snap[r].attempts + 1]
          /\ task' = [task EXCEPT ![r] = "running"]
     ELSE /\ task' = [task EXCEPT ![r] = "unclaimed"]
          /\ UNCHANGED <<status, attempts>>
  /\ UNCHANGED <<notBefore, phase, abandoned, hook, runner, bootDue, timerVars,
                 drain, snap, call, midCrash, boundVars>>

\* _settleUnclaimedRow: someone else settled or rewrote the row.
TaskUnclaimed(r) ==
  /\ task[r] = "unclaimed"
  /\ EndTask(r)
  /\ call' = CASE status[r] = "gone" -> Resolved(r, "ok")
               [] status[r] = "conflicted" -> Resolved(r, "failed")
               [] status[r] \in Live -> call
  /\ UNCHANGED <<rowVars, hook, runner, bootDue, timerVars, drain, midCrash,
                 boundVars>>

\* The claiming statement or the read-back after it throws.
TaskClaimFails(r) ==
  /\ task[r] = "queued" /\ LaneTurn(r) /\ ~Stopped
  /\ dbFailures < MaxDbFailures
  /\ dbFailures' = dbFailures + 1
  /\ EndTask(r)
  /\ \/ UNCHANGED <<status, attempts>>
     \/ /\ SnapCurrent(r)
        /\ status' = [status EXCEPT ![r] = "in_flight"]
        /\ attempts' = [attempts EXCEPT ![r] = snap[r].attempts + 1]
  /\ UNCHANGED <<notBefore, phase, abandoned, hook, runner, bootDue, timerVars,
                 drain, call, midCrash, restarts, revivals>>

(***************************************************************************)
(* processRow: opaque, but an unsafe row records its phase as it goes.     *)
(***************************************************************************)
NextPhases ==
  [null         |-> {"replayable"},
   replayable   |-> {"irreversible"},
   irreversible |-> {"replayable", "completed"},
   completed    |-> {}]

ProcessCheckpoint(r) ==
  /\ task[r] = "running" /\ r \in Unsafe
  /\ \E p \in NextPhases[phase[r]] :
       /\ phase' = [phase EXCEPT ![r] = p]
       /\ attempts' = IF p = "completed" THEN [attempts EXCEPT ![r] = 0]
                      ELSE attempts
  /\ UNCHANGED <<status, notBefore, abandoned, hook, runner, bootDue,
                 timerVars, drainVars, call, midCrash, boundVars>>

ProcessOk(r) ==
  /\ task[r] = "running"
  /\ r \in Unsafe => phase[r] = "completed"
  /\ task' = [task EXCEPT ![r] = "ok"]
  /\ UNCHANGED <<rowVars, hook, runner, bootDue, timerVars, drain, snap, call,
                 midCrash, boundVars>>

\* Mutant: off by one.
ExhaustedLate(r) == snap[r].attempts + 1 > MaxAttempts

\* The cap is judged on the dispatched copy's attempts.
Exhausted(r) == snap[r].attempts + 1 >= MaxAttempts

ProcessRetryable(r) ==
  /\ task[r] = "running"
  /\ task' = [task EXCEPT ![r] =
                IF Exhausted(r) THEN "conflict" ELSE "retry"]
  /\ UNCHANGED <<rowVars, hook, runner, bootDue, timerVars, drain, snap, call,
                 midCrash, boundVars>>

\* A terminal error, which for an unsafe row includes any throw.
ProcessTerminal(r) ==
  /\ task[r] = "running"
  /\ task' = [task EXCEPT ![r] = "conflict"]
  /\ UNCHANGED <<rowVars, hook, runner, bootDue, timerVars, drain, snap, call,
                 midCrash, boundVars>>

\* _deleteRow, _markConflicted or _markRetry, then the awaiters.
TaskSettle(r) ==
  /\ EndTask(r)
  /\ \/ /\ task[r] = "ok"
        /\ DeleteRow(r)
        /\ call' = Resolved(r, "ok")
     \/ /\ task[r] = "conflict"
        /\ status' = [status EXCEPT ![r] = "conflicted"]
        /\ call' = Resolved(r, "failed")
        /\ UNCHANGED <<attempts, notBefore, phase>>
     \/ /\ task[r] = "retry"
        /\ status' = [status EXCEPT ![r] = "retry"]
        /\ notBefore' = [notBefore EXCEPT ![r] = "ahead"]
        /\ UNCHANGED <<attempts, phase, call>>
  /\ UNCHANGED <<abandoned, hook, runner, bootDue, timerVars, drain, midCrash,
                 boundVars>>

\* The bookkeeping write fails: the task rejects and the row stays in flight.
TaskSettleFails(r) ==
  /\ task[r] \in {"ok", "conflict", "retry"}
  /\ dbFailures < MaxDbFailures
  /\ dbFailures' = dbFailures + 1
  /\ EndTask(r)
  /\ UNCHANGED <<rowVars, hook, runner, bootDue, timerVars, drain, call,
                 midCrash, restarts, revivals>>

(***************************************************************************)
(* Life cycle.                                                             *)
(***************************************************************************)
NewRunner ==
  /\ kickPending' = FALSE /\ notifyTimer' = FALSE /\ wakeTimer' = FALSE
  /\ drain' = "idle"
  /\ task' = [r \in Rows |-> "none"]
  /\ snap' = [r \in Rows |-> NoCopy]

\* The worker dies between any two steps; only the table survives.
Crash ==
  /\ runner # "off" /\ restarts < MaxRestarts
  /\ restarts' = restarts + 1
  /\ runner' = "off" /\ bootDue' = FALSE /\ hook' = {}
  /\ NewRunner
  /\ call' = [c \in Callers |->
                IF call[c].pc \in {"idle", "done"} THEN call[c]
                ELSE [call[c] EXCEPT !.pc = "done", !.answer = "lost"]]
  /\ midCrash' = midCrash \cup
       {r \in Unsafe : status[r] = "in_flight" /\ phase[r] = "irreversible"}
  /\ UNCHANGED <<rowVars, dbFailures, revivals>>

\* Every awaiter is answered without a database read; calls that have not
\* registered yet will find the runner stopped.
AnswerStopped ==
  call' = [c \in Callers |->
             CASE call[c].pc \in {"registered", "waiting"} ->
                    [call[c] EXCEPT !.pc = "done",
                                    !.answer = StoppedAnswer(call[c].row)]
               [] call[c].pc = "loaded" -> [call[c] EXCEPT !.pc = "leaving"]
               [] OTHER -> call[c]]

\* Mutant: stop() does not wait for the drain.
StopWaitsNever == FALSE

StopWaits == drain # "idle"

\* stop(): with a drain in flight the awaiters wait for it.
Stop ==
  /\ runner = "live" /\ restarts < MaxRestarts
  /\ restarts' = restarts + 1
  /\ bootDue' = FALSE /\ notifyTimer' = FALSE /\ wakeTimer' = FALSE
  /\ IF ~StopWaits
     THEN runner' = "stopped" /\ AnswerStopped
     ELSE /\ runner' = "stopping"
          /\ call' = [c \in Callers |->
                        IF call[c].pc = "loaded"
                        THEN [call[c] EXCEPT !.pc = "leaving"] ELSE call[c]]
  /\ UNCHANGED <<rowVars, hook, kickPending, drainVars, midCrash, dbFailures,
                 revivals>>

StopDone ==
  /\ runner = "stopping" /\ drain = "idle"
  /\ runner' = "stopped"
  /\ AnswerStopped
  /\ UNCHANGED <<rowVars, hook, bootDue, timerVars, drainVars, midCrash,
                 boundVars>>

\* JmapBackend.start(): a new runner, then recoverStranded before it is
\* visible to anyone.  A statement issued under the old runner is served
\* first: the engine serves statements in the order they are issued.
Start ==
  /\ runner \in {"off", "stopped"}
  /\ \A c \in Callers : call[c].pc # "leaving"
  /\ runner' = "conflicting"
  /\ NewRunner
  /\ UNCHANGED <<rowVars, hook, bootDue, call, midCrash, boundVars>>

\* Mutant: every phase counts as resumable.
InterruptedNever(r) == FALSE

\* An unsafe row interrupted in a phase that is neither replayable nor
\* completed.  A NULL phase does not match NOT IN.
Interrupted(r) ==
  /\ r \in Unsafe /\ status[r] = "in_flight"
  /\ phase[r] \notin {"null", "replayable", "completed"}

\* First statement: what was interrupted past the point of no return is parked.
RecoverConflict ==
  /\ runner = "conflicting"
  /\ runner' = "resetting"
  /\ status' = [r \in Rows |->
                  IF Interrupted(r) THEN "conflicted" ELSE status[r]]
  /\ UNCHANGED <<attempts, notBefore, phase, abandoned, hook, bootDue, timerVars,
                 drainVars, call, midCrash, boundVars>>

\* Second statement: whatever is still in flight goes back to the queue.
RecoverReset ==
  /\ runner = "resetting"
  /\ runner' = "live" /\ bootDue' = TRUE
  /\ status' = [r \in Rows |->
                  IF status[r] = "in_flight" THEN "pending" ELSE status[r]]
  /\ notBefore' = [r \in Rows |->
                     IF status[r] = "in_flight" THEN "null" ELSE notBefore[r]]
  /\ UNCHANGED <<attempts, phase, abandoned, hook, timerVars, drainVars, call,
                 midCrash, boundVars>>

\* Either statement throws: start() logs it and carries on.
RecoverFails ==
  /\ runner \in {"conflicting", "resetting"}
  /\ dbFailures < MaxDbFailures
  /\ dbFailures' = dbFailures + 1
  /\ runner' = "live" /\ bootDue' = TRUE
  /\ UNCHANGED <<rowVars, hook, timerVars, drainVars, call, midCrash, restarts,
                 revivals>>

\* The bootstrap's notify(), once folders and identities are in.
BootNotify ==
  /\ runner = "live" /\ bootDue
  /\ bootDue' = FALSE
  /\ Notify(FALSE)
  /\ UNCHANGED <<rowVars, hook, runner, wakeTimer, snap, task, call, midCrash,
                 boundVars>>

CallStep(c) ==
  CallLoad(c) \/ CallRegister(c) \/ CallLeave(c) \/ CallRecheck(c)

TaskStep(r) ==
  TaskSkip(r) \/ TaskClaim(r) \/ TaskUnclaimed(r) \/ TaskSettle(r)

Process(r) == ProcessOk(r) \/ ProcessRetryable(r) \/ ProcessTerminal(r)

DrainStep ==
  DrainLoad \/ DrainEmpty \/ DrainArmWake \/ DrainWaveDone \/ DrainStopped

StartStep == Start \/ RecoverConflict \/ RecoverReset \/ BootNotify

Next ==
  \/ \E r \in Rows : \/ Insert(r) \/ InsertHook(r) \/ Revive(r) \/ Abandon(r)
                     \/ ConvertToDiscard(r) \/ BackoffElapses(r)
                     \/ TaskStep(r) \/ Process(r) \/ ProcessCheckpoint(r)
                     \/ TaskClaimFails(r) \/ TaskSettleFails(r)
  \/ \E c \in Callers : CallStep(c)
  \/ NotifyTimerFires \/ WakeTimerFires \/ DrainRequest
  \/ DrainStep \/ DrainFails \/ StartStep \/ StopDone
  \/ Stop \/ Crash \/ RecoverFails

Spec == Init /\ [][Next]_vars

(***************************************************************************)
(* Fairness: the event loop runs every continuation, timers fire, SQLite   *)
(* answers, processRow ends (transport requests carry deadlines), and the  *)
(* application restarts the account.  Nothing obliges a user to insert,    *)
(* call, retry or abandon, nor the worker to die or stop.                  *)
(***************************************************************************)
Fairness ==
  /\ \A r \in Rows : /\ WF_vars(InsertHook(r))
                     /\ WF_vars(BackoffElapses(r))
                     /\ WF_vars(TaskStep(r))
                     /\ WF_vars(Process(r))
  /\ \A c \in Callers : /\ WF_vars(CallRegister(c)) /\ WF_vars(CallLeave(c))
                        /\ WF_vars(CallRecheck(c))
  /\ WF_vars(NotifyTimerFires) /\ WF_vars(WakeTimerFires)
  /\ WF_vars(DrainStep) /\ WF_vars(StartStep) /\ WF_vars(StopDone)

FairSpec == Spec /\ Fairness

(***************************************************************************)
(* Properties.                                                             *)
(***************************************************************************)
Running == {"running", "ok", "retry", "conflict"}

\* Two mutations of one lane are never worked on at once, whatever the waves,
\* notifications and restarts that dispatched them: the promise chains of
\* _dispatch and the whole-wave barrier of _drainLoop together.
LaneExclusion ==
  \A q, r \in Rows :
    q # r /\ LaneOf[q] = LaneOf[r] => ~(task[q] \in Running /\ task[r] \in Running)

\* A task works on a row only while the table says in flight, so no retry,
\* abandon or second dispatch can touch it meanwhile (_claimInFlight).
RunningHoldsRow ==
  \A r \in Rows : task[r] \in Running =>
    status[r] = "in_flight" /\ (r \in converted) = snap[r].converted

\* A registered caller waits only for a row that can still settle: whoever
\* settled the row before the caller was visible, the caller's second look
\* finds it (_awaitMutation), so no caller waits for an answer already given.
AwaiterHasLiveRow ==
  \A c \in Callers : call[c].pc = "waiting" => status[call[c].row] \in Live

\* While nothing drains, and unless a statement of the database failed (then a
\* drain ends without a waker), a row that is ready now has something to wake
\* the runner: a hook, a timer, the bootstrap, or a caller about to notify.
\* A row backing off has the wake-up timer or one of these.
Waker ==
  \/ bootDue \/ notifyTimer \/ wakeTimer \/ hook # {}
  \/ \E c \in Callers : call[c].pc = "registered"

WakeCovered ==
  runner = "live" /\ drain = "idle" /\ dbFailures = 0
  /\ (\E r \in Rows : status[r] \in Queued) => Waker

\* What a caller was told is so.  "ok": the row is gone for good.  "failed" for
\* a row never to be replayed: it is parked, and no later pass takes it up.
AnswersAgree ==
  \A c \in Callers :
    /\ call[c].answer = "ok" => status[call[c].row] = "gone"
    /\ call[c].answer = "failed" /\ call[c].row \in Unsafe =>
         status[call[c].row] = "conflicted"

\* A row whose worker died past the point of no return is never worked on
\* again: recoverStranded parks it, and if recovery itself fails it stays
\* stranded in flight, out of every drain's reach.
InterruptedIsParked ==
  \A r \in midCrash : status[r] \in {"in_flight", "conflicted"} /\ task[r] = "none"

\* The retry budget: only a restart can buy a row one attempt more, although
\* the cap is judged on the dispatched copy and recovery keeps the count.
AttemptBudget == \A r \in Rows : attempts[r] <= MaxAttempts + restarts

\* stop() resolves to a quiesced runner: nothing is drained, no task runs and
\* every registered caller has been answered.
StopQuiesces ==
  runner = "stopped" =>
    /\ drain = "idle" /\ \A r \in Rows : task[r] = "none"
    /\ \A c \in Callers : call[c].pc \notin {"registered", "waiting"}

\* No write to the same server state overtakes an older one of its lane: what
\* the comment over _dispatch says of identity, settings and subscription
\* writes.
NoOvertaking ==
  [][\A q, r \in Rows :
       (q < r /\ LaneOf[q] = LaneOf[r] /\ task[r] = "running" /\ task'[r] = "ok")
         => status[q] \notin Live \/ q \in converted]_vars

\* Whoever called runMutation on an existing row is answered, through crashes,
\* stops, retries and races with the background drain.
EveryCallAnswered ==
  \A c \in Callers : call[c].pc # "idle" ~> call[c].pc = "done"

\* Every inserted row is settled: deleted or parked.
EveryRowSettles ==
  \A r \in Rows : status[r] = "pending" ~> status[r] \in Settled
=============================================================================
