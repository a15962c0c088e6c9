----------------------------- MODULE SendLater -----------------------------
(***************************************************************************)
(* Send Later: what becomes of a message whose submission the server holds *)
(* until a target time.                                                    *)
(*                                                                         *)
(* The server releases the submission, or somebody cancels it first; the   *)
(* message sits in Scheduled meanwhile.  The client keeps a status column  *)
(* and a cached placement.  Submission passes, single flight and started   *)
(* by pushes, folder opens and one wake timer, bring the column up to date *)
(* and hand a settled schedule to the outbox: a move to Sent, or a cancel  *)
(* operation that revokes the submission and restores the draft.           *)
(*                                                                         *)
(* Passes, operations, the sync of the mail and other devices interleave   *)
(* at every await.  The other devices run the same program.                *)
(***************************************************************************)
EXTENDS Naturals, FiniteSets

CONSTANTS
  CancelRows,     \* outbox rows of type cancelScheduledSend
  MaxAttempts,    \* attempts the outbox gives a row
  MaxFaults       \* bound on failed or lost calls and deaths of the worker

ASSUME SendLaterAssumption ==
  /\ IsFiniteSet(CancelRows) /\ CancelRows \cap {"move", "none"} = {}
  /\ MaxAttempts \in Nat \ {0} /\ MaxFaults \in Nat

VARIABLES
  decided,    \* the server: how the submission ended, "no" while it is held
  kept,       \* the server still shows the submission
  place,      \* the server: the mailboxes the message is in
  clock,      \* 0 before the target, 1 after it, 2 when it must be released
  status,     \* database: scheduled_undo_status
  cached,     \* database: the folders the cached message is in
  rows,       \* database: the outbox rows
  op,         \* the operation the lane of the message runs
  pass,       \* the submission pass
  wake,       \* the wake timer, and what it was armed for
  mail,       \* a mail sync that has read the placement, not yet written it
  asked,      \* history: a trigger came and no pass has loaded its rows since
  told,       \* history: a cancel was reported successful
  faults      \* faults so far

serverVars == <<decided, kept, place, clock>>
dbVars == <<status, cached>>
ghostVars == <<asked, told>>
vars == <<serverVars, dbVars, rows, op, pass, wake, mail, ghostVars, faults>>

Mailboxes == {"scheduled", "drafts", "sent"}
Jobs == CancelRows \cup {"move"}
Settled == {"canceled", "final"}
Undo == Settled \cup {"pending"}
NoRow == [st |-> "none", attempts |-> 0]
NoOp == [job |-> "none", pc |-> "idle", seen |-> "gone", copy |-> {}]
NoPass == [pc |-> "idle", queued |-> FALSE, held |-> FALSE, status |-> "null",
           inside |-> FALSE, seen |-> "gone", clock |-> 0, unresolved |-> FALSE]
NoMail == [on |-> FALSE, copy |-> {}]

TypeOK ==
  /\ decided \in {"no", "canceled", "final"} /\ kept \in BOOLEAN
  /\ place \subseteq Mailboxes /\ cached \subseteq Mailboxes
  /\ clock \in 0..2
  /\ status \in Undo \cup {"null"}
  /\ rows \in [Jobs -> [st : {"none", "queued", "running", "conflicted"},
                        attempts : 0..MaxAttempts + MaxFaults]]
  /\ op \in [job : Jobs \cup {"none"},
             pc : {"idle", "start", "fetch", "decide", "restore", "reconcile",
                   "persist", "clear", "move", "apply"},
             seen : Undo \cup {"gone"}, copy : SUBSET Mailboxes]
  /\ pass \in [pc : {"idle", "load", "fetch", "write", "handoff", "arm"},
               queued : BOOLEAN, held : BOOLEAN, status : Undo \cup {"null"},
               inside : BOOLEAN, seen : Undo \cup {"gone"}, clock : 0..2,
               unresolved : BOOLEAN]
  /\ wake \in {"none", "pending", "soon"}
  /\ mail \in [on : BOOLEAN, copy : SUBSET Mailboxes]
  /\ {asked, told} \subseteq BOOLEAN
  /\ faults \in 0..MaxFaults
  /\ \A j \in Jobs : rows[j].st = "running" <=> op.job = j

\* The worker has just started; the schedule is cached and tracked, cached only,
\* or unknown, made on another device.
Init ==
  /\ decided = "no" /\ kept = TRUE /\ place = {"scheduled"} /\ clock = 0
  /\ status \in {"pending", "null"}
  /\ cached \in {{"scheduled"}, {}} /\ (status = "pending" => cached # {})
  /\ rows = [j \in Jobs |-> NoRow] /\ op = NoOp
  /\ pass = [NoPass EXCEPT !.pc = "load"]
  /\ wake = "none" /\ mail = NoMail
  /\ asked = TRUE /\ told = FALSE /\ faults = 0

Fault == faults < MaxFaults /\ faults' = faults + 1

\* What EmailSubmission/get answers.
Record == IF ~kept THEN "gone" ELSE IF decided = "no" THEN "pending" ELSE decided

\* The server refuses to cancel what was released or is gone.
ServeCancel == decided' = IF Record = "pending" THEN "canceled" ELSE decided

(***************************************************************************)
(* The server and the other devices.                                       *)
(***************************************************************************)
Local == <<dbVars, rows, op, pass, wake, mail, ghostVars, faults>>

\* The target passes.  The release may come a bounded time after it.
Tick ==
  /\ clock < 2 /\ (clock = 1 => decided # "no")
  /\ clock' = clock + 1
  /\ UNCHANGED <<decided, kept, place, Local>>

Release ==
  /\ clock >= 1 /\ decided = "no"
  /\ decided' = "final"
  /\ UNCHANGED <<kept, place, clock, Local>>

\* The server may drop the record of what is over.
Reap ==
  /\ decided # "no" /\ kept
  /\ kept' = FALSE
  /\ UNCHANGED <<decided, place, clock, Local>>

\* Another device cancels, restores the draft, or files what was released.
Elsewhere ==
  /\ \/ decided = "no" /\ decided' = "canceled" /\ UNCHANGED place
     \/ decided = "canceled" /\ "scheduled" \in place /\ place' = {"drafts"} /\ UNCHANGED decided
     \/ decided = "final" /\ "scheduled" \in place /\ place' = {"sent"} /\ UNCHANGED decided
  /\ UNCHANGED <<kept, clock, Local>>

\* The sync of the mail: Email/get, and persistEmails behind the await.
MailRead ==
  /\ ~mail.on /\ mail' = [on |-> TRUE, copy |-> place]
  /\ UNCHANGED <<serverVars, dbVars, rows, op, pass, wake, ghostVars, faults>>

MailWrite ==
  /\ mail.on /\ mail' = NoMail
  /\ cached' = mail.copy
  /\ UNCHANGED <<serverVars, status, rows, op, pass, wake, ghostVars, faults>>

(***************************************************************************)
(* Submission passes.                                                      *)
(***************************************************************************)
\* Mutant: a trigger that comes during a pass only joins it.
JoinOnly == IF pass.pc = "idle" THEN [pass EXCEPT !.pc = "load"] ELSE pass

\* _syncSubmissions: single flight, and one trailing run.
Join == IF pass.pc = "idle" THEN [pass EXCEPT !.pc = "load"]
                            ELSE [pass EXCEPT !.queued = TRUE]

\* A push, or the Scheduled folder is opened.
Trigger ==
  /\ pass' = Join /\ asked' = TRUE
  /\ UNCHANGED <<serverVars, dbVars, rows, op, wake, mail, told, faults>>

\* The timer may also be early: its delay is capped.
WakeFires ==
  /\ wake # "none" /\ wake' = "none"
  /\ pass' = Join /\ asked' = TRUE
  /\ UNCHANGED <<serverVars, dbVars, rows, op, mail, told, faults>>

Tracked == status # "null" \/ "scheduled" \in cached

PassLoad ==
  /\ pass.pc = "load"
  /\ pass' = [NoPass EXCEPT !.pc = "fetch", !.queued = pass.queued, !.held = Tracked,
                            !.status = status, !.inside = "scheduled" \in cached]
  /\ asked' = FALSE
  /\ UNCHANGED <<serverVars, dbVars, rows, op, wake, mail, told, faults>>

\* The clock is read with the answer, and an answer is taken to travel for less
\* than the observation delay.
PassFetch ==
  /\ pass.pc = "fetch"
  /\ pass' = [pass EXCEPT !.pc = "write", !.seen = Record, !.clock = clock]
  /\ UNCHANGED <<serverVars, dbVars, rows, op, wake, mail, ghostVars, faults>>

\* _handleSubmissionSyncFailure.  A queued trailing run is not made.
PassFails ==
  /\ pass.pc = "fetch" /\ Fault
  /\ pass' = NoPass
  /\ wake' = "soon"
  /\ UNCHANGED <<serverVars, dbVars, rows, op, mail, ghostVars>>

\* The status a row should have by the record the pass has seen.
NextStatus ==
  IF pass.seen # "gone" THEN pass.seen
  ELSE IF pass.status = "pending" /\ pass.clock >= 1 THEN "null"
  ELSE pass.status

ToArm(unresolved) ==
  pass' = [NoPass EXCEPT !.pc = "arm", !.queued = pass.queued, !.clock = pass.clock,
                         !.unresolved = unresolved]

\* The column is written when it differs from what was loaded; the submission of
\* a message that is not cached is adopted, with its message.
PassWrite ==
  /\ pass.pc = "write"
  /\ IF pass.held
     THEN /\ status' = IF NextStatus = pass.status THEN status ELSE NextStatus
          /\ IF NextStatus \in Settled
             THEN pass' = [pass EXCEPT !.pc = "handoff", !.status = NextStatus,
                                       !.seen = "gone"]
             ELSE ToArm(FALSE)
          /\ UNCHANGED cached
     ELSE /\ IF pass.seen = "pending" /\ pass.clock = 0
             THEN /\ status' = "pending"
                  /\ cached' = IF cached = {} THEN place ELSE cached
             ELSE UNCHANGED dbVars
          /\ ToArm(FALSE)
  /\ UNCHANGED <<serverVars, rows, op, wake, mail, ghostVars, faults>>

Active(j) == rows[j].st \in {"queued", "running"}

\* enqueueHandoff: nothing is inserted beside a row of the type that is active
\* or conflicted; whether one is active then.
Enqueue(types) ==
  IF \E j \in types : rows[j].st # "none"
  THEN UNCHANGED rows
  ELSE \E j \in types : rows' = [rows EXCEPT ![j].st = "queued"]

Live(types) ==
  \/ \E j \in types : Active(j)
  \/ \A j \in types : rows[j].st = "none"

\* Mutant: the columns are cleared as soon as the handoff is made.
ClearEarly == TRUE

\* The message has left Scheduled: the schedule is over.
Over == ~pass.inside

PassHandoff ==
  /\ pass.pc = "handoff"
  /\ IF Over
     THEN status' = "null" /\ UNCHANGED rows /\ ToArm(FALSE)
     ELSE LET types == IF pass.status = "final" THEN {"move"} ELSE CancelRows IN
          /\ Enqueue(types) /\ UNCHANGED status
          /\ ToArm(Live(types))
  /\ UNCHANGED <<serverVars, cached, op, wake, mail, ghostVars, faults>>

\* Mutant: the wake-up does not wait for the release to be observable.
NearestEager == status = "pending" /\ pass.clock < 1

\* A pending target whose release is not yet bound to have been seen.
Nearest == status = "pending" /\ pass.clock < 2

\* The result arms the timer anew; then the trailing run, if one is queued.
PassArm ==
  /\ pass.pc = "arm"
  /\ wake' = IF pass.unresolved THEN "soon" ELSE IF Nearest THEN "pending" ELSE "none"
  /\ pass' = IF pass.queued THEN [NoPass EXCEPT !.pc = "load"] ELSE NoPass
  /\ UNCHANGED <<serverVars, dbVars, rows, op, mail, ghostVars, faults>>

(***************************************************************************)
(* The outbox rows.  Those of one message share a lane.                    *)
(***************************************************************************)
\* The user can cancel what is shown as pending, also twice.
UserCancel ==
  /\ status = "pending"
  /\ \E j \in CancelRows :
       rows[j].st = "none" /\ rows' = [rows EXCEPT ![j].st = "queued"]
  /\ UNCHANGED <<serverVars, dbVars, op, pass, wake, mail, ghostVars, faults>>

Goto(pc) == op' = [NoOp EXCEPT !.job = op.job, !.pc = pc]

\* _dispatch: behind the row of the same message that is running.
Lane == op = NoOp

Begin(j) ==
  /\ Lane /\ rows[j].st = "queued"
  /\ rows' = [rows EXCEPT ![j] = [st |-> "running", attempts |-> @.attempts + 1]]
  /\ op' = [NoOp EXCEPT !.job = j, !.pc = IF j = "move" THEN "move" ELSE "start"]
  /\ UNCHANGED <<serverVars, dbVars, pass, wake, mail, ghostVars, faults>>

Succeed ==
  /\ rows' = [rows EXCEPT ![op.job] = NoRow] /\ op' = NoOp
  /\ told' = (told \/ op.job # "move")

Conflict ==
  /\ rows' = [rows EXCEPT ![op.job].st = "conflicted"] /\ op' = NoOp
  /\ UNCHANGED told

Retry ==
  /\ rows' = [rows EXCEPT ![op.job].st =
                IF rows[op.job].attempts >= MaxAttempts
                THEN "conflicted" ELSE "queued"]
  /\ op' = NoOp
  /\ UNCHANGED told

Continue(pc) == Goto(pc) /\ UNCHANGED <<rows, told>>

\* Mutant: a message whose columns are clear was canceled, wherever it is.
RestoredBlind == TRUE

\* resolveClearedCancel.
Restored == "drafts" \in cached /\ cached \cap {"scheduled", "sent"} = {}

CancelStart ==
  /\ op.pc = "start"
  /\ IF status # "null" THEN Continue("fetch")
     ELSE IF Restored THEN Succeed ELSE Conflict
  /\ UNCHANGED <<serverVars, dbVars, pass, wake, mail, asked, faults>>

CancelFetch ==
  /\ op.pc = "fetch"
  /\ op' = [op EXCEPT !.pc = "decide", !.seen = Record]
  /\ UNCHANGED <<serverVars, dbVars, rows, pass, wake, mail, ghostVars, faults>>

\* Mutant: a revocation the server refused counts as done.
RevokedBlind == TRUE

\* The server confirms the revocation.
Revoked == Record \in {"pending", "canceled"}

\* The answer is judged, and a submission not known to be canceled is revoked.
CancelDecide ==
  /\ op.pc = "decide"
  /\ CASE op.seen = "final" ->
            status' = "final" /\ Conflict /\ UNCHANGED decided
       [] op.seen = "gone" ->
            /\ UNCHANGED decided
            /\ IF clock >= 1 THEN status' = "null" /\ Conflict
                             ELSE UNCHANGED status /\ Retry
       [] op.seen = "canceled" ->
            UNCHANGED <<decided, status>> /\ Continue("restore")
       [] OTHER ->
            /\ ServeCancel /\ UNCHANGED status
            /\ IF Revoked THEN Continue("restore") ELSE Retry
  /\ UNCHANGED <<kept, place, clock, cached, pass, wake, mail, asked, faults>>

\* Scheduled -> Drafts, in one patch.
CancelRestore ==
  /\ op.pc = "restore"
  /\ place' = (place \ {"scheduled"}) \cup {"drafts"}
  /\ Continue("reconcile")
  /\ UNCHANGED <<decided, kept, clock, dbVars, pass, wake, mail, asked, faults>>

CancelReconcile ==
  /\ op.pc = "reconcile"
  /\ op' = [op EXCEPT !.pc = "persist", !.copy = place]
  /\ UNCHANGED <<serverVars, dbVars, rows, pass, wake, mail, ghostVars, faults>>

CancelPersist ==
  /\ op.pc = "persist"
  /\ cached' = op.copy /\ Continue("clear")
  /\ UNCHANGED <<serverVars, status, pass, wake, mail, asked, faults>>

CancelClear ==
  /\ op.pc = "clear"
  /\ status' = "null" /\ Succeed
  /\ UNCHANGED <<serverVars, cached, pass, wake, mail, asked, faults>>

\* runMoveToFolders: the patch, and the same move in the cache.
Filed(where) == (where \ {"scheduled"}) \cup {"sent"}

MoveSet ==
  /\ op.pc = "move"
  /\ place' = Filed(place) /\ Continue("apply")
  /\ UNCHANGED <<decided, kept, clock, dbVars, pass, wake, mail, asked, faults>>

MoveApply ==
  /\ op.pc = "apply"
  /\ cached' = Filed(cached) /\ Succeed
  /\ UNCHANGED <<serverVars, status, pass, wake, mail, asked, faults>>

\* A call of the operation fails, or its answer is lost.
CallFails ==
  /\ op.pc \in {"fetch", "decide", "restore", "reconcile", "move"} /\ Fault
  /\ op.pc = "decide" => op.seen = "pending"
  /\ \/ UNCHANGED <<decided, place>>
     \/ op.pc = "decide" /\ ServeCancel /\ UNCHANGED place
     \/ /\ op.pc = "restore" /\ place' = (place \ {"scheduled"}) \cup {"drafts"}
        /\ UNCHANGED decided
     \/ op.pc = "move" /\ place' = Filed(place) /\ UNCHANGED decided
  /\ Retry
  /\ UNCHANGED <<kept, clock, dbVars, pass, wake, mail, asked>>

\* The worker dies; the next one recovers the rows and, bootstrapped, runs a pass.
WorkerDies ==
  /\ Fault
  /\ rows' = [j \in Jobs |-> IF rows[j].st = "running"
                             THEN [rows[j] EXCEPT !.st = "queued"] ELSE rows[j]]
  /\ op' = NoOp /\ mail' = NoMail /\ wake' = "none"
  /\ pass' = [NoPass EXCEPT !.pc = "load"] /\ asked' = TRUE
  /\ UNCHANGED <<serverVars, dbVars, told>>

PassStep == PassLoad \/ PassFetch \/ PassWrite \/ PassHandoff \/ PassArm
OpStep ==
  \/ \E j \in Jobs : Begin(j)
  \/ CancelStart \/ CancelFetch \/ CancelDecide \/ CancelRestore
  \/ CancelReconcile \/ CancelPersist \/ CancelClear \/ MoveSet \/ MoveApply

Next ==
  \/ Tick \/ Release \/ Reap \/ Elsewhere \/ MailRead \/ MailWrite
  \/ Trigger \/ WakeFires \/ PassStep \/ PassFails
  \/ UserCancel \/ OpStep \/ CallFails \/ WorkerDies

Spec == Init /\ [][Next]_vars

\* Awaited calls return, ready rows are run, armed timers fire, time passes and
\* the server releases what it holds.  No push and no folder open is assumed.
FairSpec ==
  /\ Spec /\ WF_vars(PassStep) /\ WF_vars(OpStep) /\ WF_vars(WakeFires)
  /\ WF_vars(MailWrite) /\ WF_vars(Tick) /\ WF_vars(Release)

(***************************************************************************)
(* Properties.                                                             *)
(***************************************************************************)
\* A cancel is reported successful only of a submission that will never be
\* released, whatever raced it.
CancelIsTrue == told => decided = "canceled"

\* A message goes to Drafts only when its submission was canceled, and to Sent
\* only when it was released.
PlacedOnEvidence ==
  /\ "drafts" \in place => decided = "canceled"
  /\ "sent" \in place => decided = "final"

\* A trigger is never lost: a pass that loads its rows after it is under way, is
\* queued, or a timer will start one.
TriggerAnswered == asked => pass.pc = "load" \/ pass.queued \/ wake # "none"

\* The column is cleared only once the message has left Scheduled on the server,
\* or nothing is left there that could be tracked.
ClearsLast ==
  [][status # "null" /\ status' = "null" =>
       "scheduled" \notin place \/ (~kept /\ clock >= 1)]_vars

\* Every schedule ends: behind the decision of the server a moment comes at which the
\* column is clear, or at which a row in conflict shows the user that it is not.
Ends ==
  (decided # "no") ~>
    (status = "null" \/ \E j \in Jobs : rows[j].st = "conflicted")
=============================================================================
