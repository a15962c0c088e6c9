--------------------------- MODULE SendOperation ---------------------------
(***************************************************************************)
(* The durable send: one SEND row of pending_mutations, the operation the  *)
(* outbox runs for it, the mail server, and the composer that waits.       *)
(*                                                                         *)
(* Creating the Email and submitting it are two round trips.  Before each  *)
(* step that could be repeated the row records a phase and a checkpoint,   *)
(* and a resume reads them to decide what it may still do.  Requests and   *)
(* answers may be lost, a request its caller gave up on may be served      *)
(* later, local writes may fail, and the worker may die between any two    *)
(* awaits.                                                                 *)
(*                                                                         *)
(* The runner appears as one row sees it: claim, settle, retry, recover.   *)
(* When a retry happens is left open (OutboxRunner has the timers).        *)
(***************************************************************************)
EXTENDS Naturals

CONSTANTS
  Kinds,           \* the requests explored: TRUE for Send Later, FALSE for Send
  MaxAttempts,     \* the runner's retry budget
  FilingBudget,    \* CACHE_REPAIR_MAX_ATTEMPTS
  MaxCreates,      \* bound on Email/set create requests
  MaxRestarts,     \* bound on crashes plus orderly stops
  MaxDbFailures,   \* bound on failed local statements
  MaxMishaps       \* bound on those plus the deletion of the identity

ASSUME SendAssumption ==
  /\ Kinds \subseteq BOOLEAN
  /\ MaxAttempts \in Nat \ {0}
  /\ FilingBudget \in Nat \ {0}
  /\ MaxCreates \in Nat
  /\ MaxRestarts \in Nat
  /\ MaxDbFailures \in Nat
  /\ MaxMishaps \in Nat

VARIABLES
  scheduled,    \* the request is a Send Later
  \* the row
  status, attempts, phase, ckpt,
  error,        \* what error_json says of a parked row
  trust,        \* trusted-recipient rows queued beside it
  repair,       \* a DISCARD_DRAFT row was queued to finish its cleanup
  \* the server
  place,        \* where the Email of each create request is
  record,       \* a submission record for it is retained
  deliveries,   \* submissions the server accepted
  draft,        \* the composer's saved draft is still there
  buried,       \* Emails that had a scan's worth of newer ones in their folder
  creates,      \* create requests on their way
  submits,      \* submission requests on their way
  subject,      \* the Email they name
  \* the attempt in progress
  pc, resume, cp, attemptNo, reply, outcome, keepDraft,
  copies,       \* create requests issued so far; the last one is awaited
  \* around it
  up,           \* a runner is serving the account
  identity,     \* the sending identity is still known
  answer,       \* what the composer was told
  late,         \* history: a create was served after its caller gave up
  restarts, dbFailures

rowVars == <<status, attempts, phase, ckpt, error, trust, repair>>
serverVars == <<place, record, deliveries, draft, buried>>
wireVars == <<creates, submits, subject>>
attemptVars == <<pc, resume, cp, attemptNo, reply, outcome, keepDraft, copies>>
worldVars == <<up, identity, answer, late, restarts, dbFailures>>
vars == <<scheduled, rowVars, serverVars, wireVars, attemptVars, worldVars>>

Emails == 1..MaxCreates
Phases == {"null", "queued", "created", "submitting", "submitted",
           "cache_pending", "unknown"}
PostSubmission == {"submitted", "cache_pending"}
\* email 0 stands for an id not known; saved is FALSE before the first write.
Checkpoints == [saved: BOOLEAN, email: 0..MaxCreates, submission: BOOLEAN,
                filings: 0..(FilingBudget - 1), drafts: BOOLEAN]
Steps == {"idle", "start", "evidence", "probe", "create", "creating", "created",
          "submit", "submitting", "park", "destroy", "rewind", "accept",
          "reconcile", "file", "cleanup", "repair", "giveup", "settle"}
\* "retryable" and "filing" are rejectedRetryable without and with
\* submitted: true; "thrown" is an exception that reaches the runner.
Outcomes == {"none", "confirmed", "retryable", "filing", "terminal", "thrown",
             "ambiguous"}

RowType ==
  /\ status \in {"pending", "in_flight", "retry", "conflicted", "gone"}
  /\ attempts \in Nat
  /\ phase \in Phases
  /\ ckpt \in Checkpoints
  /\ error \in {"none", "plain", "submitted", "outcomeUnknown"}
  /\ trust \in Nat
  /\ repair \in BOOLEAN

ServerType ==
  /\ place \in [Emails -> {"none", "target", "sent", "moved", "gone"}]
  /\ record \in [Emails -> BOOLEAN]
  /\ deliveries \in Nat
  /\ draft \in BOOLEAN
  /\ buried \in SUBSET Emails

WireType ==
  /\ creates \in SUBSET Emails
  /\ submits \in Nat
  /\ subject \in 0..MaxCreates

AttemptType ==
  /\ pc \in Steps
  /\ resume \in Phases
  /\ cp \in Checkpoints
  /\ attemptNo \in Nat
  /\ reply \in {"none", "ok", "again", "refused"}
  /\ outcome \in Outcomes
  /\ keepDraft \in BOOLEAN
  /\ copies \in 0..MaxCreates

WorldType ==
  /\ up \in BOOLEAN
  /\ identity \in BOOLEAN
  /\ answer \in {"waiting", "sent", "failed", "unknown", "lost"}
  /\ late \in BOOLEAN
  /\ restarts \in 0..MaxRestarts
  /\ dbFailures \in 0..MaxDbFailures

TypeOK == RowType /\ ServerType /\ WireType /\ AttemptType /\ WorldType

NoCheckpoint == [saved |-> FALSE, email |-> 0, submission |-> FALSE,
                 filings |-> 0, drafts |-> TRUE]

Init ==
  /\ scheduled \in Kinds
  /\ status = "pending" /\ attempts = 0 /\ phase = "null"
  /\ ckpt = NoCheckpoint /\ error = "none" /\ trust = 0 /\ repair = FALSE
  /\ place = [e \in Emails |-> "none"] /\ record = [e \in Emails |-> FALSE]
  /\ deliveries = 0 /\ draft = TRUE /\ buried = {}
  /\ creates = {} /\ submits = 0 /\ subject = 0
  /\ pc = "idle" /\ resume = "null" /\ cp = NoCheckpoint /\ attemptNo = 0
  /\ reply = "none" /\ outcome = "none" /\ keepDraft = FALSE /\ copies = 0
  /\ up = TRUE /\ identity = TRUE /\ answer = "waiting" /\ late = FALSE
  /\ restarts = 0 /\ dbFailures = 0

(***************************************************************************)
(* Local statements and ends of an attempt.                                *)
(***************************************************************************)
\* saveCheckpoint: crossing into a post-submission phase restarts attempts.
Save(checkpoint, newPhase) ==
  /\ ckpt' = checkpoint
  /\ cp' = checkpoint
  /\ phase' = newPhase
  /\ attempts' = IF newPhase \in PostSubmission THEN 0 ELSE attempts
  /\ UNCHANGED dbFailures

MishapsLeft == dbFailures + (IF identity THEN 0 ELSE 1) < MaxMishaps

\* The statement throws and nothing is written.
SaveFails ==
  /\ dbFailures < MaxDbFailures /\ MishapsLeft
  /\ dbFailures' = dbFailures + 1
  /\ UNCHANGED <<attempts, phase, ckpt, cp>>

End(result) == pc' = "settle" /\ outcome' = result

Told(what) == IF answer = "waiting" THEN what ELSE answer

(***************************************************************************)
(* The runner's part: claim and settle.                                    *)
(***************************************************************************)
Claim ==
  /\ up /\ pc = "idle" /\ status \in {"pending", "retry"}
  /\ status' = "in_flight"
  /\ attempts' = attempts + 1
  /\ attemptNo' = attempts + 1
  /\ resume' = phase
  /\ cp' = ckpt
  /\ pc' = "start"
  /\ UNCHANGED <<phase, ckpt, error, trust, repair, serverVars, wireVars, reply,
                 outcome, keepDraft, copies, worldVars>>

AttemptGone ==
  /\ pc' = "idle" /\ resume' = "null" /\ cp' = NoCheckpoint /\ attemptNo' = 0
  /\ reply' = "none" /\ outcome' = "none" /\ keepDraft' = FALSE
  /\ UNCHANGED copies

\* The cap is judged on the attempt number taken at the claim.
RetryEnds == attemptNo >= MaxAttempts

\* Mutant: the cap forgets that the message was submitted.
ConflictIsFailure(said, told) ==
  /\ status' = "conflicted" /\ error' = said
  /\ answer' = Told(IF said = "submitted" THEN "failed" ELSE told)

\* What the row's error and the composer's answer say of each ending.
Conflict(said, told) ==
  status' = "conflicted" /\ error' = said /\ answer' = Told(told)

\* _deleteRow, _markConflicted or _markRetry, then the composer's answer.
Settle ==
  /\ pc = "settle"
  /\ \/ /\ outcome = "confirmed"
        /\ status' = "gone" /\ answer' = Told("sent") /\ UNCHANGED error
     \/ /\ outcome \in {"terminal", "thrown"}
        /\ Conflict("plain", "failed")
     \/ /\ outcome = "ambiguous"
        /\ Conflict("outcomeUnknown", "unknown")
     \/ /\ outcome = "retryable" /\ RetryEnds
        /\ Conflict("plain", "failed")
     \/ /\ outcome = "filing" /\ RetryEnds
        /\ Conflict("submitted", "sent")
     \/ /\ outcome \in {"retryable", "filing"} /\ ~RetryEnds
        /\ status' = "retry" /\ UNCHANGED <<answer, error>>
  /\ AttemptGone
  /\ UNCHANGED <<attempts, phase, ckpt, trust, repair, serverVars, wireVars, up,
                 identity, late, restarts, dbFailures>>

\* The bookkeeping write fails: the row stays in flight, nobody is answered.
SettleFails ==
  /\ pc = "settle" /\ dbFailures < MaxDbFailures /\ MishapsLeft
  /\ dbFailures' = dbFailures + 1
  /\ AttemptGone
  /\ UNCHANGED <<rowVars, serverVars, wireVars, up, identity, answer, late,
                 restarts>>

(***************************************************************************)
(* runSend, phase 0: what the checkpoint allows.                           *)
(***************************************************************************)
\* A resume in phase unknown refuses; past submission only filing is owed, and a
\* checkpoint without its two ids is parked.  Both refusals are guards: the
\* runner parks such a row before a claim can reach it.
StartPast ==
  /\ pc = "start" /\ resume \in PostSubmission \cup {"unknown"}
  /\ IF resume = "unknown"
     THEN End("ambiguous")
     ELSE /\ pc' = IF cp.email # 0 /\ cp.submission THEN "reconcile" ELSE "park"
          /\ UNCHANGED outcome
  /\ UNCHANGED <<rowVars, serverVars, wireVars, resume, cp, attemptNo, reply,
                 keepDraft, copies, worldVars>>

\* The folder lookup of a filing resume throws: a filing failure.
StartFilingFails ==
  /\ pc = "start" /\ resume \in PostSubmission
  /\ SaveFails
  /\ pc' = "repair"
  /\ UNCHANGED <<status, error, trust, repair, serverVars, wireVars, resume,
                 attemptNo, reply, outcome, keepDraft, copies, up, identity,
                 answer, late, restarts>>

Unsent == {"null", "queued", "created", "submitting"}

NextStep(checkpoint) ==
  IF resume = "submitting" /\ ~checkpoint.submission THEN "evidence"
  ELSE IF checkpoint.email # 0 THEN "submit"
  ELSE IF resume = "null" THEN "create" ELSE "probe"

\* Identity and folders resolved; the first attempt saves the checkpoint that
\* fixes the Message-ID.
StartSend ==
  /\ pc = "start" /\ resume \in Unsent /\ identity
  /\ IF cp.saved
     THEN UNCHANGED <<attempts, phase, ckpt, cp, dbFailures>>
     ELSE Save([cp EXCEPT !.saved = TRUE], "queued")
  /\ pc' = NextStep(cp)
  /\ UNCHANGED <<status, error, trust, repair, serverVars, wireVars, resume,
                 attemptNo, reply, outcome, keepDraft, copies, up, identity,
                 answer, late, restarts>>

\* Either lookup or the first save throws.
StartSendFails ==
  /\ pc = "start" /\ resume \in Unsent
  /\ SaveFails
  /\ End("thrown")
  /\ UNCHANGED <<status, error, trust, repair, serverVars, wireVars, resume,
                 attemptNo, reply, keepDraft, copies, up, identity, answer,
                 late, restarts>>

\* unknownIdentity is decided before the phase is looked at.
StartNoIdentity ==
  /\ pc = "start" /\ resume \in Unsent /\ ~identity
  /\ End("terminal")
  /\ UNCHANGED <<rowVars, serverVars, wireVars, resume, cp, attemptNo, reply,
                 keepDraft, copies, worldVars>>

(***************************************************************************)
(* Phase 1: create the Email, unless an earlier attempt did.               *)
(***************************************************************************)
\* findEmailByMessageId: every copy the operation created carries its
\* Message-ID.  The scan looks at the newest MESSAGE_ID_SCAN_LIMIT messages of the
\* folder, so a copy with that many above it counts as absent.  Inconclusive is not
\* absent.
ProbeFound ==
  /\ pc = "probe"
  /\ \E e \in Emails : place[e] = "target" /\ cp' = [cp EXCEPT !.email = e]
  /\ pc' = "created"
  /\ UNCHANGED <<rowVars, serverVars, wireVars, resume, attemptNo, reply, outcome,
                 keepDraft, copies, worldVars>>

ProbeAbsent ==
  /\ pc = "probe"
  /\ \A e \in Emails : place[e] = "target" => e \in buried
  /\ pc' = "create"
  /\ UNCHANGED <<rowVars, serverVars, wireVars, resume, cp, attemptNo, reply,
                 outcome, keepDraft, copies, worldVars>>

\* Mutant: a scan that did not run reads as an empty mailbox.
ProbeTrusted ==
  /\ pc = "probe"
  /\ pc' = "create"
  /\ UNCHANGED <<rowVars, serverVars, wireVars, resume, cp, attemptNo, reply,
                 outcome, keepDraft, copies, worldVars>>

ProbeInconclusive ==
  /\ pc = "probe"
  /\ End("terminal")
  /\ UNCHANGED <<rowVars, serverVars, wireVars, resume, cp, attemptNo, reply,
                 keepDraft, copies, worldVars>>

\* The Scheduled mailbox, the attachments or the uploads are not to be had.
PrepareFails ==
  /\ pc = "create" \/ (scheduled /\ pc = "probe")
  /\ End("retryable") \/ End("terminal")
  /\ UNCHANGED <<rowVars, serverVars, wireVars, resume, cp, attemptNo, reply,
                 keepDraft, copies, worldVars>>

CreateEmail ==
  /\ pc = "create" /\ copies < MaxCreates
  /\ copies' = copies + 1
  /\ creates' = creates \cup {copies + 1}
  /\ pc' = "creating"
  /\ UNCHANGED <<rowVars, serverVars, submits, subject, resume, cp, attemptNo,
                 reply, outcome, keepDraft, worldVars>>

\* The server serves a create, possibly one its caller gave up on.
Awaited(e) == pc = "creating" /\ e = copies

ServeCreate(e) ==
  /\ e \in creates
  /\ creates' = creates \ {e}
  /\ \/ /\ place' = [place EXCEPT ![e] = "target"]
        /\ reply' = IF Awaited(e) THEN "ok" ELSE reply
        /\ late' = (late \/ ~Awaited(e))
     \/ /\ reply' \in IF Awaited(e) THEN {"again", "refused"} ELSE {reply}
        /\ UNCHANGED <<place, late>>
  /\ UNCHANGED <<rowVars, record, deliveries, draft, buried, submits, subject, pc,
                 resume, cp, attemptNo, outcome, keepDraft, copies, up, identity,
                 answer, restarts, dbFailures>>

LoseCreate(e) ==
  /\ e \in creates
  /\ creates' = creates \ {e}
  /\ UNCHANGED <<rowVars, serverVars, submits, subject, attemptVars, worldVars>>

CreateAnswered ==
  /\ pc = "creating"
  /\ \/ reply = "ok" /\ cp' = [cp EXCEPT !.email = copies] /\ pc' = "created"
        /\ UNCHANGED outcome
     \/ reply = "again" /\ End("retryable") /\ UNCHANGED cp
     \/ reply = "refused" /\ End("terminal") /\ UNCHANGED cp
  /\ reply' = "none"
  /\ UNCHANGED <<rowVars, serverVars, wireVars, resume, attemptNo, keepDraft,
                 copies, worldVars>>

\* Deadline, dead socket, teardown, or an envelope without the call's slot: the
\* request may or may not have been served, and may yet be.  Rejected
\* credentials end the send, everything else is tried again.
CreateUnanswered ==
  /\ pc = "creating"
  /\ reply' = "none"
  /\ End("retryable") \/ End("terminal")
  /\ UNCHANGED <<rowVars, serverVars, wireVars, resume, cp, attemptNo, keepDraft,
                 copies, worldVars>>

SaveCreated ==
  /\ pc = "created"
  /\ \/ Save(cp, "created") /\ pc' = "submit" /\ UNCHANGED outcome
     \/ SaveFails /\ End("thrown")
  /\ UNCHANGED <<status, error, trust, repair, serverVars, wireVars, resume,
                 attemptNo, reply, keepDraft, copies, up, identity, answer,
                 late, restarts>>

(***************************************************************************)
(* Phase 2: submit.                                                        *)
(***************************************************************************)
\* The hold time is worked out afresh: the server may no longer allow it
\* (terminal, the Email is destroyed) or may not answer (retryable).
ScheduleRefused ==
  /\ pc = "submit" /\ scheduled
  /\ \/ pc' = "destroy" /\ outcome' = "terminal"
     \/ End("retryable")
  /\ UNCHANGED <<rowVars, serverVars, wireVars, resume, cp, attemptNo, reply,
                 keepDraft, copies, worldVars>>

\* Mutant: the phase is not recorded before the request leaves.
SubmitUnrecorded ==
  /\ pc = "submit"
  /\ submits' = submits + 1 /\ subject' = cp.email
  /\ pc' = "submitting"
  /\ UNCHANGED <<rowVars, serverVars, creates, resume, cp, attemptNo, reply,
                 outcome, keepDraft, copies, worldVars>>

\* "submitting" is on disk before the request leaves.
Submit ==
  /\ pc = "submit"
  /\ Save(cp, "submitting")
  /\ submits' = submits + 1 /\ subject' = cp.email
  /\ pc' = "submitting"
  /\ UNCHANGED <<status, error, trust, repair, serverVars, creates, resume,
                 attemptNo, reply, outcome, keepDraft, copies, up, identity,
                 answer, late, restarts>>

SubmitFails ==
  /\ pc = "submit"
  /\ SaveFails
  /\ End("thrown")
  /\ UNCHANGED <<status, error, trust, repair, serverVars, wireVars, resume,
                 attemptNo, reply, keepDraft, copies, up, identity, answer,
                 late, restarts>>

SubmitReply(r) == reply' = IF pc = "submitting" THEN r ELSE reply

\* The server accepts an Email it still has, or refuses.  onSuccessUpdateEmail
\* moves an immediate send to Sent, when its patch applies.
ServeSubmit ==
  /\ submits > 0
  /\ submits' = submits - 1
  /\ \/ /\ place[subject] \in {"target", "sent", "moved"}
        /\ deliveries' = deliveries + 1
        /\ record' = [record EXCEPT ![subject] = TRUE]
        /\ \/ place' = [place EXCEPT ![subject] = "sent"] /\ ~scheduled
           \/ UNCHANGED place
        /\ SubmitReply("ok")
     \/ /\ \E r \in {"again", "refused"} : SubmitReply(r)
        /\ UNCHANGED <<deliveries, record, place>>
  /\ UNCHANGED <<rowVars, draft, buried, creates, subject, pc, resume, cp,
                 attemptNo, outcome, keepDraft, copies, worldVars>>

LoseSubmit ==
  /\ submits > 0
  /\ submits' = submits - 1
  /\ UNCHANGED <<rowVars, serverVars, creates, subject, attemptVars, worldVars>>

\* A rejection is definitive and rewinds the phase before it is reported; a
\* terminal one destroys the Email first.
SubmitAnswered ==
  /\ pc = "submitting"
  /\ \/ reply = "ok" /\ pc' = "accept" /\ UNCHANGED outcome
     \/ reply = "again" /\ pc' = "rewind" /\ outcome' = "retryable"
     \/ reply = "refused" /\ pc' = "destroy" /\ outcome' = "terminal"
  /\ reply' = "none"
  /\ UNCHANGED <<rowVars, serverVars, wireVars, resume, cp, attemptNo, keepDraft,
                 copies, worldVars>>

\* Mutant: silence is taken for a rejection.
SubmitPresumedLost ==
  /\ pc = "submitting"
  /\ reply' = "none" /\ pc' = "rewind" /\ outcome' = "retryable"
  /\ UNCHANGED <<rowVars, serverVars, wireVars, resume, cp, attemptNo, keepDraft,
                 copies, worldVars>>

\* No answer, or an envelope without this call's slot: ask the server.
SubmitUnanswered ==
  /\ pc = "submitting"
  /\ reply' = "none" /\ pc' = "evidence"
  /\ UNCHANGED <<rowVars, serverVars, wireVars, resume, cp, attemptNo, outcome,
                 keepDraft, copies, worldVars>>

\* findSubmissionEvidence: a retained record, or an immediate send's own
\* placement in Sent.  A failed lookup is never a negative.
Submitted(e) == record[e] \/ (~scheduled /\ place[e] = "sent")

EvidenceFound ==
  /\ pc = "evidence"
  /\ cp.email # 0 /\ Submitted(cp.email)
  /\ pc' = "accept"
  /\ UNCHANGED <<rowVars, serverVars, wireVars, resume, cp, attemptNo, reply,
                 outcome, keepDraft, copies, worldVars>>

\* Mutant: no evidence is taken for proof of failure.
EvidenceAbsent ==
  /\ pc = "evidence"
  /\ End("terminal")
  /\ UNCHANGED <<rowVars, serverVars, wireVars, resume, cp, attemptNo, reply,
                 keepDraft, copies, worldVars>>

\* Mutant: no evidence is taken for success.
EvidenceAssumed ==
  /\ pc = "evidence"
  /\ pc' = "accept"
  /\ UNCHANGED <<rowVars, serverVars, wireVars, resume, cp, attemptNo, reply,
                 outcome, keepDraft, copies, worldVars>>

EvidenceUnknown ==
  /\ pc = "evidence"
  /\ pc' = "park"
  /\ UNCHANGED <<rowVars, serverVars, wireVars, resume, cp, attemptNo, reply,
                 outcome, keepDraft, copies, worldVars>>

\* parkUnknown: its own failure does not change the answer.
Park ==
  /\ pc = "park"
  /\ Save(cp, "unknown") \/ SaveFails
  /\ End("ambiguous")
  /\ UNCHANGED <<status, error, trust, repair, serverVars, wireVars, resume,
                 attemptNo, reply, keepDraft, copies, up, identity, answer,
                 late, restarts>>

\* rewindDefinitiveSubmissionRejection: the destroy may not land, the save may
\* fail, and neither changes the outcome.
DestroyEmail ==
  /\ pc = "destroy"
  /\ pc' = "rewind"
  /\ place' = [place EXCEPT ![cp.email] = "gone"] \/ UNCHANGED place
  /\ UNCHANGED <<rowVars, record, deliveries, draft, buried, wireVars, resume, cp,
                 attemptNo, reply, outcome, keepDraft, copies, worldVars>>

Rewind ==
  /\ pc = "rewind"
  /\ \/ outcome = "terminal" /\ Save([cp EXCEPT !.email = 0], "queued")
     \/ outcome = "retryable" /\ Save(cp, "created")
     \/ SaveFails
  /\ pc' = "settle"
  /\ UNCHANGED <<status, error, trust, repair, serverVars, wireVars, resume,
                 attemptNo, reply, outcome, keepDraft, copies, up, identity,
                 answer, late, restarts>>

(***************************************************************************)
(* Phase 3: the message is out, only local filing is owed.                 *)
(***************************************************************************)
\* SEND_ACCEPT_AND_QUEUE_TRUST: checkpoint and trusted recipients commit
\* together, then the composer hears of it.  cp.submission also stands for
\* trustedRecipientsQueued, which the same transaction sets.
Accept ==
  /\ pc = "accept"
  /\ Save([cp EXCEPT !.submission = TRUE], "submitted")
  /\ trust' = IF cp.submission THEN trust ELSE trust + 1
  /\ answer' = Told("sent")
  /\ pc' = "reconcile"
  /\ UNCHANGED <<status, error, repair, serverVars, wireVars, resume, attemptNo,
                 reply, outcome, keepDraft, copies, up, identity, late, restarts>>

\* Mutant: the trusted recipients are queued outside the transaction.
AcceptFailsQueued ==
  /\ pc = "accept"
  /\ SaveFails
  /\ trust' = trust + 1
  /\ End("filing")
  /\ UNCHANGED <<status, error, repair, serverVars, wireVars, resume, attemptNo,
                 reply, keepDraft, copies, up, identity, answer, late, restarts>>

AcceptFails ==
  /\ pc = "accept"
  /\ SaveFails
  /\ End("filing")
  /\ UNCHANGED <<status, error, trust, repair, serverVars, wireVars, resume,
                 attemptNo, reply, keepDraft, copies, up, identity, answer,
                 late, restarts>>

Reconcile ==
  /\ pc = "reconcile"
  /\ \/ Save(cp, "cache_pending") /\ pc' = "file"
     \/ SaveFails /\ pc' = "repair"
  /\ UNCHANGED <<status, error, trust, repair, serverVars, wireVars, resume,
                 attemptNo, reply, outcome, keepDraft, copies, up, identity,
                 answer, late, restarts>>

\* fileSentCopy and applySendLocally fetch the Email and write the cache.  A
\* body that came back incomplete (immediate sends) keeps the draft.
File ==
  /\ pc = "file"
  /\ \/ pc' = "cleanup" /\ UNCHANGED keepDraft
     \/ pc' = "repair" /\ keepDraft' \in {FALSE, ~scheduled}
  /\ UNCHANGED <<rowVars, serverVars, wireVars, resume, cp, attemptNo, reply,
                 outcome, copies, worldVars>>

\* destroyDraftEmails: each confirmed removal is saved before it is relied on.
Cleanup ==
  /\ pc = "cleanup"
  /\ \/ /\ ~cp.drafts
        /\ End("confirmed")
        /\ UNCHANGED <<attempts, phase, ckpt, cp, dbFailures, draft>>
     \/ /\ cp.drafts
        /\ draft' = FALSE
        /\ \/ Save([cp EXCEPT !.drafts = FALSE], "cache_pending")
              /\ End("confirmed")
           \/ SaveFails /\ pc' = "repair" /\ UNCHANGED outcome
     \/ /\ cp.drafts
        /\ draft' \in {draft, FALSE}
        /\ pc' = "repair"
        /\ UNCHANGED <<attempts, phase, ckpt, cp, dbFailures, outcome>>
  /\ UNCHANGED <<status, error, trust, repair, place, record, deliveries, buried,
                 wireVars, resume, attemptNo, reply, keepDraft, copies, up,
                 identity, answer, late, restarts>>

\* postSubmissionFailure: keep the row while the filing budget lasts and its
\* count can be written, else retire it.
Repair ==
  /\ pc = "repair"
  /\ \/ /\ cp.filings + 1 < FilingBudget
        /\ Save([cp EXCEPT !.filings = @ + 1], "cache_pending")
        /\ End("filing")
     \/ /\ cp.filings + 1 < FilingBudget
        /\ SaveFails
        /\ pc' = "giveup" /\ UNCHANGED outcome
     \/ /\ cp.filings + 1 >= FilingBudget
        /\ pc' = "giveup"
        /\ UNCHANGED <<attempts, phase, ckpt, cp, dbFailures, outcome>>
  /\ UNCHANGED <<status, error, trust, repair, serverVars, wireVars, resume,
                 attemptNo, reply, keepDraft, copies, up, identity, answer,
                 late, restarts>>

\* Mutant: the row retires and nobody owes its drafts.
GiveUpBare ==
  /\ pc = "giveup"
  /\ End("confirmed")
  /\ UNCHANGED <<rowVars, serverVars, wireVars, resume, cp, attemptNo, reply,
                 keepDraft, copies, worldVars>>

\* The row retires as sent; a DISCARD_DRAFT row takes over its cleanup.
GiveUp ==
  /\ pc = "giveup"
  /\ \/ /\ cp.drafts /\ ~keepDraft
        /\ repair' = TRUE
        /\ UNCHANGED <<attempts, phase, ckpt, cp, dbFailures>>
     \/ /\ cp.drafts /\ ~keepDraft
        /\ SaveFails /\ UNCHANGED repair
     \/ /\ ~cp.drafts \/ keepDraft
        /\ UNCHANGED <<attempts, phase, ckpt, cp, dbFailures, repair>>
  /\ End("confirmed")
  /\ UNCHANGED <<status, error, trust, serverVars, wireVars, resume, attemptNo,
                 reply, keepDraft, copies, up, identity, answer, late, restarts>>

(***************************************************************************)
(* What happens around it.                                                 *)
(***************************************************************************)
\* A server may forget a submission record.
RecordExpires(e) ==
  /\ record[e]
  /\ record' = [record EXCEPT ![e] = FALSE]
  /\ UNCHANGED <<rowVars, place, deliveries, draft, buried, wireVars, attemptVars,
                 worldVars>>

\* The user files the sent message elsewhere from another client.
UserMoves(e) ==
  /\ place[e] = "sent"
  /\ place' = [place EXCEPT ![e] = "moved"]
  /\ UNCHANGED <<rowVars, record, deliveries, draft, buried, wireVars, attemptVars,
                 worldVars>>

\* MESSAGE_ID_SCAN_LIMIT newer messages come into the target folder.  The scan may
\* miss what was there before, then and (if they stay) ever after.
FolderFills ==
  /\ \E e \in Emails : place[e] = "target" /\ e \notin buried
  /\ buried' = buried \cup {e \in Emails : place[e] = "target"}
  /\ UNCHANGED <<rowVars, place, record, deliveries, draft, wireVars, attemptVars,
                 worldVars>>

IdentityDeleted ==
  /\ identity /\ MishapsLeft
  /\ identity' = FALSE
  /\ UNCHANGED <<rowVars, serverVars, wireVars, attemptVars, up, answer, late,
                 restarts, dbFailures>>

\* The worker dies, and with it the composer's pending call.
Crash ==
  /\ up /\ restarts < MaxRestarts
  /\ up' = FALSE /\ restarts' = restarts + 1
  /\ answer' = Told("lost")
  /\ AttemptGone
  /\ UNCHANGED <<rowVars, serverVars, wireVars, identity, late, dbFailures>>

\* stop() waits for the attempt, then answers every awaiter.
Stop ==
  /\ up /\ restarts < MaxRestarts /\ pc = "idle"
  /\ up' = FALSE /\ restarts' = restarts + 1
  /\ answer' = Told("unknown")
  /\ UNCHANGED <<rowVars, serverVars, wireVars, attemptVars, identity, late,
                 dbFailures>>

\* Mutant: only rows with a recorded resumable phase return to the queue.
RecoverRecorded ==
  /\ ~up
  /\ up' = TRUE
  /\ \/ /\ status = "in_flight" /\ phase \in {"submitting", "unknown"}
        /\ status' = "conflicted" /\ error' = "outcomeUnknown"
     \/ /\ status = "in_flight" /\ phase \notin {"null", "submitting", "unknown"}
        /\ status' = "pending" /\ UNCHANGED error
     \/ /\ status # "in_flight" \/ phase = "null"
        /\ UNCHANGED <<status, error>>
  /\ UNCHANGED <<attempts, phase, ckpt, trust, repair, serverVars, wireVars,
                 attemptVars, identity, answer, late, restarts, dbFailures>>

\* recoverStranded on the next runner.  A null phase satisfies no NOT IN.
Recover ==
  /\ ~up
  /\ up' = TRUE
  /\ \/ /\ status = "in_flight" /\ phase \in {"submitting", "unknown"}
        /\ status' = "conflicted" /\ error' = "outcomeUnknown"
     \/ /\ status = "in_flight" /\ phase \notin {"submitting", "unknown"}
        /\ status' = "pending" /\ UNCHANGED error
     \/ /\ status # "in_flight"
        /\ UNCHANGED <<status, error>>
  /\ UNCHANGED <<attempts, phase, ckpt, trust, repair, serverVars, wireVars,
                 attemptVars, identity, answer, late, restarts, dbFailures>>

Attempt ==
  \/ Settle \/ SettleFails
  \/ StartPast \/ StartFilingFails
  \/ StartSend \/ StartSendFails \/ StartNoIdentity
  \/ ProbeFound \/ ProbeAbsent \/ ProbeInconclusive \/ PrepareFails
  \/ CreateEmail \/ CreateAnswered \/ CreateUnanswered \/ SaveCreated
  \/ ScheduleRefused \/ Submit \/ SubmitFails
  \/ SubmitAnswered \/ SubmitUnanswered
  \/ EvidenceFound \/ EvidenceUnknown \/ Park \/ DestroyEmail \/ Rewind
  \/ Accept \/ AcceptFails \/ Reconcile \/ File \/ Cleanup \/ Repair \/ GiveUp

Server ==
  \/ \E e \in Emails : ServeCreate(e) \/ LoseCreate(e) \/ RecordExpires(e)
                       \/ UserMoves(e)
  \/ ServeSubmit \/ LoseSubmit \/ FolderFills

\* The request a row carries never changes.
Same == UNCHANGED scheduled

Next ==
  /\ \/ Claim \/ Attempt \/ Server
     \/ IdentityDeleted \/ Crash \/ Stop \/ Recover
  /\ Same

Spec == Init /\ [][Next]_vars

\* Every await of an attempt ends (requests have deadlines, SQL is served in
\* turn), a ready row is claimed, a stopped account is started again.  Nothing
\* is assumed of the server.
Fairness ==
  WF_vars(Claim /\ Same) /\ WF_vars(Attempt /\ Same) /\ WF_vars(Recover /\ Same)

FairSpec == Spec /\ Fairness

(***************************************************************************)
(* Properties.                                                             *)
(***************************************************************************)
\* What the row on disk says became of the message.
Verdict ==
  IF status = "gone" \/ phase \in PostSubmission \/ error = "submitted"
  THEN "accepted"
  ELSE IF status # "conflicted" THEN "open"
  ELSE IF error = "plain" THEN "rejected" ELSE "unknown"

Promise == INSTANCE DurableSend WITH delivered <- deliveries, verdict <- Verdict

\* The send operation keeps the promise of DurableSend: no second delivery, no
\* acceptance recorded without one, and no delivery after the row was parked as
\* plainly failed (CS-1.10, send-reconcile.ts "only evidence resolves
\* ambiguity").
KeepsPromise == Promise!Spec

\* However often the row is claimed, retried, interrupted and recovered, and
\* whichever answers are lost, the server accepts at most one submission.
AtMostOneDelivery == deliveries <= 1

\* The phase on disk is never ahead of or behind the server in a way a resume
\* would act on: a post-submission phase means the server has it, a resumable
\* one that it neither has nor will get it.
CheckpointAgrees ==
  /\ phase \in PostSubmission => deliveries = 1 /\ ckpt.email # 0
                                 /\ ckpt.submission
  /\ phase \in {"null", "queued", "created"} => deliveries = 0 /\ submits = 0

\* The trusted-recipient row is queued with the acceptance checkpoint, once:
\* neither lost nor repeated when that write fails and the send resumes.
TrustOnce == trust = IF phase \in PostSubmission THEN 1 ELSE 0

\* The composer's saved draft is removed only when the message went out.
DraftOutlivesSend == ~draft => deliveries = 1 /\ phase \in PostSubmission

\* The mailbox holds two copies of the message only if the server served a create
\* after its caller had given up on it, or if the older copy had so many newer
\* messages above it that the scan for its Message-ID could miss it.  (The comment
\* on MESSAGE_ID_SCAN_LIMIT counts on a copy made moments ago; a retry after a
\* backoff or a restart looks later.)
Live(e) == place[e] \notin {"none", "gone"}
SecondCopyExplained ==
  \A e, f \in Emails : e < f /\ Live(e) /\ Live(f) => late \/ e \in buried

\* A row about to retire as sent leaves no draft behind without a repair row that
\* owes its removal, unless the draft holds the only complete body or a local
\* write failed.
CleanupOwed ==
  pc = "settle" /\ outcome = "confirmed"
    => ~draft \/ repair \/ keepDraft \/ dbFailures > 0

\* The composer is told "sent" only of a message that went out, and "failed" only
\* of one that did not and will not.
AnswerIsTrue ==
  /\ answer = "sent" => deliveries = 1
  /\ answer = "failed" => deliveries = 0 /\ submits = 0

\* Every send ends up retired or parked, and its composer is answered (or gone),
\* unless a local statement failed: then the row may stay in flight until the
\* next restart.
SendSettles ==
  <>(\/ status \in {"gone", "conflicted"} /\ answer # "waiting"
     \/ dbFailures > 0)

\* compose-store.ts and send.ts: a message the server accepted is never reported
\* as a failed send.
AcceptedNotReportedFailed == answer = "failed" => deliveries = 0

\* send.ts, postSubmissionFailure: "a message that went out must not end up as a
\* conflicted row asking the user to intervene".
DeliveredRetires == status = "conflicted" => phase \notin PostSubmission
=============================================================================
