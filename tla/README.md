# Stormbox in TLA+

Stormbox is a mail client that keeps its mailbox in a local SQLite database and
talks JMAP to the server from a worker. This directory models the part of it
whose correctness is hardest to see from the code and to reach with tests: the
durable write path, and the ways in which what the server knows and what the
client believes are brought together again. Everything a user does is a row of
`pending_mutations`; an outbox runner pushes the rows to the server; a send must
go out exactly once, a draft must not be lost, a scheduled message must be
cancelled or sent but not reported as both, two devices must not undo each
other's settings, a deleted contact must have a copy to come back from, and no announcement of a change may get lost, although the
network, the database and the worker may fail between any two steps.

Paths below are relative to the repository's `src/`; `JMAP/` stands for
`sync/backends/jmap/`.

## 1. Inventory

| Component | State | Operations | Talks to | What makes it correct | Modelled in |
|---|---|---|---|---|---|
| Outbox runner (`JMAP/outbox-runner.ts`) | row columns `local_status`, `attempts`, `not_before`, `phase`; one drain pass, lane chains, two timers, awaiters | `notify`, `runMutation`, `drain`, `stop`, `recoverStranded`, claim and settle | database handlers, `processRow` of every mutation type, backend | lanes exclude, a claim holds its row, no awaiter is stranded, no wake-up is lost, an interrupted irreversible row is never replayed, every row settles | `OutboxRunner` |
| Send operation (`JMAP/outbox/operations/send.ts`, `send-checkpoint.ts`, `send-reconcile.ts`, `outbox/send-apply.ts`, `outbox/draft-apply.ts`) | phase and checkpoint of the row | create, submit, probe, evidence, park, rewind, accept, file, clean up, give up | runner, transport, database, composer | one delivery, a checkpoint that agrees with the server, no false failure, one copy, no orphaned draft | `SendOperation`, `DurableSend` |
| Compose store (`stores/compose-store.ts`) | compose sessions: text, seed, confirmed draft, failed save, close operation | edit, autosave, save and close, Don't save, discard, send | runner through the sync client | the user is told the truth about a send, no confirmed text is lost | `DraftSession`, `SendOperation` |
| Draft operations (`JMAP/outbox/operations/drafts.ts`) | phase and checkpoint of a draft save | probe, create, apply, clean up, discard | runner, server | one current copy, none lost, a discard takes all | `DraftSession` |
| Send Later (`JMAP/outbox/operations/cancel-scheduled-send.ts`, `JMAP/submissions.ts`) | scheduled columns of a message, submission pass, wake timer | cancel, submission pass, hand-off, filing | server, runner, mail sync, other devices | cancelled or sent, never reported as both; no trigger lost; it ends | `SendLater` |
| JMAP backend (`JMAP/backend.ts`) | started flag, pending StateChange, retries, reconnect timer, view lock | start, bootstrap, stop, StateChange dispatch, reconnect | all of `JMAP/` | no change signal is lost, one socket, a stop is final | `PushChannel` |
| Transport (`JMAP/transport.ts`) | pending requests, socket | request, open, close, abort | server | each request ends once, events of an old socket are ignored | `PushChannel` (socket) |
| Query views and message sync | `query_views` and their items, sync states | window load, queryChanges, index | database, transport | a view equals what the server lists at its state | the lock only |
| Settings (`JMAP/settings.ts`, `JMAP/file-node.ts`, `constants/settings-document.ts`) | a JSON document in the database and a file on the server | edit, pull, push, migrate | server, other devices | no edit of two devices is lost, nothing is taken back | `SettingsDocument` |
| Contacts trash (`JMAP/contacts-trash.ts`, `constants/contacts-trash-document.ts`, `JMAP/outbox/operations/contacts.ts`) | each device's files of records, their copies in every database, a projection, the readiness gate | delete with a snapshot, restore, delete forever, expire, pull, push, repair | server, database, other devices | a card is destroyed only behind an uploaded snapshot, every record is uploaded, a contact that is no card can be restored | `ContactsTrash` |
| Contacts, address books, identities | phases of their rows | create, update, destroy | runner, server | create is idempotent | opaque rows |
| Mail store and message mutations (`stores/mail-store.ts`) | optimistic overlay | move, destroy, keywords, subscriptions, cancel | runner, database | the overlay is undone exactly when the mutation fails | cancel only |
| Sync host and client (`sync/`) | backends by account | start and stop an account | backend | one backend per account | |
| Database engine, handlers, worker ownership (`db/`) | tables, ownership lock | statements, transactions, handover | all | transactions are atomic, one writer | as used by the modules |
| Authentication, bodies, quota, autocomplete, UI, scripts | caches | request and response | | no interleaving of interest | |

Two kinds of concurrency run through all of this. Inside the worker it is
cooperative: code runs between two `await`s without interruption, so an action
of a model is exactly such a stretch. Around it there are the server, other
clients, the user, and the end of the worker, which may happen anywhere.

How the parts meet: the composer, the mail store, the settings store and the
submission pass insert rows; the runner claims them and calls the operation of
their type; the operation talks to the server through the transport and writes
its phase through the database handlers; the backend hears of the results, and of
what other clients did, through the push channel, and its passes write the cache
the user sees. Each module below is one of these parts with the others reduced to
what it sees of them.

What is hard here and hardly reachable by a unit test is listed, line by line,
as `hazards` in `PROJECT.json`: the second look of `runMutation`, a `notify`
that falls into a drain, the stale copy a lane dispatches, the NULL phase in
`recoverStranded`, the attempt number taken before a reset, the submission whose
answer never comes, the create served after its caller gave up, the save taken
back while its answer is under way, the cancel that races the release, the frame
that arrives while its type is being read, the document written several awaits
after it was merged, the snapshot that an interrupted delete left without its upload.

## 2. Modules

| Module | Contents |
|---|---|
| `OutboxRunner` | the runner with rows, lanes, timers, callers, crash, stop and restart; `processRow` is opaque |
| `SendOperation` | one SEND row: operation, server, network, composer; the runner as one row sees it |
| `DurableSend` | the promise of a send, without phases or retries |
| `DraftSession` | one compose session with its SAVE_DRAFT and DISCARD_DRAFT rows, server and network |
| `SendLater` | one scheduled message: server, submission pass, cancel, filing, mail sync, another device |
| `PushChannel` | socket, supervisor, StateChange pass and its retries, catch-up reads |
| `SettingsDocument` | the settings of several devices and the files they share |
| `ContactsTrash` | one contact, the devices that delete, restore and purge it, and the files they share |
| `MCOutboxRunner`, `MCSendOperation`, `MCDraftSession`, `MCPushChannel`, `MCSettingsDocument`, `MCContactsTrash` | the small constants of the runs (`SendLater` needs none) |
| `RunnerProofs` | about `OutboxRunner`: types, lanes, claims, awaiters, `stop()`, recovery |
| `SendProofs`, `SendRefinement` | about `SendOperation`; it implements `DurableSend` |
| `SendLaterProofs`, `PushProofs`, `SettingsProofs` | about the module each is named after |
| `DraftProofs` | about `DraftSession`: types, one copy, complete discards, confirmed text kept |
| `TrashProofs` | about `ContactsTrash`: types, every record uploaded or owed, no destroy without a snapshot, no contact lost |

No module that a proof reaches declares a RECURSIVE operator.

### OutboxRunner

`status`, `attempts`, `notBefore` and `phase` are the columns of a row;
`"unborn"` and `"gone"` are rows not in the table. `not_before` is kept as
NULL, ahead or reached, and `BackoffElapses` moves the clock. `phase` is what
`MUTATION_RECOVERY_POLICIES` tells apart: NULL, replayable, completed, and
anything else (irreversible). `abandoned` is what PENDING_MUTATION_ABANDON_DRAFT
made of a row.

`drain` is the single pass of `_kickDrain`/`_drainLoop`: loading, running a wave,
or querying the next wake-up. A wave captures `snap`, the row values as loaded;
`task` is where each dispatched row is. `TaskClaim` is the compare-and-set of
`_claimInFlight` together with its read-back; `TaskSettle` is the bookkeeping write and
the awaiters resolved behind it. `call` follows `runMutation` through its two
looks. `Crash`, `Stop`, `StopDone`, `Start` and the two statements of
`recoverStranded` are the life cycle. Any database statement may fail
(`...Fails`), as often as `MaxDbFailures`.

Left out: progress listeners, tallies of `drain()`, the foreground counter, the
wording of errors. Rows of one lane stand for any lane: lanes interact only
through batch and wave.

### SendOperation

`scheduled` tells an immediate send from a Send Later and is fixed at the start, from
`Kinds`. The row (`status`, `phase`, `ckpt`, ...), the server (`place` of the Email of each
create request, `record` of its submission, `deliveries`), the wire (`creates`,
`submits`), the attempt (`pc`, `resume`, `cp`, ...) and the world (`up`,
`identity`, `answer`). One step per await of `runSend`. A request may be
lost, answered, or served after its caller gave up; `EvidenceUnknown` covers an
inconclusive lookup as well as a retained record nobody can see any more;
`RecordExpires` and `UserMoves` take evidence away. The probe by Message-ID reads the newest
`MESSAGE_ID_SCAN_LIMIT` (100) messages of the folder only: `FolderFills` puts that many above
what is there, `buried` remembers it, and `ProbeAbsent` may miss a buried copy.

Simplifications, each with its reason:

- When a retry takes place is left open; `OutboxRunner` has the timers.
- `cp.submission` also stands for `trustedRecipientsQueued`, which the same transaction
  sets.
- `StartPast` can refuse a row in phase unknown and park a post-submission one whose
  checkpoint lacks its ids. The code calls the latter a guard; neither branch is taken
  in the model (`recoverStranded` parks the one, `CheckpointsAgree` excludes the other).
- A request has a recipient, its phase is one the build knows and its checkpoint can
  be read: the ends for the opposite are decided before anything is sent.
- After a crash the composer's call is gone: its answer is `"lost"`.
- Only submission answers that speak of this call's slot count as answers; all others
  are `SubmitUnanswered`.

### DurableSend

Two variables: how often the message was delivered, and what the row on disk says of
it (`open`, `accepted`, `rejected`, `unknown`). It never delivers twice, never
says accepted of a message that is not out, and never delivers one it called
rejected. Only an unknown one may still go out. `SendOperation` maps `Verdict`
onto it.

### DraftSession

`session` is the entry of the compose store (`text` and `seed` number the edits;
`confirmed` is the copy the session believes in; `op` is the close operation under
way; `saving`, `failed` and `pend` name the row each refers to). `row` holds the
outbox rows of the session with the checkpoint of `runSaveDraft`; `task` is the
request an attempt waits for: the check of its bases, the probe for a copy a lost
answer may have left, the create, the fetch-and-apply, the destroy. A save whose
answer was lost is found by its revision Message-ID, which is why an Email is named
by the row that created it. `Abandon` is PENDING_MUTATION_ABANDON_DRAFT: delete,
keep, or convert into the DISCARD_DRAFT of what the row may have left on the server.

Left out: attachments and the blobNotFound path that uploads them again before the
same create; recipients and identity, which are part of the text; the `queued`
follow-up flag and the `held` state of autosave, which only decide when the next save
begins; a probe that finds its draft changed by another client; two close operations
at once (the dialog is modal); failing database statements (the runner has them).
The session is lost when the worker dies with the tab. A late create may leave one
copy for each time it happened, which the properties allow for.

### SendLater

One message. `decided`, `kept`, `place` and `clock` are the server: how the
submission ended, whether its record is still shown, where the message is, and
whether the target is ahead, reached, or long past. `status` and `cached` are the
columns. `pass` is `syncSubmissionsForAccount` behind the single flight of
`_syncSubmissions`; `op` runs the rows of the message's lane, `runCancelScheduledSend`
with its resume and `runMoveToFolders`; `mail` is a mail sync that has read the
placement and not yet written it; `Elsewhere` is the same program on another device.

Left out: more than one message (the pass treats them independently); clients other
than Stormbox; the move path for numeric mailboxes; retries of a conflicted row by
the user. Both role folders exist. An answer takes less time than the delay of the
observation timer, and the server releases within it. The adoption of a submission
found on the server is one step.

### PushChannel

`log` is the server's history, a sequence of changed types; `told` is how far the open
socket has been told, `stored` and `lastPush` are push states, and `synced` is the
position each type was read at. `link` and `run` are `openWebSocket` with its shared
open and its callers, bootstrap and reconnects; `timer` is the supervisor's one timer.
`pending`, `pass` and `retry` are the bucket, the pass and the failed types of
`_onStateChange` and `_doStateChange`; `reading` is a read in progress: what it has
seen and not yet written. `Locked` are the types behind `_withViewRefreshLock`.
`Start` and `BootOpens` are the bootstrap up to its open: the types of `AtStart` (identities,
for one) are read before it, a failure of such a read is swallowed; the views (`AtBoot`) are
read for the first time once it listens. Nothing counts as read because a worker started.

Left out: requests over the socket and their deadlines; the views and windows behind a
type; the growth of the delays. Observations made on the way: a bootstrap whose open
fails stays on HTTP until the credential is renewed (`CatchesUp` excepts it); a
catch-up read that fails is only logged and waits for the next frame or open; a type
without a lock can be overwritten by an older read. After the stop nothing changes on
the server and the worker does not die: nothing of it would be seen.

### SettingsDocument

`doc`, `queued` and `parked` are the database of each device: its document and the
single push row `ensureSinglePushInTx` maintains. `push` and `pull` are
`pushSettings` and `syncSettingsFromServer` in progress, `current` and `legacy` the
file and its place in older releases. An entry is the stamp and the device of the edit
that wrote it; equal stamps are resolved as `mergeSettingsDocuments` does. A write is
conditional on the FileNode state its read saw.

Left out: the staging of edits in the browser before they reach the database; the
retry timers (a row may be parked after any failure); the reads of the two places are
one step, as are the two merges of a push and the merge and repair of a pull.

### ContactsTrash

One contact. `cards` and `remote` are the server: the cards with its uid, and the
content of the trash files, of which every device has one for snapshots and one for
tombstones. `docs`, `dirty`, `known` and `listed` are the database of a device:
`contacts_trash_documents` (the copy of every file, whether it has records to push, the
content behind `remote_blob_id`) and the projected row of `contacts_trash`. What counts
is the latest record of all files (`Top`, by `contactTrashEntryWins`). `rows` and
`waiting` are the queue of the account's lane, `lane` the row that runs: a delete
(`Fetch`, `Stage`, push, `Destroy`), a restore (`Lookup`, `Create`, `Reconcile`, then
`SetStatus`), a purge (`SetStatus`) or a push. Pushes are `pushContactsTrash`: read,
merge, write if nothing was changed, confirm. `pull` is the refresh in progress, which runs beside
the rows, `ready` the gate in front of them, `news` and `frames` the StateChange
frames on their way. A call may fail, be served with its answer lost, or be refused; the worker
may die anywhere; another client may edit the card. `deleting` is a history of who was to
delete the contact, for the exception of `ContactKept`.

Left out: the size limit of a file, its rotation and the split of a batch that is too
large; the move of files from where older releases kept them; media, rights and
address book membership; duplicate uids, and batches of several contacts, which are
handled one by one within a call; cards another client creates or destroys. A refused
push rolls its records back in the same step, and a server answers a refused destroy as
often as any other failure.

## 3. Runs

| Run | Question | Result |
|---|---|---|
| `RunnerFaults` | lanes, claims, budget, recovery, answers, awaiters, wake-ups and `stop()`, with one failing statement, one crash or stop, a user retry and an abandon | holds |
| `RunnerLive` | every call is answered, every row settles | holds |
| `RunnerOvertaking` | does a lane keep its writes in order? | no (finding 1) |
| `SendFaults` | the safety of a send, immediate or scheduled, its refinement of `DurableSend`, and does it settle, with two restarts and one mishap? | holds |
| `SendIdentityGone` | is an accepted message never reported as failed? | no (finding 2) |
| `SendLastAttempt` | is a delivered message never left as a conflicted row? | no (finding 3) |
| `DraftFaults` | is confirmed text kept, one copy left, a discard complete, a saved flag true, and every edit saved? | holds |
| `DraftDontSave` | does Don't save keep a copy of the draft? | no (finding 4) |
| `PushChannel` | is every announced change applied or still owed, does a stop leave nothing behind, does the cache catch up, also with what changed while no worker ran, and never go back? | holds |
| `SendLater` | is a cancel reported truly, a message filed on evidence only, every trigger taken up, and does it end? | holds |
| `Settings` | is no edit lost, nothing taken back, and do the devices converge? | holds |
| `ContactsTrash` | is a card destroyed only behind its uploaded snapshot, every record uploaded or owed, and a contact that is no card still to be had, unless a restore met a delete of another device? | holds |

### Bounds

- *Runner.* Two rows that share a lane suffice for exclusion, overtaking, stale copies
  and batches. `BatchSize` is 1 or 2 against 50 in the code: with 1 the queue is longer
  than a batch. `MaxAttempts` 1 makes the first attempt the last one, so that the budget
  bites at once, and a user retry (`MaxRevivals`) or a restart adds to it; 2, in
  `RunnerLive`, has a first try and a retry. `MaxRestarts` counts crashes and stops.
  `WakeCovered` holds as long as no statement failed, because a drain whose query fails
  really leaves no waker behind; the other invariants hold with the failure.
- *Send.* `MaxAttempts` 2: a first try and the last one; two restarts buy two more, and let an
  attempt be interrupted, recovered, and its recovery interrupted. `MaxCreates` is at
  least attempts plus restarts wherever a property holds, so that the bound never blocks
  a create. `FilingBudget` 2: one failure that keeps the row and one that retires it.
  `SendFaults` has one mishap, a failed write or a deleted identity: a failed
  acceptance write followed by a missing identity is finding 2.
- *Draft.* Two rows: a save and the one that follows it or discards it. Two edits let one
  arrive while the other is being saved. One create may be served late, one copy may be
  removed by another client, the worker may die once. `DraftDontSave` needs neither.
- *Push.* Two types, one read behind the view lock and one not; two changes let a frame
  arrive while its type is being read, or fall into a time without a worker; two faults let a retry fail again.
- *Send Later.* One cancel row beside the hand-off row and the other device; one fault,
  two attempts.
- *Settings.* Two devices and one key (keys are merged independently), two edits, so that
  both devices edit, or one edits twice; one fault.

- *Contacts trash.* Two devices: the laptop deletes, both restore, the phone purges, both
  pull. Two requests, expiries or edits in all: a delete meets an edit, a purge or an expiry, or is
  followed by a restore. One reading of the clocks, so that every order of two records rests on
  `Stamp` and on the tie-break. One mishap. Two starting points: a contact never trashed, and one trashed
  before, which has used up a request or a mishap. There is an id for every card the
  requests can create. The model is too large for a liveness property.

`CHECK_DEADLOCK FALSE` in all of them: once the rows are settled and the faults used up
there is nothing left to do.

### Fairness

Always weak, and always of what the program's own scheduling does: the event loop
runs continuations, armed timers fire, SQLite serves statements, the runner claims what
is queued, and every request ends (each has a deadline). `RunnerLive` also lets the
application start the account again. In `PushChannel` a single condition covers all of
this work: it does not rest while any of it can go on; changes and faults are finite.
Nothing is assumed of the user, of other clients or of the end of the worker. In
`SendOperation` the server may never answer; in `SendLater` it does release what it
holds, and time passes, but no push and no folder open is assumed.

`RunnerLive` has `MaxDbFailures = 0`: a row whose settling write fails stays in flight
until the next restart, which nothing forces. `EditsSettle` excepts a session whose
rows are all used (`Fresh = {}`), which is the bound's doing. `CatchesUp` excepts a
backend whose bootstrap could not open the socket, or for which a read at the bootstrap or a
reconnect failed, and is about the types read behind every open: those read only before it
are not promised more than the frames bring. `SendSettles`, checked in
`SendFaults`, excepts an execution with a failed statement, for the same reason as `RunnerLive`.

### Findings

1. *Overtaking.* The comment over `_dispatch` says that account lanes keep updates of
   the same server state from overtaking one another. A lane orders the rows of one wave
   only: a row that must be retried waits out its backoff while the next one of its
   lane runs, and is applied after it.
2. *Identity gone.* `send.ts:257-260` ends a row in phase `submitting` as a plain
   failure when its identity is unknown, before evidence is looked for. If the
   acceptance could not be written at the previous attempt, the user hears
   "Send failed" of a message that went out.
3. *Last attempt.* The retry cap is judged on the attempt number taken from the
   dispatched row. Acceptance resets the column, not that number, so a message
   accepted on its last attempt whose filing fails once is left as a conflicted row.
4. *Don't save.* `specs/004-compose-improvements/draft-lifecycle.md` wants the last
   confirmed draft left untouched (CD-5.3), and rather a duplicate than no copy
   (CD-4.12). A save may have had its predecessor destroyed and still fail, when
   the answers to that request were lost. `draftAbandonPlan` (`db/handlers.ts:5598`) then
   discards the successor, whatever became of the predecessor: no copy is left.

Seen on the way, without a run of its own. A restore that meets a delete of another device may
lose the contact, with no mishap at all: the laptop stages and pushes its snapshot and judges that
it still counts (`contacts-trash.ts:1041-1053`); the phone pulls it and restores,
finds the card still there, and pushes the tombstone `restored`; the laptop destroys the
card, which nobody has changed. No card is left, and the trash lists nothing to restore,
where `specs/007-contacts-trash/spec.md:3` and `specs/005-contacts-workspace/spec.md:127`
promise a recoverable delete. `ContactKept` names this as its one exception
(`RestoredAcross`: the tombstone that counts is of a device beside which another was deleting),
and TLC finds it when the exception is dropped. A lost create may be repeated though nothing was
late: the comment on `MESSAGE_ID_SCAN_LIMIT` (`send-reconcile.ts:54-56`) calls the scan sound
because the Email was made moments ago, but a retry behind a backoff or a restart looks later,
when 100 newer messages may hide it. `draft-reconcile.ts:118-120` says of its own probe that a bounded one
cannot establish absence. `SecondCopyExplained` names both ways to a second copy. Likewise a rollback or a purge of one device
tombstones by uid what another has trashed since. Elsewhere: a refresh that joins one
already under way takes its older result (`backend.ts:331-353`). With two mishaps its stale
find can make a clean file dirty again after a death of the worker, and if it then fails the error
is swallowed (`backend.ts:531`, `1732`): the trash stays marked as not current until the next
gated row, which is why `UploadOwed` counts `~ready` as a refresh that is due. A delete
whose first push failed, and that finds its card gone, settles and leaves its snapshot to
the next refresh (`CardGone`). Also: after a terminally failed discard the session keeps its
`pendingDiscardMutationId`; a settings pull gives up with an error after three
`stateMismatch` answers and waits for its next trigger; a scheduled message without push is looked at
again only when a folder is opened; FM-1.10 of `specs/003-folder-management/spec.md`
asks that the push state be stored only when nothing earlier is owed, which the code does
not do and the bootstrap makes harmless.

## 4. Proofs

The theorems hold for every value of the constants that the named assumptions of the
modules allow: any rows, lanes, types, devices and keys, any number of restarts, lost
requests and failed writes. Each module proves an inductive invariant, or a few that
build on one another, and draws the properties from them. Every invariant and every
action property that a passing run checks is stated by a theorem.

| Module | Invariant | Properties proved |
|---|---|---|
| `RunnerProofs` | `Inv` (`RunnerInvariant`) | `TypeOK`, `LaneExclusion`, `RunningHoldsRow`, `AwaiterHasLiveRow`, `AnswersAgree`, `WakeCovered`, `StopQuiesces`, `InterruptedIsParked`, `AttemptBudget` |
| `SendProofs` | `SendInv` (`SendSafe`) | `TypeOK`, `AtMostOneDelivery`, `CheckpointAgrees`, `TrustOnce`, `DraftOutlivesSend` |
| | `CopyInv`; `Honest` | `SecondCopyExplained`; `CleanupOwed`, and `AnswerIsTrue` with at most one mishap |
| `SendRefinement` | `SendInv` and `Clean` | `KeepsPromise`: `SendOperation` implements `DurableSend` |
| `SendLaterProofs` | `SendLaterInvariant`; `Traces` | types, `CancelIsTrue`, `PlacedOnEvidence`, `TriggerAnswered`; `ClearsLast` |
| `PushProofs` | `PushInvariant` | `TypeOK`, `NothingForgotten`, `StopLeavesNothing`, `NeverBack` |
| `SettingsProofs` | `SettingsInvariant` | `TypeOK`, `NoEditLost`, `NothingTakenBack` |
| `DraftProofs` | `IInv` (`Inductive`) | `TypeOK`, `DiscardTakesAll`, `OneCopyAtRest` |
| | `KeptInv` (`KeptAlways`) | `SurvivesSaving`, `SavedIsSaved` |
| `TrashProofs` | `TrashInv` (`TrashInvariant`) | `CopyFirst`, and `CleanIsUploaded`, the first half of `UploadOwed` |
| | `UploadInv`, `RestInv` | `UploadOwed`, `TypeOK` |
| | `KeptInv` | `ContactKept` |

*Runner.* None of the properties is inductive by itself. `Barrier`: tasks exist
during a wave only, and waves while the runner is alive, so recovery rewrites rows that
nobody works on. `LaneOrder`: a task past its place in the lane has no task before it,
which makes `LaneExclusion` survive the next claim. `RowInv`: a task that works on a row
holds it in flight with the values it was dispatched with, and an attempt was counted
against the budget before it began; a row interrupted past the point of no return stays out
of the queue between the two statements of recovery. `CallInv`: a caller that waits has a
live row, what it was told stays so, and no call outlives the runner it registered with.
`WakingCovered`: once a pass has found nothing ready, a row that becomes ready without a
time to wait for has a hook, a caller or a recorded notification behind it; with it
`DrainArmWake` leaves a timer for every row that is left. That the empty batch
means no ready row (`BatchFinds`) takes the least element of a finite set.

*Send.* `AtMostOneDelivery` alone is not inductive: from a state with one delivery and a
phase that allows a submission the next step breaks it. `Safe` closes the gap. A
delivery and a request under way count together (`OneSubmission`); a phase on disk
that permits submitting means neither exists (`PhaseTruth`); each step of an attempt
stands only in the phases that allow it (`StepTruth`), so that `Submit` starts from
a quiet server; an answer held is true (`ReplyTruth`); a trace of a submission
exists only if there was one (`EvidenceTruth`). The refinement adds `Clean`: a row at
rest in the queue has a phase that can be acted on, a parked one says so truthfully, an
attempt runs on a claimed row and ends with an outcome that fits its phase. Its
premise `MaxDbFailures = 0` is needed: with failing writes, finding 2 is a counterexample
as soon as the identity may go. `SendFaults` checks the refinement with one mishap.
Two more invariants rest on `Safe`. `CopyInv`: creates served late and buried copies apart, no Email of the
send is there when a create begins, and while its answer is awaited only the awaited one
may be (`CopyTruth`); so a second one comes of a late create, or of a scan that missed the first. `Honest`: an
attempt that is about to end as a failure has nothing on the wire and nothing delivered
(`FailureTruth`); a draft that an accepted send leaves is owed by a repair row, holds the only
complete body, or met a failed write (`DraftTruth`). `AnswersTrue` says
`sent` is true without condition, and `failed` with at most one failed write or vanished
identity: finding 2 needs two.

*Send Later.* Everything a step knows of the server's decision was true when it was read,
and a decision is never changed: evidence does not age (`Grounded`). A trigger is owed by
the request for a repeat, or by a pass that has not loaded its rows yet (`Owed`).
`ClearsLast` is a property of steps, and needs what the step relies on: `Traces` says that a
copy of the placement that was read without Scheduled proves that the message left it and
never returns; that what a pass or a cancel saw as gone is gone; and that the later steps of a cancel come
after its restore.

*Push.* What a frame named is owed by exactly one of the bucket, the pass, or a retry with
its timer, unless a later read has covered it. A read behind the view lock has
seen at least what is stored (`ReadBehind`), because only one holds the lock at a time
(`LockHeld`).

*Settings.* A read that is still fresh, so that the conditional write will succeed, has
seen what the server has; whatever a device saw is in its own document; and a document
that is being written covers what its push saw. So a successful write takes nothing
back, and what is newer locally has a row behind it.

*Draft.* `Shape` ties a row to the requests its phase allows: it destroys only its base and
copies of its own revision, and what the session remembers agrees with the rows.
`OneInv`: one row runs at a time, and the session tracks it, unless a discard has failed
for good. `OwnInv` then says whose each Email is: late ones apart, all that is on the server
or still on the wire belongs to the row that runs, or to what the session takes the last
one to have left. With no row running this is one Email, or none behind a discard,
which is `OneCopyAtRest` and `DiscardTakesAll`. `KeptInv` holds while nobody takes a draft back
and no other client removes a copy: nothing is to be removed but by a row whose
successor is there, the base of a running row stays until its cleanup, and some Email that nobody
is about to remove covers the text that was confirmed. It implies `SurvivesSaving` and
`SavedIsSaved`.

*Contacts trash.* `CopyFirst` is about the moment of the destroy, which knows nothing of the push
that came before it. `TrashInv` carries the snapshot there: a row that is to
destroy its card holds a snapshot of just this card (`Snapshot`), which is on the server
or in a file the row still has to push (`Carried`); a card that was fetched and not changed
since is the one of the snapshot; a write that is still fresh takes no record from
the server (`LaneGood`), so what was pushed by anybody stays; and what a refresh found is on the server (`PullGood`), so
merging it never makes a file look uploaded that is not (`CleanIsUploaded`).

`UploadOwed` takes three more layers (`UploadInv`). Where records come from: a device has its own
files before anybody else and before the server (`OwnInv`), every set of records that is
read or written has a latest one (`HeadInv`), so that what is newly staged counts, and an id a device has a
record of is a card's or the server has a record of it (`KnownInv`), so that a card that is
gone never comes back. How rows go: which step belongs to which kind (`RowInv`), and which refresh finds
anything (`IdleInv`). What is due: a device with a dirty file has a refresh, a push row, a row that pushes
all that is dirty, or a delete whose snapshot it is (`Owed`). The types follow with
`RestInv`: a row that waits is in its queue, and an idle lane is at rest. Times have no
bound in `TypeOK`: each append may add one, and devices may take turns.

`KeptInv` has no premise: a record that says the contact was purged was preceded by a user or
a server who gave it up, and behind the last card some snapshot is on the server (`Given`). What
else it says depends on who was deleting so far. If that is no device but h, nobody has a snapshot
h has not (`Sole`), so no record overtakes h unseen, and its list agrees with its snapshots; what its
delete pushes is younger than any restore of its own, and behind the last card such a snapshot is
on the server (`Held`); a restore of h marks only a card that is there, or what is no longer in the
trash. So the latest record behind the last card is a snapshot, a purge, or a restore of
a device other than h, which is `RestoredAcross`. If two devices were deleting, any
restore that counts was of a device beside which another was deleting.

The type invariants of the runner, the push channel, the settings and the draft session are proved and not
run again by TLC.

Assumptions: the `ASSUME`s of the modules (sets are what they are said to be, budgets are
positive naturals, rows are finitely many numbers), and the premise of the refinement.

Only model-checked: the four violations, and all liveness
(`EveryCallAnswered`, `EveryRowSettles`, `SendSettles`, `EditsSettle`, `CatchesUp`,
`Ends`, `Converge`). Liveness and ENABLED are out of the proof system's reach, and
so is induction over data, which none of these modules needs: they have no recursive
definitions.

## 5. Not modelled

- *Contacts trash*, beyond section 2: the rotation of full files, the relocation of older ones, and
  everything about a contact besides its uid and its version.
- *Contacts, address books, identities*: their rows are opaque to the runner, and so they
  are here; an operation is a request with one answer and a recorded phase.
- *Message mutations and the mail store*: the optimistic overlay is presentation state
  of one tab. Only the cancel of a scheduled send and the move that files one are modelled.
- *Sync host*: one backend per account is assumed. Two alive at once (a hazard in
  `PROJECT.json`) would need every variable of the runner twice.
- *Query views*: the lock that orders their readers is in `PushChannel`; the
  delta computed against `queryChanges`, the windows and the index are not.
- *Transport requests*: their deadlines appear as lost and unanswered requests. What ends
  each of them is not modelled.
- *Worker ownership* rests on the Web Locks API; each worker is modelled alone, with its
  end at any moment, never together with its successor.
- *Authentication, bodies, quota, autocomplete, the user interface, packaging, scripts*:
  requests, caches and presentation without interleavings of interest. The database
  handlers outside `pending_mutations` and settings are single statements.

The plan from here, in this order: a smaller `ContactsTrash` for the liveness of its pushes; query views
with their delta; two backends of one account.
