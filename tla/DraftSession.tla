--------------------------- MODULE DraftSession ---------------------------
(***************************************************************************)
(* A compose session and the draft copies it owns on the server.           *)
(*                                                                         *)
(* Autosave, "Save draft", "Don't save" and "Discard" of one session enter *)
(* rows into the outbox.  A SAVE_DRAFT row creates a new Email, makes it   *)
(* known locally and only then destroys the copy it replaces, recording a  *)
(* phase before each of these; a DISCARD_DRAFT row destroys.  A save that  *)
(* failed may be retried, or taken back: then its row becomes the          *)
(* DISCARD_DRAFT of whatever it may have left on the server.               *)
(*                                                                         *)
(* A session action is the code between two awaits, a row action one       *)
(* request and the checkpoint written after it: a worker that dies in      *)
(* between looks like an answer that is lost.  The runner is seen as one   *)
(* row sees it (OutboxRunner has the queue).                               *)
(***************************************************************************)
EXTENDS Naturals, FiniteSets

CONSTANTS
  Rows,          \* ids of the rows the session may insert, in order
  Reopened,      \* the session edits a draft found in Drafts
  MaxEdits,      \* bound on edits
  MaxCopies,     \* bound on the Emails one revision can create
  MaxLate,       \* bound on creates served after their caller gave up
  MaxAttempts,   \* the retry budget of a row
  MaxRestarts,   \* bound on the deaths of the worker
  MaxRemovals    \* bound on what another client takes out of Drafts

ASSUME DraftAssumption ==
  /\ Rows \subseteq Nat \ {0} /\ IsFiniteSet(Rows)
  /\ Reopened \in BOOLEAN
  /\ {MaxEdits, MaxLate, MaxRestarts, MaxRemovals} \subseteq Nat
  /\ {MaxCopies, MaxAttempts} \subseteq Nat \ {0}

VARIABLES
  server,     \* the session's Emails in Drafts
  late,       \* creates whose caller gave up and that may yet be served
  doomed,     \* Emails whose destroy may yet be served
  strays,     \* history: Emails created by late service
  row,        \* the outbox rows
  task,       \* the request an attempt at a row waits for
  session,    \* the compose session
  restarts, removals

serverVars == <<server, late, doomed, strays>>
vars == <<serverVars, row, task, session, restarts, removals>>

\* An Email is named by the revision it was created for, which is the row
\* that saved it (the revision Message-ID), and a number.
Emails == (Rows \cup {0}) \X (1..MaxCopies)
None == <<0, 0>>
Opened == <<0, 1>>

Kinds == {"save", "discard"}
Statuses == {"unborn", "pending", "in_flight", "retry", "conflicted", "gone"}
Phases == {"null", "queued", "created", "cache_pending", "cleanup_pending",
           "conflict"}
Requests == {"bases", "probe", "create", "fetch", "destroy"}
Ops == {"none", "save", "retry", "join", "discard", "discarding", "dontSave"}
Ends == {"open", "saved", "clean", "unsaved", "discarded", "lost"}

TypeOK ==
  /\ {server, doomed, strays} \subseteq SUBSET Emails
  /\ late \subseteq Rows
  /\ row \in [Rows -> [kind: Kinds, status: Statuses, phase: Phases,
                       text: 0..MaxEdits, attempts: 0..MaxAttempts + MaxRestarts,
                       base: SUBSET Emails, pending: SUBSET Emails,
                       successor: Emails \cup {None}, probe: BOOLEAN]]
  /\ task \in [Rows -> Requests \cup {"idle"}]
  /\ session \in [end: Ends, text: 0..MaxEdits, seed: 0..MaxEdits,
                  confirmed: Emails \cup {None}, timer: BOOLEAN,
                  blocked: BOOLEAN, op: Ops, saving: Rows \cup {0},
                  failed: Rows \cup {0}, pend: Rows \cup {0}]
  /\ restarts \in 0..MaxRestarts
  /\ removals \in 0..MaxRemovals

Unborn == [kind |-> "save", status |-> "unborn", phase |-> "null", text |-> 0,
           attempts |-> 0, base |-> {}, pending |-> {}, successor |-> None,
           probe |-> FALSE]

Init ==
  /\ server = IF Reopened THEN {Opened} ELSE {}
  /\ late = {} /\ doomed = {} /\ strays = {}
  /\ row = [r \in Rows |-> Unborn]
  /\ task = [r \in Rows |-> "idle"]
  /\ session = [end |-> "open", text |-> 0, seed |-> 0,
                confirmed |-> IF Reopened THEN Opened ELSE None,
                timer |-> FALSE, blocked |-> FALSE, op |-> "none",
                saving |-> 0, failed |-> 0, pend |-> 0]
  /\ restarts = 0 /\ removals = 0

(***************************************************************************)
(* The session.                                                            *)
(***************************************************************************)
open == session.end = "open"
Dirty(s) == s.text # s.seed
ConfirmedIds == {session.confirmed} \ {None}

\* The next row to insert.
Fresh == {r \in Rows : row[r].status = "unborn" /\
            \A q \in Rows : q < r => row[q].status # "unborn"}

\* draftMutationRequest and PENDING_MUTATION_INSERT.
NewSave(s) ==
  [Unborn EXCEPT !.status = "pending", !.text = s.text,
                 !.base = {s.confirmed} \ {None}]

NewDiscard ==
  [Unborn EXCEPT !.kind = "discard", !.status = "pending",
                 !.base = ConfirmedIds, !.pending = ConfirmedIds]

\* PENDING_MUTATION_RETRY; a parked row (conflict) is refused again at once.
Revived(w) ==
  IF w.kind = "save" /\ w.status \in {"conflicted", "retry"}
  THEN [w EXCEPT !.status = "retry", !.attempts = 0] ELSE w

\* The session with its next save inserted as row r.
Saving(s, r) == [s EXCEPT !.timer = FALSE, !.saving = r, !.failed = r]

\* close and disposeSessionRuntime.
Closed(s, how) ==
  [s EXCEPT !.end = how, !.op = "none", !.timer = FALSE, !.blocked = FALSE,
            !.saving = 0, !.failed = 0, !.pend = 0]

\* A user edit: scheduleAutosave arms the timer unless saving is blocked.
Edit ==
  /\ open /\ session.text < MaxEdits
  /\ session.op = "discard" => session.saving # 0
  /\ session.op # "discarding"
  /\ session' = [session EXCEPT !.text = @ + 1, !.timer = ~session.blocked]
  /\ UNCHANGED <<serverVars, row, task, restarts, removals>>

\* The autosave timer: start a save, unless saving is blocked or one is in
\* flight, which its follow-up then covers.
Autosave ==
  /\ open /\ session.timer
  /\ IF session.blocked \/ session.saving # 0 \/ ~Dirty(session)
     THEN /\ session' = [session EXCEPT !.timer = FALSE]
          /\ UNCHANGED row
     ELSE \E r \in Fresh : /\ row' = [row EXCEPT ![r] = NewSave(session)]
                           /\ session' = Saving(session, r)
  /\ UNCHANGED <<serverVars, task, restarts, removals>>

\* saveAndClose: retry the failed save, join the one in flight, start one, or
\* close at once.
SaveAndClose ==
  /\ open /\ session.op = "none"
  /\ IF session.blocked
     THEN /\ session.failed # 0
          /\ row' = [row EXCEPT ![session.failed] = Revived(@)]
          /\ session' = [session EXCEPT !.blocked = FALSE, !.op = "retry",
                                        !.saving = session.failed]
     ELSE IF session.saving # 0
     THEN /\ session' = [session EXCEPT !.timer = FALSE, !.op = "join"]
          /\ UNCHANGED row
     ELSE IF Dirty(session)
     THEN \E r \in Fresh : /\ row' = [row EXCEPT ![r] = NewSave(session)]
                           /\ session' = [Saving(session, r) EXCEPT !.op = "save"]
     ELSE /\ session' = Closed(session, "saved")
          /\ UNCHANGED row
  /\ UNCHANGED <<serverVars, task, restarts, removals>>

\* Mutant: the text on the screen is taken for the text that was saved.
AppliedCurrent(w) ==
  [session EXCEPT !.saving = 0, !.failed = 0, !.seed = session.text,
                  !.confirmed = w.successor]

\* applyDraftSaveResult: the captured text becomes the seed.
Applied(w) ==
  [session EXCEPT !.saving = 0, !.failed = 0, !.seed = w.text,
                  !.confirmed = w.successor]

\* Mutant: an edit made while a save runs waits for the next edit.
FollowUpNever(s) == FALSE

FollowUp(s) == Dirty(s) /\ ~s.blocked /\ Fresh # {}

\* runMutation answers the save: what was typed meanwhile is saved by one
\* follow-up, and a waiting saveAndClose closes unless that follow-up runs.
SaveConfirmed ==
  LET s == Applied(row[session.saving]) IN
  /\ open /\ session.saving # 0 /\ row[session.saving].status = "gone"
  /\ IF FollowUp(s)
     THEN \E q \in Fresh :
            /\ row' = [row EXCEPT ![q] = NewSave(s)]
            /\ session' = [Saving(s, q) EXCEPT
                             !.op = CASE @ = "save" -> "none"
                                      [] @ = "retry" -> "save"
                                      [] OTHER -> @]
     ELSE /\ session' = IF s.op \in {"save", "retry", "join"} /\ ~Dirty(s)
                        THEN Closed(s, "saved") ELSE s
          /\ UNCHANGED row
  /\ UNCHANGED <<serverVars, task, restarts, removals>>

\* The save failed for good: autosave is blocked until the user acts.
SaveFailed ==
  /\ open /\ session.saving # 0 /\ row[session.saving].status = "conflicted"
  /\ session' = [session EXCEPT !.saving = 0, !.blocked = TRUE,
                   !.op = IF @ \in {"save", "retry", "join"} THEN "none" ELSE @]
  /\ UNCHANGED <<serverVars, row, task, restarts, removals>>

\* Closing a session without unsaved edits.
CloseClean ==
  /\ open /\ session.op = "none" /\ session.saving = 0 /\ ~Dirty(session)
  /\ session' = Closed(session, "clean")
  /\ UNCHANGED <<serverVars, row, task, restarts, removals>>

\* "Don't save" and "Discard" block autosave and wait for the save in flight.
BeginDontSave ==
  /\ open /\ session.op = "none" /\ Dirty(session)
  /\ session' = [session EXCEPT !.op = "dontSave", !.blocked = TRUE, !.timer = FALSE]
  /\ UNCHANGED <<serverVars, row, task, restarts, removals>>

BeginDiscard ==
  /\ open /\ session.op = "none"
  /\ session' = [session EXCEPT !.op = "discard", !.blocked = TRUE, !.timer = FALSE]
  /\ UNCHANGED <<serverVars, row, task, restarts, removals>>

(***************************************************************************)
(* Taking back a failed save: PENDING_MUTATION_ABANDON_DRAFT.              *)
(***************************************************************************)
\* Everything a save may own, or only what it made on top of the confirmed copy.
Owned(w, all) ==
  IF all THEN ConfirmedIds \cup w.base \cup w.pending \cup ({w.successor} \ {None})
  ELSE {w.successor} \ ({None} \cup ConfirmedIds)

\* draftAbandonPlan.
AbandonPlan(w, all) ==
  CASE w.phase = "conflict" -> "park"
    [] w.phase = "null" /\ (~all \/ ConfirmedIds = {}) -> "delete"
    [] w.phase \in {"created", "cache_pending", "cleanup_pending"}
         /\ Owned(w, all) = {} -> "delete"
    [] OTHER -> "convert"

\* Mutant: a create that was never answered is not looked for.
ConvertedBlind(w, all) ==
  [Unborn EXCEPT !.kind = "discard", !.status = "pending", !.text = w.text,
                 !.pending = Owned(w, all)]

\* The DISCARD_DRAFT row an abandoned save becomes.
Converted(w, all) ==
  [Unborn EXCEPT !.kind = "discard", !.status = "pending", !.text = w.text,
                 !.pending = Owned(w, all), !.probe = (w.phase = "queued")]

\* A row that leaves the table; the copies it made keep their text.
Retired(w) ==
  [Unborn EXCEPT !.kind = w.kind, !.status = "gone", !.text = w.text,
                 !.successor = w.successor]

\* The row after an abandon.
Abandoned(w, all) ==
  CASE AbandonPlan(w, all) = "park" -> [w EXCEPT !.status = "conflicted"]
    [] AbandonPlan(w, all) = "delete" -> Retired(w)
    [] AbandonPlan(w, all) = "convert" -> Converted(w, all)

Refused(s) == [s EXCEPT !.op = "none", !.blocked = FALSE]

\* closeWithoutSaving once no save is in flight.  It is refused while a failed
\* discard is remembered.
DontSave ==
  LET f == session.failed IN
  /\ open /\ session.op = "dontSave" /\ session.saving = 0
  /\ IF session.pend # 0
     THEN session' = Refused(session) /\ UNCHANGED row
     ELSE /\ session' = Closed(session, "unsaved")
          /\ row' = IF f = 0 THEN row
                    ELSE [row EXCEPT ![f] = Abandoned(@, FALSE)]
  /\ UNCHANGED <<serverVars, task, restarts, removals>>

\* discardDraft with a failed save: take the save back and wait for what its
\* row became; an earlier discard of the session is run instead of a new one.
DiscardFailedSave ==
  LET f == session.failed
      plan == AbandonPlan(row[f], TRUE)
  IN
  /\ open /\ session.op = "discard" /\ session.saving = 0 /\ f # 0
  /\ IF session.pend # 0
     THEN session' = [session EXCEPT !.op = "discarding"] /\ UNCHANGED row
     ELSE /\ row' = [row EXCEPT ![f] = Abandoned(@, TRUE)]
          /\ session' =
               CASE plan = "park" -> Refused(session)
                 [] plan = "delete" -> Closed(session, "discarded")
                 [] plan = "convert" -> [session EXCEPT !.failed = 0, !.pend = f,
                                                        !.op = "discarding"]
  /\ UNCHANGED <<serverVars, task, restarts, removals>>

\* discardDraft otherwise: run the remembered discard, or insert one.
DiscardConfirmed ==
  /\ open /\ session.op = "discard" /\ session.saving = 0 /\ session.failed = 0
  /\ IF session.pend # 0
     THEN session' = [session EXCEPT !.op = "discarding"] /\ UNCHANGED row
     ELSE IF session.confirmed = None
     THEN session' = Closed(session, "discarded") /\ UNCHANGED row
     ELSE \E r \in Fresh :
            /\ row' = [row EXCEPT ![r] = NewDiscard]
            /\ session' = [session EXCEPT !.pend = r, !.op = "discarding"]
  /\ UNCHANGED <<serverVars, task, restarts, removals>>

\* runMutation answers the discard.
DiscardAnswered ==
  /\ open /\ session.op = "discarding"
  /\ \/ /\ row[session.pend].status = "gone"
        /\ session' = Closed(session, "discarded")
     \/ /\ row[session.pend].status = "conflicted"
        /\ session' = Refused(session)
  /\ UNCHANGED <<serverVars, row, task, restarts, removals>>

(***************************************************************************)
(* One attempt at a row.                                                   *)
(***************************************************************************)
\* The lane: rows that target the confirmed message share one, targetless
\* rows of the session another.
Lane(r) == row[r].base

LaneFree(r) == \A q \in Rows \ {r} : Lane(q) = Lane(r) => task[q] = "idle"

\* Mutant: a save that may have created its copy creates it again.
FirstRequestBlind(w) ==
  IF w.kind = "discard" THEN IF w.probe THEN "probe" ELSE "destroy"
  ELSE CASE w.phase = "null" -> "bases"
         [] w.phase = "queued" -> "create"
         [] w.phase = "created" -> "fetch"
         [] OTHER -> "destroy"

\* Where runSaveDraft and runDiscardDraft take a row up.
FirstRequest(w) ==
  IF w.kind = "discard" THEN IF w.probe THEN "probe" ELSE "destroy"
  ELSE CASE w.phase = "null" -> "bases"
         [] w.phase = "queued" -> "probe"
         [] w.phase = "created" -> "fetch"
         [] OTHER -> "destroy"

Finished(w) ==
  /\ w.pending = {}
  /\ \/ w.kind = "discard" /\ ~w.probe
     \/ w.phase \in {"cache_pending", "cleanup_pending"}

\* The row and task after a request: done, on to the next one, or ended.
Settle(r, w) ==
  row' = [row EXCEPT ![r] = w] /\ task' = [task EXCEPT ![r] = "idle"]

Proceed(r, w, request) ==
  IF Finished(w) THEN Settle(r, Retired(w))
  ELSE row' = [row EXCEPT ![r] = w] /\ task' = [task EXCEPT ![r] = request]

\* A row that is given up; nothing reads its attempts until a retry resets them.
Ended(w) == [w EXCEPT !.status = "conflicted", !.attempts = 0]

Retryable(w) == w.attempts < MaxAttempts

\* A retryable failure, or one that ends the row (the budget is used up, the
\* server rejects the credential, the folder or identity is gone).
Fail(r, w) ==
  \/ Retryable(w) /\ Settle(r, [w EXCEPT !.status = "retry"])
  \/ Settle(r, Ended(w))

Claim(r) ==
  LET w == [row[r] EXCEPT !.status = "in_flight", !.attempts = @ + 1] IN
  /\ row[r].status \in {"pending", "retry"} /\ LaneFree(r)
  /\ IF w.phase = "conflict"
     THEN Settle(r, Ended(w))
     ELSE Proceed(r, w, FirstRequest(w))
  /\ UNCHANGED <<serverVars, session, restarts, removals>>

\* verifyDraftBases: every base still is a draft, or the revision conflicts.
Bases(r) ==
  /\ task[r] = "bases"
  /\ IF row[r].base \subseteq server
     THEN Proceed(r, [row[r] EXCEPT !.phase = "queued", !.pending = row[r].base],
                  "create")
     ELSE Settle(r, Ended([row[r] EXCEPT !.phase = "conflict"]))
  /\ UNCHANGED <<serverVars, session, restarts, removals>>

Copies(r) == {e \in server : e[1] = r}

\* Mutant: the adopted copy stays among those to destroy.
PredecessorsAll(w, r, e) == w.pending \cup Copies(r)

Predecessors(w, r, e) == (w.pending \cup Copies(r)) \ {e}

\* findDraftRevision for a save: adopt a copy and count the others as
\* predecessors; with none, check the bases again before creating.
ProbeSave(r) ==
  /\ task[r] = "probe" /\ row[r].kind = "save"
  /\ IF Copies(r) = {} THEN Proceed(r, row[r], "bases")
     ELSE \E e \in Copies(r) :
            Proceed(r, [row[r] EXCEPT !.phase = "created", !.successor = e,
                          !.pending = Predecessors(row[r], r, e)], "fetch")
  /\ UNCHANGED <<serverVars, session, restarts, removals>>

\* ... and for a discard that inherits a save whose create was never answered.
ProbeDiscard(r) ==
  /\ task[r] = "probe" /\ row[r].kind = "discard"
  /\ Proceed(r, [row[r] EXCEPT !.pending = @ \cup Copies(r), !.probe = FALSE],
             "destroy")
  /\ UNCHANGED <<serverVars, session, restarts, removals>>

\* The server creates an Email for a revision.
FreshCopy(r) ==
  {e \in Emails : e[1] = r /\ e \notin server \cup doomed \cup strays /\
     \A q \in Rows : e \notin row[q].pending \cup {row[q].successor}}

NextCopy(r) == {e \in FreshCopy(r) : \A d \in FreshCopy(r) : e[2] <= d[2]}

Create(r) ==
  /\ task[r] = "create"
  /\ \E e \in NextCopy(r) :
       /\ server' = server \cup {e}
       /\ \/ Proceed(r, [row[r] EXCEPT !.phase = "created", !.successor = e], "fetch")
          \/ Fail(r, row[r])
  /\ UNCHANGED <<late, doomed, strays, session, restarts, removals>>

MayBeLate == Cardinality(late) + Cardinality(strays) < MaxLate

\* The caller gives up on a create still on the wire.
CreateLate(r) ==
  /\ task[r] = "create" /\ MayBeLate
  /\ late' = late \cup {r}
  /\ Fail(r, row[r])
  /\ UNCHANGED <<server, doomed, strays, session, restarts, removals>>

ServeCreate(r) ==
  /\ r \in late
  /\ late' = late \ {r}
  /\ \E e \in NextCopy(r) : server' = server \cup {e} /\ strays' = strays \cup {e}
  /\ UNCHANGED <<doomed, row, task, session, restarts, removals>>

\* persistDraftSuccessor: the successor is read back and cached.
Fetch(r) ==
  /\ task[r] = "fetch"
  /\ IF row[r].successor \in server
     THEN Proceed(r, [row[r] EXCEPT !.phase = IF row[r].pending = {}
                                              THEN "cache_pending"
                                              ELSE "cleanup_pending"], "destroy")
     ELSE Fail(r, row[r])
  /\ UNCHANGED <<serverVars, session, restarts, removals>>

\* destroyDraftEmails: the server destroys some of them; what is gone is
\* confirmed and recorded, or the answer is lost.
Destroy(r) ==
  /\ task[r] = "destroy"
  /\ \E gone \in SUBSET (row[r].pending \cap server) :
       /\ server' = server \ gone
       /\ LET left == row[r].pending \cap (server \ gone)
              w == [row[r] EXCEPT !.pending = left]
          IN \/ left = {} /\ Proceed(r, w, "destroy")
             \/ left # {} /\ Fail(r, w)
             \/ Fail(r, row[r])
  /\ UNCHANGED <<late, doomed, strays, session, restarts, removals>>

DestroyLate(r) ==
  /\ task[r] = "destroy"
  /\ doomed' = doomed \cup (row[r].pending \cap server)
  /\ Fail(r, row[r])
  /\ UNCHANGED <<server, late, strays, session, restarts, removals>>

ServeDestroy(e) ==
  /\ e \in doomed
  /\ doomed' = doomed \ {e} /\ server' = server \ {e}
  /\ UNCHANGED <<late, strays, row, task, session, restarts, removals>>

\* A request without effect on the server fails or is inconclusive.
Unanswered(r) ==
  /\ task[r] # "idle"
  /\ Fail(r, row[r])
  /\ UNCHANGED <<serverVars, session, restarts, removals>>

(***************************************************************************)
(* The rest of the world.                                                  *)
(***************************************************************************)
\* The tab closes or reloads; its rows stay.
TabCloses ==
  /\ open
  /\ session' = Closed(session, "lost")
  /\ UNCHANGED <<serverVars, row, task, restarts, removals>>

\* The worker dies, which reloads its tabs; what it had asked for may be
\* served, now or later; recoverStranded resets the rows in flight.
WorkerDies ==
  /\ restarts < MaxRestarts
  /\ restarts' = restarts + 1
  /\ session' = Closed(session, IF open THEN "lost" ELSE session.end)
  /\ task' = [r \in Rows |-> "idle"]
  /\ row' = [r \in Rows |-> IF row[r].status = "in_flight"
                            THEN [row[r] EXCEPT !.status = "pending"] ELSE row[r]]
  /\ \E w \in SUBSET {r \in Rows : task[r] = "create" /\ MayBeLate} :
       late' = late \cup w
  /\ \E w \in SUBSET {r \in Rows : task[r] = "destroy"} :
       doomed' = doomed \cup (server \cap UNION {row[r].pending : r \in w})
  /\ UNCHANGED <<server, strays, removals>>

\* Another client sends, moves or destroys a draft.
Remove(e) ==
  /\ e \in server /\ removals < MaxRemovals
  /\ removals' = removals + 1
  /\ server' = server \ {e}
  /\ UNCHANGED <<late, doomed, strays, row, task, session, restarts>>

SessionStep ==
  \/ Autosave \/ SaveConfirmed \/ SaveFailed \/ DontSave \/ DiscardFailedSave
  \/ DiscardConfirmed \/ DiscardAnswered

UserStep ==
  Edit \/ SaveAndClose \/ CloseClean \/ BeginDontSave \/ BeginDiscard \/ TabCloses

Attempt(r) ==
  \/ Bases(r) \/ ProbeSave(r) \/ ProbeDiscard(r) \/ Create(r) \/ CreateLate(r)
  \/ Fetch(r) \/ Destroy(r) \/ DestroyLate(r) \/ Unanswered(r)

Next ==
  \/ SessionStep \/ UserStep \/ WorkerDies
  \/ \E r \in Rows : Claim(r) \/ Attempt(r) \/ ServeCreate(r)
  \/ \E e \in Emails : ServeDestroy(e) \/ Remove(e)

Spec == Init /\ [][Next]_vars

\* Timers fire, awaited calls continue, the runner claims what is queued, and
\* requests end: each carries a deadline.
FairSpec ==
  /\ Spec /\ WF_vars(SessionStep)
  /\ \A r \in Rows : WF_vars(Claim(r)) /\ WF_vars(Attempt(r))

(***************************************************************************)
(* Properties.                                                             *)
(***************************************************************************)
TextOf(e) == IF e[1] = 0 THEN 0 ELSE row[e[1]].text

SomeDraft(text) == \E e \in server : TextOf(e) >= text

Discarding ==
  \/ session.op \in {"discard", "discarding", "dontSave"} \/ session.end = "unsaved"
  \/ session.end = "discarded" \/ \E r \in Rows : row[r].kind = "discard"

\* As long as nobody takes a draft back and no other client touches Drafts,
\* what a save confirmed to the user stays on the server, in that copy or in a
\* newer one, through failed saves, lost answers, crashes and cleanups.
SurvivesSaving ==
  removals = 0 /\ ~Discarding => SomeDraft(TextOf(session.confirmed)) \/ session.confirmed = None

\* When every row of the session has retired there is one draft, and at most
\* one more for every create that was served after its caller gave up.
OneCopyAtRest ==
  /\ \A r \in Rows : row[r].status \in {"unborn", "gone"}
  /\ late = {} /\ doomed = {}
  => Cardinality(server) <= 1 + Cardinality(strays)

\* A session that reported its draft discarded has left no copy of it, apart
\* from late ones.
DiscardTakesAll == session.end = "discarded" => server \subseteq strays

\* A session that closed after saving, and never tried to discard, has its last
\* text in Drafts.
SavedIsSaved ==
  session.end = "saved" /\ removals = 0 /\ ~Discarding
    => SomeDraft(session.text) \/ session.confirmed = None

\* "Don't save" leaves the last confirmed draft on the server.
DontSaveKeepsCopy ==
  session.end = "unsaved" /\ removals = 0 /\ session.confirmed # None
    => SomeDraft(TextOf(session.confirmed))

\* An edit that armed the autosave timer gets saved, with whatever was typed
\* since, unless the session closes, saving is blocked by a failure the user
\* was told of, or he takes the draft back (or the model is out of rows).
EditsSettle ==
  (open /\ session.timer) ~>
    (~open \/ session.blocked \/ ~Dirty(session) \/ Discarding \/ Fresh = {})
=============================================================================
