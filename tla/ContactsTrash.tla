--------------------------- MODULE ContactsTrash ---------------------------
(***************************************************************************)
(* The contacts trash: how a contact is deleted, restored and purged by    *)
(* several devices that share the trash through files on the server.       *)
(*                                                                         *)
(* Every device appends its records to two files of its own, one for       *)
(* snapshots and one for tombstones, and keeps a copy of everybody's in    *)
(* its database.  What counts is the latest record of all.  A delete       *)
(* writes a snapshot of the card, pushes it, looks whether it still        *)
(* counts, and only then destroys the card; a restore creates the card     *)
(* again before it writes its tombstone.  The rows of an account run one   *)
(* at a time; pulls run beside them, and a row that touches the trash      *)
(* waits for one while the trash is not known to be current.               *)
(*                                                                         *)
(* One contact, by its uid.  A card is its id and its version; a record is *)
(* a status, a time and the card it was made from.                         *)
(***************************************************************************)
EXTENDS Naturals, Sequences, FiniteSets, Functions

CONSTANTS
  Devices,      \* the devices of the user, each with a database and a worker
  Deleters,     \* the devices that delete the contact
  Restorers,    \* the devices that restore it
  Purgers,      \* the devices that delete it forever
  MaxClock,     \* bound on the readings of the clocks
  MaxAsks,      \* bound on the requests of the user, the expiries and the edits of
                \* the card by another client
  MaxMishaps    \* bound on mishaps: a call that fails, is lost or is refused, a
                \* death of a worker

ASSUME TrashAssumption ==
  /\ IsFiniteSet(Devices)
  /\ Deleters \cup Restorers \cup Purgers \subseteq Devices
  /\ {MaxClock, MaxAsks, MaxMishaps} \subseteq Nat

VARIABLES
  cards,      \* the server: the cards with the uid
  remote,     \* the server: the content of each file
  docs,       \* database of a device: contacts_trash_documents
  dirty,      \* database: the files with records to push
  known,      \* database: the content behind remote_blob_id
  listed,     \* database: the row of contacts_trash
  rows,       \* database: the queued rows of the lane, oldest first
  waiting,    \* database: those that failed and wait for their retry
  target,     \* database: the id of the card a delete names
  lane,       \* the row a device runs
  pull,       \* the refresh a device runs: what it found and has not read yet
  ready,      \* _contactsTrashReady
  news,       \* a change of the files a device was not told of yet
  frames,     \* a StateChange frame of a device is queued, one is being handled
  givenUp,    \* history: why a record was given up: a purge or expiry, a refusal
  deleting,   \* history: the devices that took up the contact to delete it
  asks, faults  \* so far, of the user and of the world

serverVars == <<cards, remote>>
docVars == <<docs, dirty, known, listed>>
rowVars == <<rows, waiting, target>>
frameVars == <<ready, news, frames>>
countVars == <<givenUp, asks, faults>>
vars == <<serverVars, docVars, rowVars, lane, pull, frameVars, countVars, deleting>>

Kinds == {"delete", "restore", "purge", "push"}
Gated == Kinds \ {"push"}
Files == Devices \X {"snapshot", "tombstone"}
Ids == 0..MaxAsks + 1
Cards == [id : Ids, ver : 0..MaxAsks]
NoCard == [id |-> 0, ver |-> 0]
Records == [status : {"trashed", "restored", "purged"}, at : Nat \ {0}, card : Cards]
None == [status |-> "none", at |-> 0, card |-> NoCard]
Empty == [f \in Files |-> {}]

NoLane == [kind |-> "none", pc |-> "idle", card |-> NoCard, entry |-> None,
           todo |-> {}, sent |-> {}, destroys |-> FALSE, cardFresh |-> FALSE,
           fileFresh |-> FALSE, tries |-> 0, rounds |-> 0]
NoPull == [pc |-> "idle", found |-> <<>>]

TypeOK ==
  /\ cards \subseteq Cards
  /\ remote \in [Files -> SUBSET Records]
  /\ \A d \in Devices :
       /\ docs[d] \in [Files -> SUBSET Records] /\ known[d] \in [Files -> SUBSET Records]
       /\ dirty[d] \subseteq Files
       /\ listed[d] \in Records \cup {None}
       /\ rows[d] \in Seq(Kinds) /\ waiting[d] \subseteq Range(rows[d])
       /\ target[d] \in Ids
       /\ lane[d] \in [kind : Kinds \cup {"none"},
            pc : {"idle", "gate", "start", "stage", "push", "write", "confirm",
                  "destroy", "create", "reconcile", "mark"},
            card : Cards, entry : Records \cup {None}, todo : SUBSET Files,
            sent : SUBSET Records, destroys : BOOLEAN, cardFresh : BOOLEAN,
            fileFresh : BOOLEAN, tries : 0..2, rounds : 0..2]
       /\ pull[d].pc \in {"idle", "reading"} /\ DOMAIN pull[d].found \subseteq Files
       /\ Range(pull[d].found) \subseteq SUBSET Records
       /\ {ready[d], news[d]} \subseteq BOOLEAN
       /\ frames[d] \subseteq {"queued", "handled"}
  /\ givenUp \subseteq {"purged", "refused"} /\ deleting \subseteq Devices
  /\ asks \in 0..MaxAsks /\ faults \in 0..MaxMishaps

Fault == faults < MaxMishaps /\ faults' = faults + 1

(***************************************************************************)
(* Records.                                                                *)
(***************************************************************************)
Rank(r) == CASE r.status = "trashed" -> 0 [] r.status = "restored" -> 1 [] OTHER -> 2

\* contactTrashEntryWins; records that agree so far are told apart by their text.
Wins(r, q) ==
  \/ r.at > q.at
  \/ r.at = q.at /\ Rank(r) > Rank(q)
  \/ r.at = q.at /\ Rank(r) = Rank(q) /\ r.card.id > q.card.id
  \/ r.at = q.at /\ Rank(r) = Rank(q) /\ r.card.id = q.card.id /\ r.card.ver > q.card.ver

All(files) == UNION {files[f] : f \in Files}

\* aggregateContactsTrashDocuments.
Top(files) ==
  LET latest == {r \in All(files) : \A q \in All(files) : ~Wins(q, r)} IN
  IF latest = {} THEN None ELSE CHOOSE r \in latest : TRUE

Active(r) == r.status = "trashed"

\* The files before the contact was ever trashed, and behind a delete of which all
\* devices know and which has used up a request or a mishap.
First == [id |-> 1, ver |-> 0]
Begun ==
  {Empty} \cup {[Empty EXCEPT ![<<d, "snapshot">>] =
                   {[status |-> "trashed", at |-> 1, card |-> First]}] : d \in Deleters}

Init ==
  /\ \E files \in Begun :
       /\ cards = IF files = Empty THEN {First} ELSE {}
       /\ remote = files
       /\ docs = [d \in Devices |-> files] /\ known = docs
       /\ listed = [d \in Devices |-> Top(files)]
       /\ deleting = {d \in Devices : files[<<d, "snapshot">>] # {}}
       /\ asks \in 0..MaxAsks /\ faults \in 0..MaxMishaps
       /\ asks + faults = IF files = Empty THEN 0 ELSE 1
  /\ dirty = [d \in Devices |-> {}]
  /\ rows = [d \in Devices |-> <<>>] /\ waiting = [d \in Devices |-> {}]
  /\ target = [d \in Devices |-> 0]
  /\ lane = [d \in Devices |-> NoLane] /\ pull = [d \in Devices |-> NoPull]
  /\ ready = [d \in Devices |-> TRUE] /\ news = [d \in Devices |-> FALSE]
  /\ frames = [d \in Devices |-> {}]
  /\ givenUp = {}

\* A record that is to count after r.
Stamp(now, r) == IF now > r.at THEN now ELSE r.at + 1

\* contactsTrashTombstone.
Tombstone(r, status, now) == [r EXCEPT !.status = status, !.at = Stamp(now, r)]

\* appendContactsTrashRecordsInTx and persistContactsTrashInTx, at device d.
AppendRecord(d, kind, r) ==
  LET new == [docs[d] EXCEPT ![<<d, kind>>] = @ \cup {r}] IN
  /\ docs' = [docs EXCEPT ![d] = new]
  /\ dirty' = [dirty EXCEPT ![d] = @ \cup {<<d, kind>>}]
  /\ listed' = [listed EXCEPT ![d] = Top(new)]
  /\ UNCHANGED known

\* CONTACT_TRASH_MERGE_REMOTE_SHARDS for one file that was found to hold seen.
MergeFile(d, f, seen) ==
  /\ docs' = [docs EXCEPT ![d][f] = @ \cup seen]
  /\ dirty' = [dirty EXCEPT ![d] = IF docs[d][f] \subseteq seen THEN @ ELSE @ \cup {f}]
  /\ known' = [known EXCEPT ![d][f] = seen]

(***************************************************************************)
(* The rows of the lane.                                                   *)
(***************************************************************************)
\* The queue without the row of a kind; there is one of a kind at most.
Drop(s, k) ==
  IF k \notin Range(s) THEN s
  ELSE LET i == CHOOSE i \in DOMAIN s : s[i] = k IN
       SubSeq(s, 1, i - 1) \o SubSeq(s, i + 1, Len(s))

\* The queue with a push: ensureSinglePushInTx takes the one there is.
WithPush(s) == IF "push" \in Range(s) THEN s ELSE Append(s, "push")

EnsurePush(d) ==
  /\ rows' = [rows EXCEPT ![d] = WithPush(@)]
  /\ waiting' = [waiting EXCEPT ![d] = @ \ {"push"}]
  /\ UNCHANGED target

\* The lanes as l has them, and d's row settled.
Finish(l, d) == lane' = [l EXCEPT ![d] = NoLane]

\* Mutant: a row that failed is not put back.
Vanish(d) == UNCHANGED rows

\* A row is put back where it was, ahead of the younger ones.
PutBack(d) == rows' = [rows EXCEPT ![d] = <<lane[d].kind>> \o Drop(@, lane[d].kind)]

\* The same, but d's row waits for its next attempt.
Retry(l, d) ==
  /\ PutBack(d)
  /\ waiting' = [waiting EXCEPT ![d] = @ \cup {lane[d].kind}]
  /\ Finish(l, d)
  /\ UNCHANGED target

At(d, kind, pc) == lane[d].kind = kind /\ lane[d].pc = pc
Go(d, pc) == lane' = [lane EXCEPT ![d].pc = pc]

\* The user asks.  A delete names a card of the list, a restore or a purge an
\* entry of the trash.
Ask(d, kind) ==
  /\ asks < MaxAsks /\ asks' = asks + 1
  /\ kind \notin Range(rows[d]) /\ lane[d].kind # kind
  /\ \/ /\ kind = "delete" /\ d \in Deleters
        /\ \E c \in cards : target' = [target EXCEPT ![d] = c.id]
        /\ UNCHANGED givenUp
     \/ /\ kind = "restore" /\ d \in Restorers /\ Active(listed[d])
        /\ UNCHANGED <<target, givenUp>>
     \/ /\ kind = "purge" /\ d \in Purgers /\ Active(listed[d])
        /\ givenUp' = givenUp \cup {"purged"}
        /\ UNCHANGED target
  /\ rows' = [rows EXCEPT ![d] = Append(@, kind)]
  /\ UNCHANGED <<serverVars, docVars, waiting, lane, pull, frameVars, faults>>

(***************************************************************************)
(* Pulls, and the gate in front of the rows.                               *)
(***************************************************************************)
\* syncContactsTrashFromServer finds the files; those that are clean and have
\* not changed are left alone.
Discover(d) ==
  pull' = [pull EXCEPT ![d] =
    LET todo == {f \in Files : remote[f] # {} /\ (f \in dirty[d] \/ known[d][f] # remote[f])} IN
    [pc |-> "reading", found |-> Restrict(remote, todo)]]

\* _refreshContactsTrash: one at a time, which all who come join.
Refresh(d) == IF pull[d].pc = "idle" THEN Discover(d) ELSE UNCHANGED pull

Open(d, kind) == kind \notin Gated \/ ready[d]

\* The runner takes a row that no row is ahead of but such as wait for a retry.
Begin(d) ==
  /\ lane[d] = NoLane
  /\ \E i \in 1..Len(rows[d]) :
       LET kind == rows[d][i] IN
       /\ \A j \in 1..i - 1 : rows[d][j] \in waiting[d]
       /\ rows' = [rows EXCEPT ![d] = Drop(@, kind)]
       /\ waiting' = [waiting EXCEPT ![d] = @ \ {kind}]
       /\ lane' = [lane EXCEPT ![d] = [NoLane EXCEPT !.kind = kind,
                     !.pc = IF Open(d, kind) THEN "start" ELSE "gate"]]
       /\ IF Open(d, kind) THEN UNCHANGED pull ELSE Refresh(d)
  /\ UNCHANGED <<serverVars, docVars, target, frameVars, countVars>>

Unread(d) == DOMAIN pull[d].found

PullFile(d) ==
  /\ Unread(d) # {}
  /\ LET f == CHOOSE f \in Unread(d) : TRUE IN
     /\ MergeFile(d, f, pull[d].found[f])
     /\ pull' = [pull EXCEPT ![d].found = Restrict(@, Unread(d) \ {f})]
  /\ UNCHANGED <<serverVars, listed, rowVars, lane, frameVars, countVars>>

\* Those who joined the refresh go on.
Passed(d) == lane' = IF lane[d].pc = "gate" THEN [lane EXCEPT ![d].pc = "start"] ELSE lane

\* Mutant: an unfinished push is left to the next one that comes.
LeavePush(d, files) == UNCHANGED rowVars

\* What is dirty is pushed.
Repair(d, files) == IF files = {} THEN UNCHANGED rowVars ELSE EnsurePush(d)

\* The finalizing merge: expiry, projection, repair; and the trash is current.
PullEnds(d) ==
  /\ pull[d].pc = "reading" /\ Unread(d) = {}
  /\ pull' = [pull EXCEPT ![d] = NoPull]
  /\ \/ /\ listed' = [listed EXCEPT ![d] = Top(docs[d])]
        /\ UNCHANGED <<docs, dirty, known, asks, givenUp>>
     \/ /\ Active(Top(docs[d]))
        /\ asks < MaxAsks /\ asks' = asks + 1
        /\ givenUp' = givenUp \cup {"purged"}
        /\ \E now \in 1..MaxClock :
             AppendRecord(d, "tombstone", Tombstone(Top(docs[d]), "purged", now))
  /\ Repair(d, dirty'[d])
  /\ Passed(d)
  /\ ready' = [ready EXCEPT ![d] = TRUE]
  /\ frames' = [frames EXCEPT ![d] = @ \ {"handled"}]
  /\ UNCHANGED <<serverVars, news, faults>>

\* The row that waited is retried, and so is the frame.
PullFails(d) ==
  /\ pull[d].pc = "reading" /\ Fault
  /\ pull' = [pull EXCEPT ![d] = NoPull]
  /\ ready' = [ready EXCEPT ![d] = FALSE]
  /\ IF lane[d].pc = "gate" THEN Retry(lane, d) ELSE UNCHANGED <<rowVars, lane>>
  /\ frames' = [frames EXCEPT ![d] = IF "handled" \in @ THEN {"queued"} ELSE @]
  /\ UNCHANGED <<serverVars, docVars, news, givenUp, asks>>

\* A StateChange frame for the files.
Receive(d) ==
  /\ news[d] /\ news' = [news EXCEPT ![d] = FALSE]
  /\ ready' = [ready EXCEPT ![d] = FALSE]
  /\ frames' = [frames EXCEPT ![d] = @ \cup {"queued"}]
  /\ UNCHANGED <<serverVars, docVars, rowVars, lane, pull, countVars>>

\* The pass over it refreshes the trash; one pass at a time.
Handle(d) ==
  /\ frames[d] = {"queued"} /\ frames' = [frames EXCEPT ![d] = {"handled"}]
  /\ Refresh(d)
  /\ UNCHANGED <<serverVars, docVars, rowVars, lane, ready, news, countVars>>

\* A frame is lost with its socket; the reconnect refreshes the trash.
FrameLost(d) ==
  /\ news[d] /\ Fault
  /\ news' = [news EXCEPT ![d] = FALSE]
  /\ ready' = [ready EXCEPT ![d] = FALSE]
  /\ Refresh(d)
  /\ UNCHANGED <<serverVars, docVars, rowVars, lane, frames, givenUp, asks>>

(***************************************************************************)
(* pushContactsTrash.                                                      *)
(***************************************************************************)
\* The row goes on to push files, and to destroy its card or to settle.
Push(d, entry, files, destroys) ==
  lane' = [lane EXCEPT ![d] = [@ EXCEPT !.pc = "push", !.entry = entry, !.todo = files,
                                        !.destroys = destroys, !.tries = 0]]

\* The files are pushed in the order of their names.
File(d) == CHOOSE f \in lane[d].todo : TRUE

\* Read the file and merge it; one that is clean need not be written.
PushRead(d) ==
  /\ lane[d].pc = "push" /\ lane[d].todo # {}
  /\ LET f == File(d) IN
     IF f \in dirty[d]
     THEN /\ MergeFile(d, f, remote[f])
          /\ lane' = [lane EXCEPT ![d] = [@ EXCEPT !.pc = "write", !.fileFresh = TRUE,
                                                   !.sent = docs'[d][f]]]
     ELSE /\ lane' = [lane EXCEPT ![d].todo = @ \ {f}]
          /\ UNCHANGED <<docs, dirty, known>>
  /\ UNCHANGED <<serverVars, listed, rowVars, pull, frameVars, countVars>>

\* ifInState: no file was changed since the read.
Fresh(d) == lane[d].fileFresh

\* retryFileNodeWrite: a conflict is met by reading again, twice at most.
Again(d) ==
  IF lane[d].tries < 2
  THEN /\ lane' = [lane EXCEPT ![d] = [@ EXCEPT !.pc = "push",
                                                !.tries = lane[d].tries + 1]]
       /\ UNCHANGED rowVars
  ELSE Retry(lane, d)

\* The server writes the file and tells every device.
ServeFile(d) ==
  /\ remote' = [remote EXCEPT ![File(d)] = lane[d].sent]
  /\ news' = [e \in Devices |-> TRUE]
  /\ UNCHANGED cards

NoFileFresh == [e \in Devices |-> [lane[e] EXCEPT !.fileFresh = FALSE]]

PushWrite(d) ==
  /\ lane[d].pc = "write"
  /\ IF Fresh(d)
     THEN /\ ServeFile(d)
          /\ lane' = [NoFileFresh EXCEPT ![d].pc = "confirm"]
          /\ UNCHANGED rowVars
     ELSE Again(d) /\ UNCHANGED <<serverVars, news>>
  /\ UNCHANGED <<docVars, pull, ready, frames, countVars>>

\* The uploaded local revision is still current.
Uploaded(d, f) == docs[d][f] = lane[d].sent

\* CONTACT_TRASH_CONFIRM_SHARD.
PushConfirm(d) ==
  /\ lane[d].pc = "confirm"
  /\ LET f == File(d) IN
     /\ known' = [known EXCEPT ![d][f] = lane[d].sent]
     /\ IF Uploaded(d, f)
        THEN /\ dirty' = [dirty EXCEPT ![d] = @ \ {f}]
             /\ lane' = [lane EXCEPT ![d] = [@ EXCEPT !.pc = "push", !.sent = {},
                                                      !.todo = lane[d].todo \ {f},
                                                      !.tries = 0]]
             /\ UNCHANGED rowVars
        ELSE Again(d) /\ UNCHANGED dirty
  /\ UNCHANGED <<serverVars, docs, listed, pull, frameVars, countVars>>

\* CONTACT_TRASH_ROLLBACK_ENTRIES: the staged record is tombstoned.
Rollback(d) ==
  LET top == Top(docs[d]) IN
  IF lane[d].destroys /\ top = lane[d].entry
  THEN \E now \in 1..MaxClock : AppendRecord(d, "tombstone", Tombstone(top, "purged", now))
  ELSE UNCHANGED docVars

\* A call fails, the write is served and its answer lost, or it is refused.
PushFails(d) ==
  /\ lane[d].pc \in {"push", "write"} /\ lane[d].todo # {} /\ Fault
  /\ \/ /\ Retry(lane, d)
        /\ UNCHANGED <<serverVars, docVars, news, givenUp>>
     \/ /\ lane[d].pc = "write" /\ Fresh(d)
        /\ ServeFile(d) /\ Retry(NoFileFresh, d)
        /\ UNCHANGED <<docVars, givenUp>>
     \/ /\ Rollback(d) /\ Finish(lane, d)
        /\ givenUp' = givenUp \cup {"refused"}
        /\ UNCHANGED <<serverVars, rowVars, news>>
  /\ UNCHANGED <<pull, ready, frames, asks>>

\* The staged snapshot still is what counts, as far as this device knows.
StillCounts(d) == Active(Top(docs[d])) /\ Top(docs[d]).card = lane[d].card

PushEnds(d) ==
  /\ lane[d].pc = "push" /\ lane[d].todo = {}
  /\ IF lane[d].destroys /\ StillCounts(d) THEN Go(d, "destroy") ELSE Finish(lane, d)
  /\ UNCHANGED <<serverVars, docVars, rowVars, pull, frameVars, countVars>>

(***************************************************************************)
(* deleteContactCardsWithTrash.                                            *)
(***************************************************************************)
\* Another card with the uid is in the trash.
Ambiguous(d, c) == Active(Top(docs[d])) /\ Top(docs[d]).card.id # c.id

\* Fetch the card.  One that is gone counts as destroyed; one that the trash
\* has as it is needs no new snapshot.
Fetch(d) ==
  /\ At(d, "delete", "start")
  /\ \/ /\ \A c \in cards : c.id = target[d] => Ambiguous(d, c)
        /\ Finish(lane, d)
     \/ \E c \in cards, now \in 1..MaxClock :
          /\ c.id = target[d] /\ ~Ambiguous(d, c)
          /\ lane' = [lane EXCEPT ![d] = [@ EXCEPT
               !.pc = "stage", !.card = c, !.cardFresh = TRUE,
               !.entry = IF Active(Top(docs[d])) /\ Top(docs[d]).card = c THEN Top(docs[d])
                         ELSE [status |-> "trashed", at |-> now, card |-> c]]]
  /\ UNCHANGED <<serverVars, docVars, rowVars, pull, frameVars, countVars>>

\* Mutant: only a new snapshot is pushed.
HoldersNone(d, r) == {}

\* The files a record that was staged before still has to be pushed with.
Holders(d, r) == {f \in dirty[d] : r \in docs[d][f]}

\* CONTACT_TRASH_PUT_ENTRIES.
Stage(d) ==
  LET top == Top(docs[d])
      new == [lane[d].entry EXCEPT !.at = IF top = None THEN @ ELSE Stamp(@, top)] IN
  /\ At(d, "delete", "stage")
  /\ \/ /\ Ambiguous(d, lane[d].card)
        /\ Finish(lane, d)
        /\ UNCHANGED docVars
     \/ /\ top = lane[d].entry
        /\ Push(d, top, Holders(d, top), TRUE)
        /\ listed' = [listed EXCEPT ![d] = top]
        /\ UNCHANGED <<docs, dirty, known>>
     \/ /\ ~Ambiguous(d, lane[d].card) /\ top # lane[d].entry
        /\ AppendRecord(d, "snapshot", new)
        /\ Push(d, new, {<<d, "snapshot">>}, TRUE)
  /\ UNCHANGED <<serverVars, rowVars, pull, frameVars, countVars>>

NoCardFresh == [e \in Devices |-> [lane[e] EXCEPT !.cardFresh = FALSE]]

\* Mutant: the destroy carries no condition.
SameAlways(d) == TRUE

\* ifInState: no card was changed since the fetch.
Same(d) == lane[d].cardFresh

ServeDestroy(d) == cards' = {c \in cards : c.id # lane[d].card.id} /\ UNCHANGED remote

\* ContactCard/set; a mismatch is met by fetching again, twice at most.
Destroy(d) ==
  /\ lane[d].pc = "destroy"
  /\ \/ /\ Same(d) /\ ServeDestroy(d)
        /\ Finish(NoCardFresh, d)
        /\ UNCHANGED rowVars
     \/ /\ ~Same(d) /\ lane[d].rounds < 2
        /\ lane' = [lane EXCEPT ![d] = [NoLane EXCEPT !.kind = "delete", !.pc = "start",
                                                      !.rounds = lane[d].rounds + 1]]
        /\ UNCHANGED <<serverVars, rowVars>>
     \/ /\ ~Same(d) /\ lane[d].rounds = 2
        /\ Retry(lane, d)
        /\ UNCHANGED serverVars
  /\ UNCHANGED <<docVars, pull, frameVars, countVars>>

\* It fails, is served and its answer lost, or is refused: then the snapshot is
\* to be tombstoned.
DestroyFails(d) ==
  /\ lane[d].pc = "destroy" /\ Fault
  /\ \/ Retry(lane, d) /\ UNCHANGED <<serverVars, givenUp>>
     \/ Same(d) /\ ServeDestroy(d) /\ Retry(NoCardFresh, d) /\ UNCHANGED givenUp
     \/ /\ Same(d) /\ Go(d, "mark")
        /\ givenUp' = givenUp \cup {"refused"}
        /\ UNCHANGED <<serverVars, rowVars>>
  /\ UNCHANGED <<docVars, pull, frameVars, asks>>

(***************************************************************************)
(* restoreContactTrash and deleteContactTrashForever.                      *)
(***************************************************************************)
\* The entry is read from the list, the cards are looked up by the uid.
Lookup(d) ==
  /\ At(d, "restore", "start")
  /\ \/ ~Active(listed[d]) /\ Go(d, "mark")
     \/ /\ Active(listed[d]) /\ cards = {}
        /\ lane' = [lane EXCEPT ![d] = [@ EXCEPT !.pc = "create", !.card = listed[d].card]]
     \/ /\ Active(listed[d]) /\ Cardinality(cards) = 1
        /\ lane' = [lane EXCEPT ![d] = [@ EXCEPT !.pc = "reconcile",
                                                 !.card = CHOOSE c \in cards : TRUE]]
     \/ Active(listed[d]) /\ Cardinality(cards) > 1 /\ Finish(lane, d)
  /\ UNCHANGED <<serverVars, docVars, rowVars, pull, frameVars, countVars>>

\* The server gives the card a new id.
NewIds ==
  {i \in Ids \ {0} : \A c \in cards \cup {r.card : r \in All(remote)} : c.id # i}
Created(d) == [lane[d].card EXCEPT !.id = CHOOSE i \in NewIds : TRUE]
ServeCreate(d) ==
  /\ NewIds # {}
  /\ cards' = cards \cup {Created(d)} /\ UNCHANGED remote

Create(d) ==
  /\ lane[d].pc = "create"
  /\ ServeCreate(d)
  /\ lane' = [NoCardFresh EXCEPT ![d] = [@ EXCEPT !.pc = "reconcile", !.card = Created(d)]]
  /\ UNCHANGED <<docVars, rowVars, pull, frameVars, countVars>>

CreateFails(d) ==
  /\ lane[d].pc = "create" /\ Fault
  /\ \/ Retry(lane, d) /\ UNCHANGED serverVars
     \/ ServeCreate(d) /\ Retry(NoCardFresh, d)
     \/ Finish(lane, d) /\ UNCHANGED <<serverVars, rowVars>>
  /\ UNCHANGED <<docVars, pull, frameVars, givenUp, asks>>

\* reconcileContactCards gets the card it asks for.
ReadBack(d) == \E c \in cards : c.id = lane[d].card.id

Reconcile(d) ==
  /\ lane[d].pc = "reconcile"
  /\ IF ReadBack(d) THEN Go(d, "mark") /\ UNCHANGED rowVars ELSE Retry(lane, d)
  /\ UNCHANGED <<serverVars, docVars, pull, frameVars, countVars>>

\* CONTACT_TRASH_SET_STATUS behind a restore, a purge or a refused delete.
SetStatus(d) ==
  LET top == Top(docs[d])
      status == IF lane[d].kind = "restore" THEN "restored" ELSE "purged" IN
  /\ lane[d].pc = "mark" \/ At(d, "purge", "start")
  /\ IF Active(top)
     THEN /\ \E now \in 1..MaxClock :
               AppendRecord(d, "tombstone", Tombstone(top, status, now))
          /\ EnsurePush(d)
          /\ Push(d, None, {<<d, "tombstone">>}, FALSE)
     ELSE /\ listed' = [listed EXCEPT ![d] = top]
          /\ Finish(lane, d)
          /\ UNCHANGED <<docs, dirty, known, rowVars>>
  /\ UNCHANGED <<serverVars, pull, frameVars, countVars>>

\* A push row pushes all that is dirty.
PushAll(d) ==
  /\ At(d, "push", "start")
  /\ Push(d, None, dirty[d], FALSE)
  /\ UNCHANGED <<serverVars, docVars, rowVars, pull, frameVars, countVars>>

(***************************************************************************)
(* The rest of the world.                                                  *)
(***************************************************************************)
\* Another client edits the card.
Edit ==
  /\ asks < MaxAsks /\ asks' = asks + 1
  /\ \E c \in cards : cards' = (cards \ {c}) \cup {[c EXCEPT !.ver = asks']}
  /\ lane' = NoCardFresh
  /\ UNCHANGED <<remote, docVars, rowVars, pull, frameVars, givenUp, faults>>

\* The worker dies; the next one recovers the row and refreshes the trash.
WorkerDies(d) ==
  /\ Fault
  /\ IF lane[d] = NoLane THEN UNCHANGED rows ELSE PutBack(d)
  /\ waiting' = [waiting EXCEPT ![d] = @ \ {lane[d].kind}]
  /\ Finish(lane, d)
  /\ Discover(d)
  /\ ready' = [ready EXCEPT ![d] = FALSE]
  /\ frames' = [frames EXCEPT ![d] = {}]
  /\ UNCHANGED <<serverVars, docVars, target, news, givenUp, asks>>

PullStep(d) == PullFile(d) \/ PullEnds(d) \/ Receive(d) \/ Handle(d)
PushStep(d) == PushRead(d) \/ PushWrite(d) \/ PushConfirm(d) \/ PushEnds(d) \/ PushAll(d)
RowStep(d) ==
  Begin(d) \/ PushStep(d) \/ Fetch(d) \/ Stage(d) \/ Destroy(d) \/ Lookup(d)
  \/ Create(d) \/ Reconcile(d) \/ SetStatus(d)
FaultStep(d) ==
  PullFails(d) \/ FrameLost(d) \/ PushFails(d) \/ DestroyFails(d) \/ CreateFails(d)
  \/ WorkerDies(d)

Step ==
  \/ \E d \in Devices : PullStep(d) \/ RowStep(d) \/ FaultStep(d)
  \/ \E d \in Devices, kind \in Kinds : Ask(d, kind)
  \/ Edit

\* A device that goes on to stage a record is deleting.
Remember == deleting' = deleting \cup {d \in Devices : lane'[d].pc = "stage"}

Next == Step /\ Remember

Spec == Init /\ [][Next]_vars

(***************************************************************************)
(* Properties.                                                             *)
(***************************************************************************)
\* Every record is on the server or will be: a clean file has none the server has
\* not, whatever was written, merged or appended around the push; and behind a
\* dirty one there is a push row, or the delete that staged its record, or a refresh
\* that runs or is due and will queue a push.  Two ends leave it to the next refresh
\* there is: a refusal of the push, and a delete whose first push failed and that
\* finds its card destroyed by another client.
HasRow(d, kind) == kind \in Range(rows[d]) \cup {lane[d].kind}
RefreshComes(d) == pull[d] # NoPull \/ ~ready[d]
CardGone(d) == Active(Top(docs[d])) /\ \A c \in cards : c.id # Top(docs[d]).card.id
PushComes(d) ==
  \/ HasRow(d, "push") \/ HasRow(d, "delete")
  \/ RefreshComes(d)
  \/ "refused" \in givenUp
  \/ CardGone(d)

CleanIsUploaded ==
  \A d \in Devices, f \in Files : f \notin dirty[d] => docs[d][f] \subseteq remote[f]

UploadOwed == CleanIsUploaded /\ \A d \in Devices : dirty[d] # {} => PushComes(d)

\* A card is destroyed only with a snapshot of just this card on the server,
\* whatever was edited, retried or interrupted since the snapshot was made.
CopyFirst ==
  [][\A c \in cards : (\A e \in cards' : e.id # c.id) =>
       \E r \in All(remote) : Active(r) /\ r.card = c]_vars

\* A contact that is no card is an entry of the trash that can be restored, for
\* every device that has pulled all there is: its latest record is a snapshot, or
\* one that says it was given up.  Otherwise it is a restore of a device other than
\* one that was deleting: that may hide the card the restore made from the delete,
\* or the delete from the restore, and no device's own restore can do it.
RestoredAcross ==
  /\ Top(remote).status = "restored"
  /\ \E f \in Files, d \in deleting : Top(remote) \in remote[f] /\ d # f[1]
ContactKept ==
  cards = {} =>
    \/ Active(Top(remote))
    \/ givenUp # {} /\ Top(remote).status = "purged"
    \/ RestoredAcross
=============================================================================
