---------------------------- MODULE TrashProofs ----------------------------
(***************************************************************************)
(* Proofs about ContactsTrash, for any devices, clocks, requests and       *)
(* mishaps, and whoever deletes, restores or purges.                       *)
(*                                                                         *)
(* The facts about a lane and a refresh are operators of the values they   *)
(* relate (the row l, the device's files D, the server's files R and       *)
(* cards C), so that a step is judged by the values it leaves.             *)
(*                                                                         *)
(* TrashInv: files only grow, what is clean is on the server, and a row    *)
(* that goes on to destroy its card carries a snapshot of just this card.  *)
(* UploadInv: where records come from, and what is due for a dirty file.   *)
(* RestInv: the queues and the lanes at rest.  KeptInv: who gave up, who   *)
(* deletes, and, of a device beside which none was deleting, that the      *)
(* snapshots are its own and that one on the server is younger than any    *)
(* restore of its own of a contact that is gone.                           *)
(***************************************************************************)
EXTENDS ContactsTrash, FiniteSetTheorems, TLAPS

(***************************************************************************)
(* Types.  The times of records are positive numbers, of any size.         *)
(***************************************************************************)
FilesType == [Files -> SUBSET Records]
Pcs == {"idle", "gate", "start", "stage", "push", "write", "confirm", "destroy",
        "create", "reconcile", "mark"}

IsLane(l) ==
  l \in [kind : {l.kind}, pc : Pcs, card : Cards, entry : Records \cup {None},
         todo : SUBSET Files, sent : SUBSET Records, destroys : BOOLEAN,
         cardFresh : BOOLEAN, fileFresh : BOOLEAN, tries : 0..2, rounds : 0..2]

(***************************************************************************)
(* The invariant.                                                          *)
(***************************************************************************)
UniqueIds(C) == \A c, e \in C : c.id = e.id => c = e

Grows(F, G) == \A f \in Files : F[f] \subseteq G[f]

Pushing == {"push", "write", "confirm", "destroy"}
Chosen(l) == CHOOSE f \in l.todo : TRUE

\* The record a delete carries is a snapshot of its card, and is on the server or
\* in a file still to push.
Snapshot(l) == l.entry \in Records /\ Active(l.entry) /\ l.entry.card = l.card
Carried(l, D, R) ==
  \/ \E f \in Files : l.entry \in R[f]
  \/ \E f \in l.todo : l.entry \in D[f]

LaneGood(l, D, R, C) ==
  /\ l.pc = "stage" => Snapshot(l)
  /\ l.destroys /\ l.pc \in Pushing => Snapshot(l) /\ Carried(l, D, R)
  /\ l.pc = "destroy" => l.destroys /\ l.todo = {}
  /\ l.cardFresh /\ (l.pc = "stage" \/ (l.destroys /\ l.pc \in Pushing))
       => \A c \in C : c.id = l.card.id => c = l.card
  /\ l.pc = "write" => l.todo # {} /\ (l.fileFresh => R[Chosen(l)] \subseteq l.sent)
  /\ l.pc = "confirm" => l.todo # {} /\ l.sent \subseteq R[Chosen(l)]

PullGood(p, R) ==
  /\ p \in [pc : {p.pc}, found : {p.found}]
  /\ DOMAIN p.found \subseteq Files
  /\ \A f \in DOMAIN p.found : p.found[f] \subseteq R[f]

ServerInv == cards \subseteq Cards /\ remote \in FilesType /\ UniqueIds(cards) /\ asks \in 0..MaxAsks
DocsInv ==
  /\ docs \in [Devices -> FilesType] /\ dirty \in [Devices -> SUBSET Files]
  /\ known \in [Devices -> FilesType]
  /\ listed \in [Devices -> Records \cup {None}]
  /\ CleanIsUploaded
PullInv ==
  /\ pull = [d \in Devices |-> pull[d]]
  /\ \A d \in Devices : PullGood(pull[d], remote)
LaneInv ==
  /\ lane = [d \in Devices |-> lane[d]]
  /\ \A d \in Devices : IsLane(lane[d]) /\ LaneGood(lane[d], docs[d], remote, cards)
TrashInv == ServerInv /\ DocsInv /\ PullInv /\ LaneInv

(***************************************************************************)
(* Records, files and lanes.                                               *)
(***************************************************************************)
\* What counts is a record of the files, or none.
LEMMA TopTyped ==
  ASSUME NEW F \in FilesType
  PROVE  /\ Top(F) \in Records \cup {None}
         /\ Top(F) # None => \E f \in Files : Top(F) \in F[f]
<1> DEFINE latest == {r \in All(F) : \A q \in All(F) : ~Wins(q, r)}
<1>1. Top(F) = IF latest = {} THEN None ELSE CHOOSE r \in latest : TRUE
  BY DEF Top
<1>2. latest \subseteq All(F)
  OBVIOUS
<1>3. All(F) \subseteq Records
  BY DEF All, FilesType
<1>4. \A r \in All(F) : \E f \in Files : r \in F[f]
  BY DEF All
<1> HIDE DEF latest
<1> QED
  BY <1>1, <1>2, <1>3, <1>4

\* A snapshot is a record, and no other status is active.
LEMMA ActiveIsRecord ==
  ASSUME NEW F \in FilesType, Active(Top(F))
  PROVE  Top(F) \in Records /\ \E f \in Files : Top(F) \in F[f]
BY TopTyped DEF Active, None

\* The records made from a record.
LEMMA MadeRecords ==
  ASSUME NEW r \in Records, NEW status \in {"restored", "purged"},
         NEW now \in 1..MaxClock, NEW t \in Records
  PROVE  /\ Tombstone(r, status, now) \in Records
         /\ Stamp(now, r) \in Nat \ {0}
         /\ [r EXCEPT !.at = Stamp(r.at, t)] \in Records
<1>1. now \in Nat /\ r.at \in Nat \ {0} /\ t.at \in Nat \ {0}
  BY TrashAssumption DEF Records
<1>2. Stamp(now, r) \in Nat \ {0} /\ Stamp(r.at, t) \in Nat \ {0}
  BY <1>1 DEF Stamp
<1> QED
  BY <1>2 DEF Tombstone, Records

\* No row at all is good, whatever the files and the cards.
LEMMA NoLaneIs == IsLane(NoLane) /\ \A D, R, C : LaneGood(NoLane, D, R, C)
<1>1. NoCard \in Cards
  BY TrashAssumption DEF NoCard, Cards, Ids
<1> QED
  BY <1>1 DEF IsLane, NoLane, LaneGood, Pcs, Pushing

\* A lane stays good while files grow and cards go, unless it counts on no change.
LEMMA GoodKept ==
  ASSUME NEW l, NEW D, NEW R, NEW C, NEW D2, NEW R2, NEW C2,
         IsLane(l), LaneGood(l, D, R, C), Grows(D, D2), Grows(R, R2),
         R2 = R \/ ~l.fileFresh, C2 \subseteq C \/ ~l.cardFresh
  PROVE  LaneGood(l, D2, R2, C2)
<1>1. l.todo \subseteq Files
  BY DEF IsLane
<1>2. Carried(l, D, R) => Carried(l, D2, R2)
  BY <1>1 DEF Carried, Grows
<1>3. l.todo # {} => Chosen(l) \in Files
  BY <1>1 DEF Chosen
<1> QED
  BY <1>2, <1>3 DEF LaneGood, Grows

\* A lane that learns that a card or a file changed stays what it was.
LEMMA Told ==
  ASSUME NEW l, IsLane(l)
  PROVE  /\ IsLane([l EXCEPT !.fileFresh = FALSE])
         /\ IsLane([l EXCEPT !.cardFresh = FALSE])
         /\ \A D, R, C : LaneGood(l, D, R, C) =>
              /\ LaneGood([l EXCEPT !.fileFresh = FALSE], D, R, C)
              /\ LaneGood([l EXCEPT !.cardFresh = FALSE], D, R, C)
<1>1. ASSUME NEW m, m = [l EXCEPT !.fileFresh = FALSE] \/ m = [l EXCEPT !.cardFresh = FALSE]
      PROVE  /\ IsLane(m) /\ m.pc = l.pc /\ m.entry = l.entry /\ m.card = l.card
             /\ m.destroys = l.destroys /\ m.todo = l.todo /\ m.sent = l.sent
             /\ m.fileFresh => l.fileFresh
             /\ m.cardFresh => l.cardFresh
  BY <1>1 DEF IsLane
<1>2. ASSUME NEW m, m = [l EXCEPT !.fileFresh = FALSE] \/ m = [l EXCEPT !.cardFresh = FALSE],
             NEW D, NEW R, NEW C, LaneGood(l, D, R, C)
      PROVE  LaneGood(m, D, R, C)
  BY <1>1, <1>2 DEF LaneGood, Snapshot, Carried, Chosen
<1> QED
  BY <1>1, <1>2

(***************************************************************************)
(* What the steps have in common.                                          *)
(***************************************************************************)
\* A step leaves the lanes good that it does not set.
LEMMA LanesKept ==
  ASSUME TrashInv, lane' = [e \in Devices |-> lane'[e]],
         \A e \in Devices : Grows(docs[e], docs'[e]),
         Grows(remote, remote'),
         \A e \in Devices :
           \/ IsLane(lane'[e]) /\ LaneGood(lane'[e], docs'[e], remote', cards')
           \/ /\ lane'[e] = lane[e] /\ remote' = remote /\ cards' \subseteq cards
           \/ /\ lane'[e] = [lane[e] EXCEPT !.fileFresh = FALSE] /\ cards' \subseteq cards
           \/ /\ lane'[e] = [lane[e] EXCEPT !.cardFresh = FALSE] /\ remote' = remote
  PROVE  LaneInv'
<1> SUFFICES ASSUME NEW e \in Devices,
                    ~(IsLane(lane'[e]) /\ LaneGood(lane'[e], docs'[e], remote', cards'))
             PROVE  IsLane(lane'[e]) /\ LaneGood(lane'[e], docs'[e], remote', cards')
  BY DEF LaneInv
<1>1. IsLane(lane[e]) /\ LaneGood(lane[e], docs[e], remote, cards)
  BY DEF TrashInv, LaneInv
<1> DEFINE l == lane[e]
           noFile == [l EXCEPT !.fileFresh = FALSE]
           noCard == [l EXCEPT !.cardFresh = FALSE]
<1>2. ~noFile.fileFresh /\ ~noCard.cardFresh
  BY <1>1 DEF IsLane
<1>3. /\ IsLane(noFile) /\ LaneGood(noFile, docs[e], remote, cards)
      /\ IsLane(noCard) /\ LaneGood(noCard, docs[e], remote, cards)
  BY <1>1, Told
<1>4. \/ lane'[e] = l /\ remote' = remote /\ cards' \subseteq cards
      \/ lane'[e] = noFile /\ cards' \subseteq cards
      \/ lane'[e] = noCard /\ remote' = remote
  OBVIOUS
<1>5. Grows(docs[e], docs'[e]) /\ Grows(remote, remote')
  OBVIOUS
<1> HIDE DEF l, noFile, noCard
<1>6. CASE lane'[e] = l /\ remote' = remote /\ cards' \subseteq cards
  BY <1>1, <1>5, <1>6, GoodKept DEF l
<1>7. CASE lane'[e] = noFile /\ cards' \subseteq cards
  BY <1>2, <1>3, <1>5, <1>7, GoodKept
<1>8. CASE lane'[e] = noCard /\ remote' = remote
  BY <1>2, <1>3, <1>5, <1>8, GoodKept
<1> QED
  BY <1>4, <1>6, <1>7, <1>8

\* What was found is still there when files grow.
LEMMA PullsKept ==
  ASSUME PullInv, Grows(remote, remote'), UNCHANGED pull
  PROVE  PullInv'
<1>1. ASSUME NEW p, PullGood(p, remote)
      PROVE  PullGood(p, remote')
  BY <1>1 DEF PullGood, Grows
<1> QED
  BY <1>1 DEF PullInv

\* A refresh finds what is there.
LEMMA DiscoverGood ==
  ASSUME PullInv, remote \in FilesType, UNCHANGED remote, NEW d \in Devices,
         Discover(d) \/ Refresh(d)
  PROVE  PullInv'
<1>1. CASE UNCHANGED pull
  BY <1>1 DEF PullInv
<1>2. CASE Discover(d)
  <2> DEFINE todo == {f \in Files :
                remote[f] # {} /\ (f \in dirty[d] \/ known[d][f] # remote[f])}
             p == [pc |-> "reading", found |-> Restrict(remote, todo)]
  <2>1. pull' = [pull EXCEPT ![d] = p]
    BY <1>2 DEF Discover
  <2>2. PullGood(p, remote)
    BY DEF PullGood, Restrict
  <2> HIDE DEF p
  <2>3. pull' = [e \in Devices |-> IF e = d THEN p ELSE pull[e]]
    BY <2>1 DEF PullInv
  <2> QED
    BY <2>2, <2>3 DEF PullInv
<1> QED
  BY <1>1, <1>2 DEF Refresh

\* A merge with what the server has or had.
LEMMA MergeGood ==
  ASSUME TrashInv, NEW d \in Devices, NEW f \in Files, NEW seen, seen \subseteq remote[f],
         MergeFile(d, f, seen), UNCHANGED <<listed, remote>>
  PROVE  /\ DocsInv' /\ \A e \in Devices : Grows(docs[e], docs'[e])
         /\ seen \subseteq docs'[d][f]
<1>1. docs \in [Devices -> FilesType] /\ dirty \in [Devices -> SUBSET Files]
      /\ seen \subseteq Records
  BY DEF TrashInv, ServerInv, DocsInv, FilesType
<1>2. docs' = [docs EXCEPT ![d] = [docs[d] EXCEPT ![f] = docs[d][f] \cup seen]]
  BY DEF MergeFile
<1>3. [docs[d] EXCEPT ![f] = docs[d][f] \cup seen] \in FilesType
  BY <1>1 DEF FilesType
<1>4. docs' \in [Devices -> FilesType]
  BY <1>1, <1>2, <1>3
<1>5. \A e \in Devices, g \in Files :
        docs'[e][g] = IF e = d /\ g = f THEN docs[e][g] \cup seen ELSE docs[e][g]
  BY <1>1, <1>2 DEF FilesType
<1>6. dirty' \in [Devices -> SUBSET Files] /\ \A e \in Devices : dirty[e] \subseteq dirty'[e]
  BY <1>1 DEF MergeFile
<1>7. docs[d][f] \subseteq seen \/ f \in dirty'[d]
  BY <1>1 DEF MergeFile
<1>8. CleanIsUploaded'
  BY <1>5, <1>6, <1>7 DEF TrashInv, DocsInv, CleanIsUploaded
<1>9. known' \in [Devices -> FilesType]
  BY <1>1 DEF MergeFile, TrashInv, DocsInv, FilesType
<1> QED
  BY <1>4, <1>5, <1>6, <1>8, <1>9 DEF Grows, TrashInv, DocsInv

\* A record is appended.
LEMMA AppendGood ==
  ASSUME TrashInv, NEW d \in Devices, NEW kind \in {"snapshot", "tombstone"},
         NEW r \in Records, AppendRecord(d, kind, r), UNCHANGED remote
  PROVE  /\ DocsInv' /\ \A e \in Devices : Grows(docs[e], docs'[e])
         /\ r \in docs'[d][<<d, kind>>]
<1> DEFINE f == <<d, kind>>
           new == [docs[d] EXCEPT ![f] = docs[d][f] \cup {r}]
<1>1. docs \in [Devices -> FilesType] /\ dirty \in [Devices -> SUBSET Files] /\ f \in Files
      /\ listed \in [Devices -> Records \cup {None}]
  BY DEF TrashInv, DocsInv, Files
<1>2. /\ docs' = [docs EXCEPT ![d] = new]
      /\ dirty' = [dirty EXCEPT ![d] = dirty[d] \cup {f}]
      /\ listed' = [listed EXCEPT ![d] = Top(new)] /\ UNCHANGED known
  BY DEF AppendRecord
<1>3. new \in FilesType
  BY <1>1 DEF FilesType
<1>4. docs' \in [Devices -> FilesType] /\ listed' \in [Devices -> Records \cup {None}]
  BY <1>1, <1>2, <1>3, TopTyped
<1>5. \A e \in Devices, g \in Files :
        docs'[e][g] = IF e = d /\ g = f THEN docs[e][g] \cup {r} ELSE docs[e][g]
  BY <1>1, <1>2 DEF FilesType
<1>6. dirty' \in [Devices -> SUBSET Files] /\ f \in dirty'[d]
      /\ \A e \in Devices : dirty[e] \subseteq dirty'[e]
  BY <1>1, <1>2
<1> HIDE DEF f
<1>7. CleanIsUploaded'
  BY <1>5, <1>6 DEF TrashInv, DocsInv, CleanIsUploaded
<1>8. DocsInv'
  BY <1>2, <1>4, <1>6, <1>7 DEF TrashInv, DocsInv
<1>9. r \in docs'[d][f] /\ \A e \in Devices : Grows(docs[e], docs'[e])
  BY <1>1, <1>5 DEF Grows
<1> QED
  BY <1>8, <1>9 DEF f

\* The files of a device and what it lists do not change; those of the server may grow.
LEMMA DocsKept ==
  ASSUME DocsInv, Grows(remote, remote'), UNCHANGED <<docs, dirty, known>>,
         listed' \in [Devices -> Records \cup {None}]
  PROVE  DocsInv' /\ \A e \in Devices : Grows(docs[e], docs'[e])
BY DEF DocsInv, CleanIsUploaded, Grows

(***************************************************************************)
(* The kinds of steps.                                                     *)
(***************************************************************************)
\* A step of one device that leaves the server alone.
LEMMA LocalStep ==
  ASSUME TrashInv, NEW d \in Devices, NEW l, lane' = [lane EXCEPT ![d] = l],
         IsLane(l), LaneGood(l, docs'[d], remote, cards),
         UNCHANGED serverVars, asks' \in 0..MaxAsks,
         DocsInv', \A e \in Devices : Grows(docs[e], docs'[e]), PullInv'
  PROVE  TrashInv'
<1>1. remote' = remote /\ cards' = cards /\ Grows(remote, remote')
  BY DEF serverVars, Grows
<1>2. lane' = [e \in Devices |-> IF e = d THEN l ELSE lane[e]]
  BY DEF TrashInv, LaneInv
<1>3. LaneInv'
  BY <1>1, <1>2, LanesKept
<1>4. ServerInv'
  BY <1>1 DEF TrashInv, ServerInv
<1> QED
  BY <1>3, <1>4 DEF TrashInv

\* One that leaves all rows alone, too.
LEMMA QuietStep ==
  ASSUME TrashInv, UNCHANGED <<serverVars, lane>>, asks' \in 0..MaxAsks,
         DocsInv', \A e \in Devices : Grows(docs[e], docs'[e]), PullInv'
  PROVE  TrashInv'
<1>1. remote' = remote /\ cards' = cards /\ lane' = lane /\ Grows(remote, remote')
  BY DEF serverVars, Grows
<1>2. LaneInv'
  BY <1>1, LanesKept DEF TrashInv, LaneInv
<1>3. ServerInv'
  BY <1>1 DEF TrashInv, ServerInv
<1> QED
  BY <1>2, <1>3 DEF TrashInv

\* The device's files, and what it lists, stay.
LEMMA SameDocs ==
  ASSUME TrashInv, UNCHANGED docVars, Grows(remote, remote')
  PROVE  DocsInv' /\ \A e \in Devices : Grows(docs[e], docs'[e])
BY DocsKept DEF TrashInv, DocsInv, docVars

\* A row goes on, and nothing else happens.
LEMMA RowGoesOn ==
  ASSUME TrashInv, NEW d \in Devices, NEW l, lane' = [lane EXCEPT ![d] = l],
         IsLane(l), LaneGood(l, docs[d], remote, cards),
         UNCHANGED <<serverVars, docVars>>, asks' \in 0..MaxAsks, PullInv'
  PROVE  TrashInv'
<1>1. Grows(remote, remote') /\ docs' = docs /\ UNCHANGED serverVars /\ UNCHANGED docVars
  BY DEF serverVars, docVars, Grows
<1>2. DocsInv' /\ \A e \in Devices : Grows(docs[e], docs'[e])
  BY <1>1, SameDocs
<1> QED
  BY <1>1, <1>2, LocalStep

\* A row ends, or is put back.
LEMMA RowEnds ==
  ASSUME TrashInv, NEW d \in Devices, Finish(lane, d),
         UNCHANGED <<serverVars, docVars>>, asks' \in 0..MaxAsks, PullInv'
  PROVE  TrashInv'
BY RowGoesOn, NoLaneIs DEF Finish

\* The server writes the file of a row whose read is fresh.
LEMMA FileStep ==
  ASSUME TrashInv, NEW d \in Devices, lane[d].pc = "write", Fresh(d), ServeFile(d),
         NEW l, lane' = [NoFileFresh EXCEPT ![d] = l], IsLane(l),
         LaneGood(l, docs[d], remote', cards),
         UNCHANGED <<docVars, pull, asks>>
  PROVE  TrashInv'
<1> DEFINE f == Chosen(lane[d])
<1>1. /\ IsLane(lane[d]) /\ lane[d].todo # {} /\ remote[f] \subseteq lane[d].sent
      /\ remote \in FilesType
  BY DEF TrashInv, LaneInv, ServerInv, LaneGood, Fresh
<1>2. f \in Files /\ lane[d].sent \subseteq Records
  BY <1>1 DEF Chosen, IsLane
<1>3. remote' = [remote EXCEPT ![f] = lane[d].sent] /\ cards' = cards
  BY DEF ServeFile, File, Chosen
<1>4. remote' \in FilesType /\ Grows(remote, remote')
  BY <1>1, <1>2, <1>3 DEF FilesType, Grows
<1>5. ServerInv'
  BY <1>3, <1>4 DEF TrashInv, ServerInv
<1>6. UNCHANGED docVars /\ UNCHANGED pull /\ docs' = docs
  BY DEF docVars
<1>7. DocsInv' /\ \A e \in Devices : Grows(docs[e], docs'[e])
  BY <1>4, <1>6, SameDocs
<1>8. PullInv'
  BY <1>4, <1>6, PullsKept DEF TrashInv
<1>9. lane' = [e \in Devices |->
                 IF e = d THEN l ELSE [lane[e] EXCEPT !.fileFresh = FALSE]]
  BY DEF NoFileFresh
<1>10. LaneInv'
  BY <1>3, <1>4, <1>6, <1>7, <1>9, LanesKept
<1> QED
  BY <1>5, <1>7, <1>8, <1>10 DEF TrashInv

\* Cards come, go or change, and every row is told.
LEMMA CardStep ==
  ASSUME TrashInv, NEW d \in Devices, cards' \subseteq Cards, UniqueIds(cards'),
         NEW l, lane' = [NoCardFresh EXCEPT ![d] = l], IsLane(l),
         LaneGood(l, docs[d], remote, cards'),
         UNCHANGED <<remote, docVars, pull, asks>>
  PROVE  TrashInv'
<1>1. /\ UNCHANGED docVars /\ UNCHANGED pull /\ docs' = docs /\ remote' = remote
      /\ Grows(remote, remote')
  BY DEF docVars, Grows
<1>2. DocsInv' /\ \A e \in Devices : Grows(docs[e], docs'[e])
  BY <1>1, SameDocs
<1>3. PullInv'
  BY <1>1, PullsKept DEF TrashInv
<1>4. lane' = [e \in Devices |->
                 IF e = d THEN l ELSE [lane[e] EXCEPT !.cardFresh = FALSE]]
  BY DEF NoCardFresh
<1>5. LaneInv'
  BY <1>1, <1>2, <1>4, LanesKept
<1>6. ServerInv'
  BY <1>1 DEF TrashInv, ServerInv
<1> QED
  BY <1>2, <1>3, <1>5, <1>6 DEF TrashInv


(***************************************************************************)
(* Init and the steps of Next.                                             *)
(***************************************************************************)
\* The invariant holds at the start.
LEMMA InitTrash == Init => TrashInv
<1> SUFFICES ASSUME Init PROVE TrashInv
  OBVIOUS
<1>1. First \in Cards /\ MaxAsks \in Nat
  BY TrashAssumption DEF First, Cards, Ids
<1>2. PICK files \in Begun :
        /\ cards = IF files = Empty THEN {First} ELSE {}
        /\ remote = files
        /\ docs = [d \in Devices |-> files]
        /\ listed = [d \in Devices |-> Top(files)]
        /\ asks \in 0..MaxAsks
  BY DEF Init
<1>3. files \in FilesType
  <2>1. Empty \in FilesType
    BY DEF Empty, FilesType
  <2>2. [status |-> "trashed", at |-> 1, card |-> First] \in Records
    BY <1>1 DEF Records
  <2> QED
    BY <2>1, <2>2 DEF Begun, FilesType
<1>4. ServerInv
  BY <1>1, <1>2, <1>3 DEF ServerInv, UniqueIds
<1>5. Top(files) \in Records \cup {None}
  BY <1>3, TopTyped
<1>6. dirty = [d \in Devices |-> {}] /\ lane = [d \in Devices |-> NoLane]
      /\ pull = [d \in Devices |-> NoPull] /\ known = docs
  BY DEF Init
<1>7. DocsInv
  BY <1>2, <1>3, <1>5, <1>6 DEF DocsInv, CleanIsUploaded
<1>8. PullGood(NoPull, remote)
  BY DEF PullGood, NoPull
<1>9. PullInv
  BY <1>6, <1>8 DEF PullInv
<1>10. LaneInv
  BY <1>6, NoLaneIs DEF LaneInv
<1> QED
  BY <1>4, <1>7, <1>9, <1>10 DEF TrashInv

\* What every step may use of the row of a device.
LEMMA RowFacts ==
  ASSUME TrashInv, NEW d \in Devices
  PROVE  /\ IsLane(lane[d]) /\ LaneGood(lane[d], docs[d], remote, cards)
         /\ lane = [lane EXCEPT ![d] = lane[d]]
         /\ docs[d] \in FilesType /\ remote \in FilesType /\ dirty[d] \subseteq Files
         /\ cards \subseteq Cards /\ UniqueIds(cards) /\ asks \in 0..MaxAsks
         /\ Top(docs[d]) \in Records \cup {None}
BY TopTyped DEF TrashInv, ServerInv, DocsInv, LaneInv

\* Asking, being told and starting a refresh.
LEMMA AskStep ==
  ASSUME TrashInv, NEW d \in Devices, NEW kind \in Kinds,
         Ask(d, kind) \/ Receive(d) \/ Handle(d) \/ FrameLost(d)
  PROVE  TrashInv'
<1>1. UNCHANGED <<serverVars, docVars, lane>> /\ asks' \in 0..MaxAsks
  BY RowFacts, TrashAssumption DEF Ask, Receive, Handle, FrameLost, countVars
<1>2. remote' = remote /\ Grows(remote, remote')
  BY <1>1 DEF serverVars, Grows
<1>3. PullInv'
  <2>1. CASE UNCHANGED pull
    BY <1>2, <2>1, PullsKept DEF TrashInv
  <2>2. CASE Refresh(d)
    BY <1>2, <2>2, DiscoverGood, RowFacts DEF TrashInv
  <2> QED
    BY <2>1, <2>2 DEF Ask, Receive, Handle, FrameLost
<1>4. DocsInv' /\ \A e \in Devices : Grows(docs[e], docs'[e])
  BY <1>1, <1>2, SameDocs
<1> QED
  BY <1>1, <1>3, <1>4, QuietStep

\* A row is taken.
LEMMA BeginStep ==
  ASSUME TrashInv, NEW d \in Devices, Begin(d)
  PROVE  TrashInv'
<1>1. PICK i \in 1..Len(rows[d]) :
        /\ lane' = [lane EXCEPT ![d] = [NoLane EXCEPT !.kind = rows[d][i],
                      !.pc = IF Open(d, rows[d][i]) THEN "start" ELSE "gate"]]
        /\ IF Open(d, rows[d][i]) THEN UNCHANGED pull ELSE Refresh(d)
  BY DEF Begin
<1> DEFINE l == [NoLane EXCEPT !.kind = rows[d][i],
                  !.pc = IF Open(d, rows[d][i]) THEN "start" ELSE "gate"]
<1>2. IsLane(l) /\ LaneGood(l, docs[d], remote, cards)
  <2>1. /\ l.pc \in {"start", "gate"} /\ l.destroys = FALSE
        /\ IsLane(l)
    BY NoLaneIs DEF NoLane, IsLane, Pcs
  <2> QED
    BY <2>1 DEF LaneGood, Pushing
<1>3. UNCHANGED <<serverVars, docVars>> /\ remote' = remote /\ Grows(remote, remote')
      /\ asks' \in 0..MaxAsks
  BY RowFacts DEF Begin, serverVars, countVars, Grows
<1>4. PullInv'
  <2>1. CASE UNCHANGED pull
    BY <1>3, <2>1, PullsKept DEF TrashInv
  <2>2. CASE Refresh(d)
    BY <1>3, <2>2, DiscoverGood, RowFacts DEF TrashInv
  <2> QED
    BY <1>1, <2>1, <2>2
<1> QED
  BY <1>1, <1>2, <1>3, <1>4, RowGoesOn

\* A file that was found is merged.
LEMMA PullFileStep ==
  ASSUME TrashInv, NEW d \in Devices, PullFile(d)
  PROVE  TrashInv'
<1> DEFINE f == CHOOSE g \in Unread(d) : TRUE
           found == pull[d].found
           rest == Restrict(found, Unread(d) \ {f})
<1>1. /\ MergeFile(d, f, found[f]) /\ UNCHANGED listed /\ UNCHANGED remote
      /\ UNCHANGED <<serverVars, lane>> /\ asks' \in 0..MaxAsks
      /\ pull' = [pull EXCEPT ![d] = [pull[d] EXCEPT !.found = rest]]
  BY RowFacts DEF PullFile, serverVars, countVars
<1>2. PullGood(pull[d], remote) /\ f \in DOMAIN found
  BY DEF PullFile, Unread, TrashInv, PullInv
<1>3. f \in Files /\ found[f] \subseteq remote[f]
  BY <1>2 DEF PullGood
<1> HIDE DEF f
<1>4. DocsInv' /\ \A e \in Devices : Grows(docs[e], docs'[e])
  BY <1>1, <1>3, MergeGood
<1>5. DOMAIN rest \subseteq DOMAIN found /\ \A g \in DOMAIN rest : rest[g] = found[g]
  BY DEF Restrict, Unread
<1> HIDE DEF rest
<1>6. PullGood([pull[d] EXCEPT !.found = rest], remote)
  BY <1>2, <1>5 DEF PullGood
<1>7. PullInv'
  BY <1>1, <1>6 DEF TrashInv, PullInv
<1> QED
  BY <1>1, <1>4, <1>7, QuietStep

\* What a tombstone is made of what counts.
LEMMA TombstoneTyped ==
  ASSUME TrashInv, NEW d \in Devices, Active(Top(docs[d])),
         NEW status \in {"restored", "purged"}, NEW now \in 1..MaxClock
  PROVE  Tombstone(Top(docs[d]), status, now) \in Records
BY RowFacts, ActiveIsRecord, MadeRecords

\* A refresh ends, and the row that waited for it goes on.
LEMMA PullEndsStep ==
  ASSUME TrashInv, NEW d \in Devices, PullEnds(d)
  PROVE  TrashInv'
<1> DEFINE l == IF lane[d].pc = "gate" THEN [lane[d] EXCEPT !.pc = "start"] ELSE lane[d]
<1>1. /\ UNCHANGED serverVars /\ remote' = remote /\ Grows(remote, remote')
      /\ pull' = [pull EXCEPT ![d] = NoPull] /\ asks' \in 0..MaxAsks
  BY RowFacts, TrashAssumption DEF PullEnds, serverVars, Grows
<1>2. PullInv'
  <2>1. PullGood(NoPull, remote)
    BY DEF PullGood, NoPull
  <2> QED
    BY <1>1, <2>1 DEF TrashInv, PullInv
<1>3. DocsInv' /\ \A e \in Devices : Grows(docs[e], docs'[e])
  <2>1. CASE listed' = [listed EXCEPT ![d] = Top(docs[d])] /\ UNCHANGED <<docs, dirty, known>>
    BY <1>1, <2>1, DocsKept, RowFacts DEF TrashInv, DocsInv
  <2>2. CASE /\ Active(Top(docs[d]))
             /\ \E now \in 1..MaxClock :
                  AppendRecord(d, "tombstone", Tombstone(Top(docs[d]), "purged", now))
    BY <1>1, <2>2, TombstoneTyped, AppendGood
  <2> QED
    BY <2>1, <2>2 DEF PullEnds
<1>4. lane' = [lane EXCEPT ![d] = l]
  BY RowFacts DEF PullEnds, Passed
<1>5. IsLane(l) /\ LaneGood(l, docs[d], remote, cards)
  <2>1. CASE lane[d].pc = "gate"
    <3>1. l.pc = "start" /\ IsLane(l)
      BY <2>1, RowFacts DEF IsLane, Pcs
    <3> QED
      BY <3>1 DEF LaneGood, Pushing
  <2> QED
    BY <2>1, RowFacts
<1>6. LaneGood(l, docs'[d], remote, cards)
  BY <1>3, <1>5, GoodKept DEF Grows
<1> QED
  BY <1>1, <1>2, <1>3, <1>4, <1>5, <1>6, LocalStep

\* A refresh fails, and the row that waited for it is put back.
LEMMA PullFailsStep ==
  ASSUME TrashInv, NEW d \in Devices, PullFails(d)
  PROVE  TrashInv'
<1>1. /\ UNCHANGED <<serverVars, docVars>> /\ remote' = remote /\ Grows(remote, remote')
      /\ pull' = [pull EXCEPT ![d] = NoPull] /\ asks' \in 0..MaxAsks
  BY RowFacts DEF PullFails, serverVars, Grows
<1>2. PullInv'
  <2>1. PullGood(NoPull, remote)
    BY DEF PullGood, NoPull
  <2> QED
    BY <1>1, <2>1 DEF TrashInv, PullInv
<1>3. Finish(lane, d) \/ lane' = [lane EXCEPT ![d] = lane[d]]
  BY RowFacts DEF PullFails, Retry
<1> QED
  BY <1>1, <1>2, <1>3, RowEnds, RowGoesOn, RowFacts

\* The worker dies.
LEMMA DeathStep ==
  ASSUME TrashInv, NEW d \in Devices, WorkerDies(d)
  PROVE  TrashInv'
<1>1. /\ UNCHANGED <<serverVars, docVars>> /\ UNCHANGED remote /\ asks' \in 0..MaxAsks
      /\ Finish(lane, d) /\ Discover(d)
  BY RowFacts DEF WorkerDies, serverVars
<1>2. PullInv'
  BY <1>1, DiscoverGood, RowFacts DEF TrashInv
<1> QED
  BY <1>1, <1>2, RowEnds


\* A row that pushes reads its file, and goes on to write it unless it is clean.
LEMMA PushReadStep ==
  ASSUME TrashInv, NEW d \in Devices, PushRead(d)
  PROVE  TrashInv'
<1> DEFINE f == Chosen(lane[d])
           l == lane[d]
<1>1. /\ IsLane(l) /\ LaneGood(l, docs[d], remote, cards)
      /\ l.pc = "push" /\ l.todo # {} /\ f \in l.todo /\ f \in Files /\ File(d) = f
  BY RowFacts DEF PushRead, IsLane, Chosen, File
<1>2. UNCHANGED serverVars /\ remote' = remote /\ UNCHANGED listed /\ asks' \in 0..MaxAsks
      /\ Grows(remote, remote')
  BY RowFacts DEF PushRead, serverVars, countVars, Grows
<1>3. PullInv'
  BY <1>2, PullsKept DEF TrashInv, PushRead
<1>4. CASE f \in dirty[d]
  <2> DEFINE m == [l EXCEPT !.pc = "write", !.fileFresh = TRUE, !.sent = docs'[d][f]]
  <2>1. MergeFile(d, f, remote[f]) /\ lane' = [lane EXCEPT ![d] = m]
    BY <1>1, <1>4 DEF PushRead
  <2>2. DocsInv' /\ (\A e \in Devices : Grows(docs[e], docs'[e])) /\ remote[f] \subseteq docs'[d][f]
    BY <1>1, <1>2, <2>1, MergeGood
  <2>3. docs'[d][f] \subseteq Records
    BY <1>1, <2>2 DEF DocsInv, FilesType
  <2>4. LaneGood(l, docs'[d], remote, cards)
    BY <1>1, <2>2, GoodKept DEF Grows
  <2>5. /\ IsLane(m) /\ m.pc = "write" /\ m.todo = l.todo /\ m.sent = docs'[d][f]
        /\ m.entry = l.entry /\ m.card = l.card /\ m.destroys = l.destroys
        /\ m.cardFresh = l.cardFresh
    BY <1>1, <2>3 DEF IsLane, Pcs
  <2> HIDE DEF m
  <2>6. Chosen(m) = f
    BY <2>5 DEF Chosen
  <2>7. LaneGood(m, docs'[d], remote, cards)
    BY <1>1, <2>2, <2>4, <2>5, <2>6 DEF LaneGood, Pushing, Snapshot, Carried
  <2> QED
    BY <1>2, <1>3, <2>1, <2>2, <2>5, <2>7, LocalStep
<1>5. CASE f \notin dirty[d]
  <2> DEFINE m == [l EXCEPT !.todo = l.todo \ {f}]
  <2>1. lane' = [lane EXCEPT ![d] = m] /\ UNCHANGED docVars
    BY <1>1, <1>5 DEF PushRead, docVars
  <2>2. docs[d][f] \subseteq remote[f]
    BY <1>1, <1>5 DEF TrashInv, DocsInv, CleanIsUploaded
  <2>3. /\ IsLane(m) /\ m.pc = "push" /\ m.todo = l.todo \ {f}
        /\ m.entry = l.entry /\ m.card = l.card /\ m.destroys = l.destroys
        /\ m.cardFresh = l.cardFresh
    BY <1>1 DEF IsLane
  <2> HIDE DEF m
  <2>4. Carried(l, docs[d], remote) => Carried(m, docs[d], remote)
    BY <1>1, <2>2, <2>3 DEF Carried
  <2>5. LaneGood(m, docs[d], remote, cards)
    BY <1>1, <2>3, <2>4 DEF LaneGood, Pushing, Snapshot
  <2> QED
    BY <1>2, <1>3, <2>1, <2>3, <2>5, RowGoesOn
<1> QED
  BY <1>4, <1>5

\* The row reads the file again, or is put back.
LEMMA AgainGood ==
  ASSUME TrashInv, NEW d \in Devices, lane[d].pc \in {"write", "confirm"}, Again(d)
  PROVE  \E l : /\ lane' = [lane EXCEPT ![d] = l]
                /\ IsLane(l) /\ LaneGood(l, docs[d], remote, cards)
<1>1. CASE lane[d].tries < 2
  <2> DEFINE n == lane[d].tries + 1
             l == [lane[d] EXCEPT !.pc = "push", !.tries = n]
  <2>1. lane' = [lane EXCEPT ![d] = l]
    BY <1>1 DEF Again
  <2>2. IsLane(lane[d]) /\ LaneGood(lane[d], docs[d], remote, cards) /\ n \in 0..2
    BY <1>1, RowFacts DEF IsLane
  <2> HIDE DEF n
  <2>3. /\ IsLane(l) /\ l.pc = "push" /\ l.todo = lane[d].todo
        /\ l.entry = lane[d].entry /\ l.card = lane[d].card
        /\ l.destroys = lane[d].destroys /\ l.cardFresh = lane[d].cardFresh
    BY <2>2 DEF IsLane, Pcs
  <2> HIDE DEF l
  <2>4. LaneGood(l, docs[d], remote, cards)
    BY <2>2, <2>3 DEF LaneGood, Pushing, Snapshot, Carried
  <2> QED
    BY <2>1, <2>3, <2>4
<1>2. CASE ~(lane[d].tries < 2)
  BY <1>2, NoLaneIs DEF Again, Retry, Finish
<1> QED
  BY <1>1, <1>2

\* A file is written, or the row reads it again.
LEMMA PushWriteStep ==
  ASSUME TrashInv, NEW d \in Devices, PushWrite(d)
  PROVE  TrashInv'
<1> DEFINE l == lane[d]
<1>1. IsLane(l) /\ LaneGood(l, docs[d], remote, cards) /\ l.pc = "write"
  BY RowFacts DEF PushWrite
<1>2. CASE Fresh(d)
  <2> DEFINE n == [l EXCEPT !.fileFresh = FALSE]
             m == [n EXCEPT !.pc = "confirm"]
  <2>1. ServeFile(d) /\ lane' = [NoFileFresh EXCEPT ![d] = m] /\ UNCHANGED <<docVars, pull, asks>>
    BY <1>2 DEF PushWrite, NoFileFresh, countVars
  <2>2. /\ IsLane(m) /\ m.pc = "confirm" /\ m.todo = l.todo /\ m.sent = l.sent
        /\ m.entry = l.entry /\ m.card = l.card /\ m.destroys = l.destroys
        /\ m.cardFresh = l.cardFresh
    BY <1>1 DEF IsLane, Pcs
  <2>3. l.todo # {} /\ remote[Chosen(l)] \subseteq l.sent /\ Chosen(l) \in Files
    BY <1>1, <1>2 DEF LaneGood, Fresh, Chosen, IsLane
  <2>4. remote' = [remote EXCEPT ![Chosen(l)] = l.sent]
    BY <2>1 DEF ServeFile, File, Chosen
  <2>5. remote'[Chosen(l)] = l.sent /\ Grows(remote, remote')
    BY <2>3, <2>4, RowFacts DEF FilesType, Grows
  <2> HIDE DEF m
  <2>6. Chosen(m) = Chosen(l)
    BY <2>2 DEF Chosen
  <2>7. Carried(l, docs[d], remote) => Carried(m, docs[d], remote')
    BY <2>2, <2>5 DEF Carried, Grows
  <2>8. LaneGood(m, docs[d], remote', cards)
    BY <1>1, <2>2, <2>3, <2>5, <2>6, <2>7 DEF LaneGood, Pushing, Snapshot
  <2> QED
    BY <1>1, <1>2, <2>1, <2>2, <2>8, FileStep
<1>3. CASE ~Fresh(d)
  <2>1. Again(d) /\ UNCHANGED <<serverVars, docVars>> /\ UNCHANGED pull /\ asks' \in 0..MaxAsks
    BY <1>3, RowFacts DEF PushWrite, countVars
  <2>2. PullInv'
    BY <2>1, PullsKept DEF TrashInv, serverVars, Grows
  <2> QED
    BY <1>1, <2>1, <2>2, AgainGood, RowGoesOn
<1> QED
  BY <1>2, <1>3

\* A confirmation leaves files behind remote_blob_id.
LEMMA ConfirmTyped ==
  ASSUME TrashInv, NEW d \in Devices, PushConfirm(d)
  PROVE  known' \in [Devices -> FilesType]
<1>1. lane[d].sent \subseteq Records
  BY RowFacts DEF IsLane
<1> QED
  BY <1>1 DEF PushConfirm, TrashInv, DocsInv, FilesType

\* A written file is confirmed, or the row goes on with what came since.
LEMMA PushConfirmStep ==
  ASSUME TrashInv, NEW d \in Devices, PushConfirm(d)
  PROVE  TrashInv'
<1> DEFINE l == lane[d]
           f == Chosen(l)
<1>1. /\ IsLane(l) /\ LaneGood(l, docs[d], remote, cards) /\ l.pc = "confirm"
      /\ f \in l.todo /\ f \in Files /\ l.sent \subseteq remote[f] /\ File(d) = f
  BY RowFacts DEF PushConfirm, LaneGood, IsLane, Chosen, File
<1>2. /\ UNCHANGED serverVars /\ remote' = remote /\ UNCHANGED <<docs, listed>>
      /\ asks' \in 0..MaxAsks /\ UNCHANGED pull
  BY RowFacts DEF PushConfirm, serverVars, countVars
<1>3. PullInv' /\ \A e \in Devices : Grows(docs[e], docs'[e])
  BY <1>2, PullsKept DEF TrashInv, Grows
<1>4. CASE Uploaded(d, f)
  <2> DEFINE m == [l EXCEPT !.pc = "push", !.sent = {}, !.todo = l.todo \ {f}, !.tries = 0]
  <2>1. docs[d][f] \subseteq remote[f]
    BY <1>1, <1>4 DEF Uploaded
  <2>2. dirty' = [dirty EXCEPT ![d] = dirty[d] \ {f}] /\ lane' = [lane EXCEPT ![d] = m]
    BY <1>1, <1>4 DEF PushConfirm
  <2>3. dirty \in [Devices -> SUBSET Files]
    BY DEF TrashInv, DocsInv
  <2>4. \A e \in Devices, g \in Files : g \notin dirty'[e] =>
          g \notin dirty[e] \/ (e = d /\ g = f)
    BY <2>2, <2>3
  <2>5. CleanIsUploaded'
    BY <1>2, <2>1, <2>4 DEF TrashInv, DocsInv, CleanIsUploaded
  <2>6. DocsInv'
    BY <1>2, <2>2, <2>3, <2>5, ConfirmTyped DEF TrashInv, DocsInv
  <2>7. /\ IsLane(m) /\ m.pc = "push" /\ m.todo = l.todo \ {f}
        /\ m.entry = l.entry /\ m.card = l.card /\ m.destroys = l.destroys
        /\ m.cardFresh = l.cardFresh
    BY <1>1, 0 \in 0..2 DEF IsLane, Pcs
  <2> HIDE DEF m
  <2>8. Carried(l, docs[d], remote) => Carried(m, docs[d], remote)
    BY <1>1, <2>1, <2>7 DEF Carried
  <2>9. LaneGood(m, docs'[d], remote, cards)
    BY <1>1, <1>2, <2>7, <2>8 DEF LaneGood, Pushing, Snapshot
  <2> QED
    BY <1>2, <1>3, <2>2, <2>6, <2>7, <2>9, LocalStep
<1>5. CASE ~Uploaded(d, f)
  <2>1. Again(d) /\ UNCHANGED dirty
    BY <1>1, <1>5 DEF PushConfirm
  <2>2. DocsInv'
    BY <1>2, <2>1, ConfirmTyped DEF TrashInv, DocsInv, CleanIsUploaded
  <2>3. PICK m : lane' = [lane EXCEPT ![d] = m] /\ IsLane(m) /\ LaneGood(m, docs[d], remote, cards)
    BY <1>1, <2>1, AgainGood
  <2> QED
    BY <1>2, <1>3, <2>2, <2>3, LocalStep
<1> QED
  BY <1>4, <1>5


\* A call of a push fails: the row is put back, with its file written or not, or its
\* snapshot is tombstoned.
LEMMA PushFailsStep ==
  ASSUME TrashInv, NEW d \in Devices, PushFails(d)
  PROVE  TrashInv'
<1>1. UNCHANGED pull /\ UNCHANGED asks /\ asks' \in 0..MaxAsks
  BY RowFacts DEF PushFails
<1>2. CASE Retry(lane, d) /\ UNCHANGED <<serverVars, docVars>>
  <2>1. PullInv'
    BY <1>1, <1>2, PullsKept DEF TrashInv, serverVars, Grows
  <2> QED
    BY <1>1, <1>2, <2>1, RowEnds DEF Retry
<1>3. CASE /\ lane[d].pc = "write" /\ Fresh(d)
           /\ ServeFile(d) /\ Retry(NoFileFresh, d) /\ UNCHANGED docVars
  <2>1. lane' = [NoFileFresh EXCEPT ![d] = NoLane]
    BY <1>3 DEF Retry, Finish
  <2> QED
    BY <1>1, <1>3, <2>1, NoLaneIs, FileStep
<1>4. CASE Rollback(d) /\ Finish(lane, d) /\ UNCHANGED serverVars
  <2>1. remote' = remote /\ Grows(remote, remote')
    BY <1>4 DEF serverVars, Grows
  <2>2. PullInv'
    BY <1>1, <2>1, PullsKept DEF TrashInv
  <2>3. CASE UNCHANGED docVars
    BY <1>1, <1>4, <2>2, <2>3, RowEnds
  <2>4. CASE /\ lane[d].destroys /\ Top(docs[d]) = lane[d].entry
             /\ \E now \in 1..MaxClock :
                  AppendRecord(d, "tombstone", Tombstone(Top(docs[d]), "purged", now))
    <3>1. lane[d].pc \in Pushing
      BY DEF PushFails, Pushing
    <3>2. Active(Top(docs[d]))
      BY <2>4, <3>1, RowFacts DEF LaneGood, Snapshot
    <3>3. DocsInv' /\ \A e \in Devices : Grows(docs[e], docs'[e])
      BY <2>1, <2>4, <3>2, TombstoneTyped, AppendGood
    <3>4. lane' = [lane EXCEPT ![d] = NoLane]
      BY <1>4 DEF Finish
    <3> QED
      BY <1>1, <1>4, <2>2, <3>3, <3>4, NoLaneIs, LocalStep
  <2> QED
    BY <1>4, <2>3, <2>4 DEF Rollback
<1> QED
  BY <1>2, <1>3, <1>4 DEF PushFails

\* The row only changes its program counter.
LEMMA GoStep ==
  ASSUME TrashInv, NEW d \in Devices, NEW pc \in Pcs \ {"stage", "write", "confirm"}, Go(d, pc),
         pc \in Pushing => lane[d].pc \in Pushing,
         pc = "destroy" => lane[d].destroys /\ lane[d].todo = {},
         UNCHANGED <<serverVars, docVars, pull, asks>>
  PROVE  TrashInv'
<1> DEFINE l == lane[d]
           m == [l EXCEPT !.pc = pc]
<1>1. lane' = [lane EXCEPT ![d] = m]
  BY DEF Go
<1>2. IsLane(l) /\ LaneGood(l, docs[d], remote, cards)
  BY RowFacts
<1>3. /\ IsLane(m) /\ m.pc = pc /\ m.todo = l.todo
      /\ m.entry = l.entry /\ m.card = l.card /\ m.destroys = l.destroys
      /\ m.cardFresh = l.cardFresh
  BY <1>2 DEF IsLane
<1> HIDE DEF m
<1>4. LaneGood(m, docs[d], remote, cards)
  BY <1>2, <1>3 DEF LaneGood, Snapshot, Carried
<1>5. UNCHANGED <<serverVars, docVars>> /\ asks' \in 0..MaxAsks /\ PullInv'
  BY RowFacts, PullsKept DEF TrashInv, serverVars, Grows
<1> QED
  BY <1>1, <1>3, <1>4, <1>5, RowGoesOn

\* A push ends.
LEMMA PushEndsStep ==
  ASSUME TrashInv, NEW d \in Devices, PushEnds(d)
  PROVE  TrashInv'
<1>1. /\ UNCHANGED <<serverVars, docVars>> /\ UNCHANGED pull /\ asks' \in 0..MaxAsks /\ UNCHANGED asks
      /\ PullInv'
  BY RowFacts, PullsKept DEF PushEnds, TrashInv, serverVars, Grows, countVars
<1>2. CASE lane[d].destroys /\ Go(d, "destroy")
  BY <1>1, <1>2, GoStep DEF PushEnds, Pushing, Pcs
<1>3. CASE Finish(lane, d)
  BY <1>1, <1>3, RowEnds
<1> QED
  BY <1>2, <1>3 DEF PushEnds

\* A delete fetches its card.
LEMMA FetchStep ==
  ASSUME TrashInv, NEW d \in Devices, Fetch(d)
  PROVE  TrashInv'
<1>1. /\ UNCHANGED <<serverVars, docVars>> /\ asks' \in 0..MaxAsks /\ PullInv'
  BY RowFacts, PullsKept DEF Fetch, TrashInv, serverVars, Grows, countVars
<1>2. CASE Finish(lane, d)
  BY <1>1, <1>2, RowEnds
<1>3. ASSUME NEW c \in cards, NEW now \in 1..MaxClock,
             lane' = [lane EXCEPT ![d] = [@ EXCEPT
               !.pc = "stage", !.card = c, !.cardFresh = TRUE,
               !.entry = IF Active(Top(docs[d])) /\ Top(docs[d]).card = c THEN Top(docs[d])
                         ELSE [status |-> "trashed", at |-> now, card |-> c]]]
      PROVE  TrashInv'
  <2> DEFINE r == IF Active(Top(docs[d])) /\ Top(docs[d]).card = c THEN Top(docs[d])
                  ELSE [status |-> "trashed", at |-> now, card |-> c]
             m == [lane[d] EXCEPT !.pc = "stage", !.card = c, !.cardFresh = TRUE, !.entry = r]
  <2>1. c \in Cards /\ now \in Nat /\ IsLane(lane[d])
    BY RowFacts, TrashAssumption
  <2>2. r \in Records /\ Active(r) /\ r.card = c
    <3>1. [status |-> "trashed", at |-> now, card |-> c] \in Records
      BY <2>1 DEF Records
    <3> QED
      BY <3>1, RowFacts, ActiveIsRecord DEF Active
  <2> HIDE DEF r
  <2>3. IsLane(m) /\ m.pc = "stage" /\ m.card = c /\ m.entry = r
    BY <2>1, <2>2 DEF IsLane, Pcs
  <2>4. lane' = [lane EXCEPT ![d] = m]
    BY <1>3 DEF r
  <2> HIDE DEF m
  <2>5. LaneGood(m, docs[d], remote, cards)
    BY <2>2, <2>3, RowFacts DEF LaneGood, Snapshot, Pushing, UniqueIds
  <2> QED
    BY <1>1, <2>3, <2>4, <2>5, RowGoesOn
<1> QED
  BY <1>2, <1>3 DEF Fetch

\* A row starts to push: with a snapshot that is carried, or with none.
LEMMA PushGood ==
  ASSUME TrashInv, NEW d \in Devices, NEW D, NEW R, NEW entry \in Records \cup {None},
         NEW files \in SUBSET Files, NEW destroys \in BOOLEAN, Push(d, entry, files, destroys),
         destroys => /\ lane[d].pc = "stage" /\ Active(entry) /\ entry \in Records
                     /\ entry.card = lane[d].card
                     /\ \/ \E f \in Files : entry \in R[f]
                        \/ \E f \in files : entry \in D[f]
  PROVE  \E l : lane' = [lane EXCEPT ![d] = l] /\ IsLane(l) /\ LaneGood(l, D, R, cards)
<1> DEFINE l == lane[d]
           m == [l EXCEPT !.pc = "push", !.entry = entry, !.todo = files,
                          !.destroys = destroys, !.tries = 0]
<1>1. lane' = [lane EXCEPT ![d] = m]
  BY DEF Push
<1>2. IsLane(l) /\ LaneGood(l, docs[d], remote, cards)
  BY RowFacts
<1>3. /\ IsLane(m) /\ m.pc = "push" /\ m.entry = entry /\ m.todo = files
      /\ m.destroys = destroys /\ m.card = l.card /\ m.cardFresh = l.cardFresh
  BY <1>2, 0 \in 0..2 DEF IsLane, Pcs
<1> HIDE DEF m, l
<1>4. destroys => Snapshot(m) /\ Carried(m, D, R)
  BY <1>3 DEF Snapshot, Carried, l
<1>5. LaneGood(m, D, R, cards)
  <2>1. CASE destroys
    <3>1. l.pc = "stage" /\ Snapshot(m) /\ Carried(m, D, R)
      BY <1>4, <2>1 DEF l
    <3>2. l.cardFresh => \A c \in cards : c.id = l.card.id => c = l.card
      BY <1>2, <3>1 DEF LaneGood
    <3>3. m.cardFresh => \A c \in cards : c.id = m.card.id => c = m.card
      BY <1>3, <3>2
    <3> QED
      BY <1>3, <2>1, <3>1, <3>3 DEF LaneGood
  <2>2. CASE ~destroys
    BY <1>3, <2>2 DEF LaneGood
  <2> QED
    BY <2>1, <2>2
<1> QED
  BY <1>1, <1>3, <1>5

\* A delete stages its snapshot.
LEMMA StageStep ==
  ASSUME TrashInv, NEW d \in Devices, Stage(d)
  PROVE  TrashInv'
<1> DEFINE top == Top(docs[d])
           new == [lane[d].entry EXCEPT !.at = IF top = None THEN @ ELSE Stamp(@, top)]
<1>1. /\ UNCHANGED serverVars /\ remote' = remote /\ cards' = cards /\ Grows(remote, remote')
      /\ asks' \in 0..MaxAsks /\ PullInv'
  BY RowFacts, PullsKept DEF Stage, TrashInv, serverVars, Grows, countVars
<1>2. /\ IsLane(lane[d]) /\ lane[d].pc = "stage" /\ Snapshot(lane[d])
      /\ top \in Records \cup {None}
  BY RowFacts DEF Stage, At, LaneGood
<1>3. CASE Finish(lane, d) /\ UNCHANGED docVars
  BY <1>1, <1>3, RowEnds
<1>4. CASE /\ top = lane[d].entry
           /\ Push(d, top, Holders(d, top), TRUE)
           /\ listed' = [listed EXCEPT ![d] = top]
           /\ UNCHANGED <<docs, dirty, known>>
  <2>1. DocsInv' /\ \A e \in Devices : Grows(docs[e], docs'[e])
    BY <1>1, <1>2, <1>4, DocsKept DEF TrashInv, DocsInv
  <2>2. PICK f \in Files : top \in docs[d][f]
    BY <1>2, <1>4, RowFacts, ActiveIsRecord DEF Snapshot
  <2>3. top \in remote[f] \/ f \in Holders(d, top)
    BY <2>2 DEF Holders, TrashInv, DocsInv, CleanIsUploaded
  <2>4. Holders(d, top) \in SUBSET Files
    BY RowFacts DEF Holders
  <2>5. PICK l : lane' = [lane EXCEPT ![d] = l] /\ IsLane(l) /\ LaneGood(l, docs[d], remote, cards)
    <3> HIDE DEF top
    <3>1. top \in Records /\ Active(top) /\ top.card = lane[d].card
      BY <1>2, <1>4 DEF Snapshot
    <3>2. \/ \E g \in Files : top \in remote[g]
          \/ \E g \in Holders(d, top) : top \in docs[d][g]
      BY <2>2, <2>3
    <3> QED
      BY <1>2, <1>4, <2>4, <3>1, <3>2, PushGood
  <2> QED
    BY <1>1, <1>4, <2>1, <2>5, LocalStep
<1>5. CASE /\ AppendRecord(d, "snapshot", new)
           /\ Push(d, new, {<<d, "snapshot">>}, TRUE)
  <2>1. new \in Records /\ Active(new) /\ new.card = lane[d].card
    <3>1. lane[d].entry \in Records /\ lane[d].entry.at \in Nat \ {0}
      BY <1>2 DEF Snapshot, Records
    <3> DEFINE at == IF top = None THEN lane[d].entry.at ELSE Stamp(lane[d].entry.at, top)
    <3>2. at \in Nat \ {0}
      BY <1>2, <3>1 DEF Stamp, Records
    <3> HIDE DEF at
    <3>3. new = [lane[d].entry EXCEPT !.at = at]
      BY DEF at
    <3> HIDE DEF new
    <3> QED
      BY <1>2, <3>1, <3>2, <3>3 DEF Snapshot, Records, Active
  <2> HIDE DEF new
  <2>2. /\ DocsInv' /\ (\A e \in Devices : Grows(docs[e], docs'[e]))
        /\ new \in docs'[d][<<d, "snapshot">>]
    BY <1>1, <1>5, <2>1, AppendGood
  <2>3. {<<d, "snapshot">>} \in SUBSET Files
    BY DEF Files
  <2>4. PICK l : lane' = [lane EXCEPT ![d] = l] /\ IsLane(l) /\ LaneGood(l, docs'[d], remote, cards)
    BY <1>2, <1>5, <2>1, <2>2, <2>3, PushGood
  <2> QED
    BY <1>1, <2>2, <2>4, LocalStep
<1> QED
  BY <1>3, <1>4, <1>5 DEF Stage

\* The server destroys the card of a row.
LEMMA FewerCards ==
  ASSUME TrashInv, NEW d \in Devices, ServeDestroy(d), Finish(NoCardFresh, d),
         UNCHANGED <<docVars, pull, asks>>
  PROVE  TrashInv'
<1>1. cards' \subseteq cards /\ remote' = remote
  BY DEF ServeDestroy
<1>2. cards' \subseteq Cards /\ UniqueIds(cards')
  BY <1>1, RowFacts DEF UniqueIds
<1>3. lane' = [NoCardFresh EXCEPT ![d] = NoLane]
  BY DEF Finish
<1> QED
  BY <1>1, <1>2, <1>3, NoLaneIs, CardStep

\* A destroy succeeds, meets a card that changed, or fails.
LEMMA DestroyStep ==
  ASSUME TrashInv, NEW d \in Devices, Destroy(d) \/ DestroyFails(d)
  PROVE  TrashInv'
<1>1. UNCHANGED <<docVars, pull, asks>>
  BY DEF Destroy, DestroyFails, countVars
<1>2. UNCHANGED serverVars => UNCHANGED <<serverVars, docVars>> /\ asks' \in 0..MaxAsks /\ PullInv'
  BY <1>1, RowFacts, PullsKept DEF TrashInv, serverVars, Grows
<1>3. CASE ServeDestroy(d) /\ Finish(NoCardFresh, d)
  BY <1>1, <1>3, FewerCards
<1>4. CASE UNCHANGED serverVars /\ Finish(lane, d)
  BY <1>2, <1>4, RowEnds
<1>5. CASE UNCHANGED serverVars /\ lane[d].pc = "destroy" /\ Go(d, "mark")
  BY <1>1, <1>5, GoStep DEF Pcs, Pushing
<1>6. CASE /\ lane' = [lane EXCEPT ![d] = [NoLane EXCEPT !.kind = "delete", !.pc = "start",
                                                         !.rounds = lane[d].rounds + 1]]
           /\ lane[d].rounds < 2 /\ UNCHANGED serverVars
  <2> DEFINE n == lane[d].rounds + 1
             m == [NoLane EXCEPT !.kind = "delete", !.pc = "start", !.rounds = n]
  <2>1. n \in 0..2
    BY <1>6, RowFacts DEF IsLane
  <2> HIDE DEF n
  <2>2. IsLane(m) /\ m.pc = "start" /\ m.destroys = FALSE
    BY <2>1, NoLaneIs DEF IsLane, NoLane, Pcs
  <2>3. lane' = [lane EXCEPT ![d] = m]
    BY <1>6 DEF n
  <2> HIDE DEF m
  <2>4. LaneGood(m, docs[d], remote, cards)
    BY <2>2 DEF LaneGood
  <2> QED
    BY <1>2, <1>6, <2>2, <2>3, <2>4, RowGoesOn
<1> QED
  BY <1>3, <1>4, <1>5, <1>6 DEF Destroy, DestroyFails, Retry

\* A restore that starts or goes on with a card of its own.
LEMMA CardOfRow ==
  ASSUME TrashInv, NEW d \in Devices, NEW c \in Cards, NEW pc \in {"create", "reconcile"},
         NEW C
  PROVE  LET l == [lane[d] EXCEPT !.pc = pc, !.card = c] IN
         IsLane(l) /\ LaneGood(l, docs[d], remote, C)
<1> DEFINE l == [lane[d] EXCEPT !.pc = pc, !.card = c]
<1>1. IsLane(l) /\ l.pc = pc
  BY RowFacts DEF IsLane, Pcs
<1> QED
  BY <1>1 DEF LaneGood, Pushing

\* A restore looks for the card.
LEMMA LookupStep ==
  ASSUME TrashInv, NEW d \in Devices, Lookup(d)
  PROVE  TrashInv'
<1>1. /\ UNCHANGED <<serverVars, docVars, pull, asks>> /\ UNCHANGED <<serverVars, docVars>>
      /\ asks' \in 0..MaxAsks /\ PullInv'
  BY RowFacts, PullsKept DEF Lookup, TrashInv, serverVars, Grows, countVars
<1>2. CASE Go(d, "mark")
  BY <1>1, <1>2, GoStep DEF Pcs, Pushing
<1>3. CASE Finish(lane, d)
  BY <1>1, <1>3, RowEnds
<1>4. ASSUME NEW c \in Cards, NEW pc \in {"create", "reconcile"},
             lane' = [lane EXCEPT ![d] = [lane[d] EXCEPT !.pc = pc, !.card = c]]
      PROVE  TrashInv'
  BY <1>1, <1>4, CardOfRow, RowGoesOn
<1>5. Active(listed[d]) => listed[d].card \in Cards
  <2>1. listed[d] \in Records \cup {None}
    BY DEF TrashInv, DocsInv
  <2> QED
    BY <2>1 DEF Active, None, Records
<1>6. Cardinality(cards) = 1 => (CHOOSE c \in cards : TRUE) \in Cards
  <2>1. Cardinality(cards) = 1 => cards # {}
    BY FS_EmptySet
  <2> QED
    BY <2>1, RowFacts
<1>7. CASE /\ Active(listed[d])
           /\ lane' = [lane EXCEPT ![d] = [lane[d] EXCEPT !.pc = "create", !.card = listed[d].card]]
  BY <1>4, <1>5, <1>7
<1>8. CASE /\ Cardinality(cards) = 1
           /\ lane' = [lane EXCEPT ![d] = [lane[d] EXCEPT !.pc = "reconcile",
                                                          !.card = CHOOSE c \in cards : TRUE]]
  BY <1>4, <1>6, <1>8
<1> QED
  BY <1>2, <1>3, <1>7, <1>8 DEF Lookup

\* The card the server makes is new.
LEMMA CreatedIsNew ==
  ASSUME TrashInv, NEW d \in Devices, NewIds # {}
  PROVE  /\ Created(d) \in Cards /\ cards \cup {Created(d)} \subseteq Cards
         /\ UniqueIds(cards \cup {Created(d)})
<1> DEFINE i == CHOOSE j \in NewIds : TRUE
<1>1. i \in NewIds
  OBVIOUS
<1>2. i \in Ids /\ \A c \in cards : c.id # i
  BY <1>1 DEF NewIds
<1>3. lane[d].card \in Cards /\ cards \subseteq Cards /\ UniqueIds(cards)
  BY RowFacts DEF IsLane
<1> HIDE DEF i
<1>4. Created(d) = [lane[d].card EXCEPT !.id = i]
  BY DEF Created, i
<1>5. Created(d) \in Cards /\ Created(d).id = i
  BY <1>2, <1>3, <1>4 DEF Cards
<1> QED
  BY <1>2, <1>3, <1>5 DEF UniqueIds

\* A restore creates the card, or fails to.
LEMMA CreateStep ==
  ASSUME TrashInv, NEW d \in Devices, Create(d) \/ CreateFails(d)
  PROVE  TrashInv'
<1>1. UNCHANGED <<docVars, pull, asks>> /\ UNCHANGED docVars
  BY DEF Create, CreateFails, countVars
<1>2. CASE UNCHANGED serverVars /\ Finish(lane, d)
  <2>1. PullInv' /\ asks' \in 0..MaxAsks
    BY <1>1, <1>2, RowFacts, PullsKept DEF TrashInv, serverVars, Grows
  <2> QED
    BY <1>1, <1>2, <2>1, RowEnds
<1>3. CASE ServeCreate(d) /\ (Finish(NoCardFresh, d) \/ Create(d))
  <2>1. /\ cards' = cards \cup {Created(d)} /\ remote' = remote /\ Created(d) \in Cards
        /\ cards' \subseteq Cards /\ UniqueIds(cards')
    BY <1>3, CreatedIsNew DEF ServeCreate
  <2>2. CASE Finish(NoCardFresh, d)
    <3>1. lane' = [NoCardFresh EXCEPT ![d] = NoLane]
      BY <2>2 DEF Finish
    <3> QED
      BY <1>1, <2>1, <3>1, NoLaneIs, CardStep
  <2>3. CASE Create(d)
    <3> DEFINE n == [lane[d] EXCEPT !.cardFresh = FALSE]
               m == [n EXCEPT !.pc = "reconcile", !.card = Created(d)]
    <3>1. lane' = [NoCardFresh EXCEPT ![d] = m]
      BY <2>3 DEF Create, NoCardFresh
    <3>2. IsLane(m) /\ m.pc = "reconcile"
      BY <2>1, RowFacts DEF IsLane, Pcs
    <3> HIDE DEF m
    <3>3. LaneGood(m, docs[d], remote, cards')
      BY <3>2 DEF LaneGood, Pushing
    <3> QED
      BY <1>1, <2>1, <3>1, <3>2, <3>3, CardStep
  <2> QED
    BY <1>3, <2>2, <2>3
<1> QED
  <2>1. CASE Create(d)
    BY <1>3, <2>1 DEF Create
  <2>2. CASE CreateFails(d)
    BY <1>2, <1>3, <2>2 DEF CreateFails, Retry
  <2> QED
    BY <2>1, <2>2

\* The card is read back.
LEMMA ReconcileStep ==
  ASSUME TrashInv, NEW d \in Devices, Reconcile(d)
  PROVE  TrashInv'
<1>1. /\ UNCHANGED <<serverVars, docVars, pull, asks>> /\ UNCHANGED <<serverVars, docVars>>
      /\ asks' \in 0..MaxAsks /\ PullInv'
  BY RowFacts, PullsKept DEF Reconcile, TrashInv, serverVars, Grows, countVars
<1>2. CASE Go(d, "mark")
  BY <1>1, <1>2, GoStep DEF Pcs, Pushing
<1>3. CASE Finish(lane, d)
  BY <1>1, <1>3, RowEnds
<1> QED
  BY <1>2, <1>3 DEF Reconcile, Retry

\* A status is set.
LEMMA SetStatusStep ==
  ASSUME TrashInv, NEW d \in Devices, SetStatus(d)
  PROVE  TrashInv'
<1> DEFINE top == Top(docs[d])
           status == IF lane[d].kind = "restore" THEN "restored" ELSE "purged"
<1>1. /\ UNCHANGED serverVars /\ remote' = remote /\ cards' = cards /\ Grows(remote, remote')
      /\ asks' \in 0..MaxAsks /\ PullInv'
  BY RowFacts, PullsKept DEF SetStatus, TrashInv, serverVars, Grows, countVars
<1>2. CASE Active(top)
  <2>1. PICK now \in 1..MaxClock : AppendRecord(d, "tombstone", Tombstone(top, status, now))
    BY <1>2 DEF SetStatus
  <2>2. Push(d, None, {<<d, "tombstone">>}, FALSE)
    BY <1>2 DEF SetStatus
  <2>3. DocsInv' /\ \A e \in Devices : Grows(docs[e], docs'[e])
    BY <1>1, <1>2, <2>1, TombstoneTyped, AppendGood
  <2>4. {<<d, "tombstone">>} \in SUBSET Files
    BY DEF Files
  <2>5. PICK l : lane' = [lane EXCEPT ![d] = l] /\ IsLane(l) /\ LaneGood(l, docs'[d], remote, cards)
    BY <2>2, <2>4, PushGood
  <2> QED
    BY <1>1, <2>3, <2>5, LocalStep
<1>3. CASE ~Active(top)
  <2>1. /\ listed' = [listed EXCEPT ![d] = top] /\ Finish(lane, d)
        /\ UNCHANGED <<docs, dirty, known>>
    BY <1>3 DEF SetStatus
  <2>2. DocsInv' /\ \A e \in Devices : Grows(docs[e], docs'[e])
    BY <1>1, <2>1, RowFacts, DocsKept DEF TrashInv, DocsInv
  <2> QED
    BY <1>1, <2>1, <2>2, NoLaneIs, LocalStep DEF Finish
<1> QED
  BY <1>2, <1>3

\* A push row starts.
LEMMA PushAllStep ==
  ASSUME TrashInv, NEW d \in Devices, PushAll(d)
  PROVE  TrashInv'
<1>1. /\ UNCHANGED <<serverVars, docVars>> /\ asks' \in 0..MaxAsks /\ PullInv'
  BY RowFacts, PullsKept DEF PushAll, TrashInv, serverVars, Grows, countVars
<1>2. PICK l : lane' = [lane EXCEPT ![d] = l] /\ IsLane(l) /\ LaneGood(l, docs[d], remote, cards)
  BY RowFacts, PushGood DEF PushAll
<1> QED
  BY <1>1, <1>2, RowGoesOn

\* A card is edited by another client.
LEMMA EditStep ==
  ASSUME TrashInv, Edit
  PROVE  TrashInv'
<1>1. /\ remote' = remote /\ UNCHANGED docVars /\ UNCHANGED pull /\ Grows(remote, remote')
      /\ asks' \in 0..MaxAsks /\ lane' = NoCardFresh
  BY TrashAssumption DEF Edit, Grows, TrashInv, ServerInv
<1>2. DocsInv' /\ \A e \in Devices : Grows(docs[e], docs'[e])
  BY <1>1, SameDocs
<1>3. PullInv'
  BY <1>1, PullsKept DEF TrashInv
<1>4. LaneInv'
  BY <1>1, <1>2, LanesKept DEF NoCardFresh
<1>5. PICK c \in cards : cards' = (cards \ {c}) \cup {[c EXCEPT !.ver = asks']}
  BY DEF Edit
<1> DEFINE e == [c EXCEPT !.ver = asks']
<1>6. cards \subseteq Cards /\ UniqueIds(cards)
  BY DEF TrashInv, ServerInv
<1>7. e \in Cards /\ e.id = c.id
  BY <1>1, <1>6 DEF Cards
<1> HIDE DEF e
<1>8. UniqueIds(cards') /\ cards' \subseteq Cards
  BY <1>5, <1>6, <1>7 DEF UniqueIds, e
<1> QED
  BY <1>1, <1>2, <1>3, <1>4, <1>8 DEF TrashInv, ServerInv

\* Nothing changes that the invariant is about.
LEMMA TrashStutter == TrashInv /\ UNCHANGED vars => TrashInv'
<1> SUFFICES ASSUME TrashInv, UNCHANGED vars PROVE TrashInv'
  OBVIOUS
<1>1. UNCHANGED <<serverVars, lane, docVars, pull, asks>> /\ UNCHANGED docVars
      /\ UNCHANGED <<serverVars, lane>>
  BY DEF vars, countVars
<1>2. Grows(remote, remote') /\ asks' \in 0..MaxAsks
  BY <1>1 DEF serverVars, Grows, TrashInv, ServerInv
<1>3. PullInv' /\ DocsInv' /\ \A e \in Devices : Grows(docs[e], docs'[e])
  BY <1>1, <1>2, PullsKept, SameDocs DEF TrashInv
<1> QED
  BY <1>1, <1>2, <1>3, QuietStep

(***************************************************************************)
(* The rows: their queues and the lanes they run in.                       *)
(***************************************************************************)
AnyKind == Kinds \cup {"none"}

LanePc(l, t) ==
  /\ l.kind \in AnyKind
  /\ l.kind = "push" => l.pc \in {"start", "push", "write", "confirm"}
  /\ l.kind = "delete" => l.pc \notin {"create", "reconcile"}
  /\ l.pc = "create" => l.kind = "restore"
  /\ l.pc = "stage" => l.kind = "delete" /\ l.card.id = t
  /\ l.destroys /\ l.pc \in Pushing => l.kind = "delete"

RowInv ==
  /\ rows \in [Devices -> Seq(AnyKind)] /\ target \in [Devices -> Ids]
  /\ ready \in [Devices -> BOOLEAN]
  /\ \A d \in Devices : LanePc(lane[d], target[d])

\* A row is taken out of a queue, and the others stay.
LEMMA DropKeeps ==
  ASSUME NEW S, NEW s \in Seq(S), NEW k
  PROVE  /\ Drop(s, k) \in Seq(S)
         /\ \A x \in Range(s) : x # k => x \in Range(Drop(s, k))
<1>1. CASE k \notin Range(s)
  BY <1>1 DEF Drop
<1>2. CASE k \in Range(s)
  <2> DEFINE i == CHOOSE j \in DOMAIN s : s[j] = k
             a == SubSeq(s, 1, i - 1)
             b == SubSeq(s, i + 1, Len(s))
  <2>1. i \in 1..Len(s) /\ s[i] = k
    BY <1>2 DEF Range
  <2>2. Drop(s, k) = a \o b
    BY <1>2 DEF Drop
  <2> HIDE DEF i
  <2>3. /\ a \in Seq(S) /\ Len(a) = i - 1 /\ \A j \in 1..i - 1 : a[j] = s[j]
        /\ b \in Seq(S) /\ Len(b) = Len(s) - i
        /\ \A j \in 1..Len(s) - i : b[j] = s[i + j]
    BY <2>1
  <2> HIDE DEF a, b
  <2>4. ASSUME NEW x \in Range(s), x # k PROVE x \in Range(a \o b)
    <3>1. PICK j \in 1..Len(s) : x = s[j]
      BY DEF Range
    <3>2. DOMAIN (a \o b) = 1..Len(s) - 1
      BY <2>1, <2>3
    <3>3. CASE j < i
      <4>1. j \in 1..Len(s) - 1 /\ (a \o b)[j] = x
        BY <2>1, <2>3, <3>1, <3>3
      <4> QED
        BY <3>2, <4>1 DEF Range
    <3>4. CASE j > i
      <4>1. j - 1 \in 1..Len(s) - 1 /\ (a \o b)[j - 1] = b[j - i] /\ b[j - i] = x
        BY <2>1, <2>3, <3>1, <3>4
      <4> QED
        BY <3>2, <4>1 DEF Range
    <3> QED
      BY <2>1, <2>4, <3>1, <3>3, <3>4
  <2> QED
    BY <2>2, <2>3, <2>4
<1> QED
  BY <1>1, <1>2

\* A row is queued behind the others.
LEMMA AppendKeeps ==
  ASSUME NEW S, NEW s \in Seq(S), NEW k \in S
  PROVE  Append(s, k) \in Seq(S) /\ Range(Append(s, k)) = Range(s) \cup {k}
<1>1. /\ Append(s, k) \in Seq(S) /\ DOMAIN Append(s, k) = 1..Len(s) + 1
      /\ \A i \in 1..Len(s) : Append(s, k)[i] = s[i]
      /\ Append(s, k)[Len(s) + 1] = k /\ DOMAIN s = 1..Len(s)
      /\ Len(s) \in Nat
  OBVIOUS
<1>2. 1..Len(s) + 1 = 1..Len(s) \cup {Len(s) + 1}
  BY <1>1
<1> QED
  BY <1>1, <1>2 DEF Range

\* A push is queued behind the others.
LEMMA WithPushKeeps ==
  ASSUME NEW S, NEW s \in Seq(S), "push" \in S
  PROVE  /\ WithPush(s) \in Seq(S)
         /\ Range(WithPush(s)) = Range(s) \cup {"push"}
BY AppendKeeps DEF WithPush

\* A row is put back ahead of the others.
LEMMA PutBackKeeps ==
  ASSUME NEW S, NEW s \in Seq(S), NEW k \in S
  PROVE  /\ <<k>> \o Drop(s, k) \in Seq(S)
         /\ Range(s) \cup {k} \subseteq Range(<<k>> \o Drop(s, k))
<1> DEFINE t == Drop(s, k)
           u == <<k>> \o t
<1>1. t \in Seq(S) /\ \A x \in Range(s) : x # k => x \in Range(t)
  BY DropKeeps
<1> HIDE DEF t
<1>2. /\ u \in Seq(S) /\ DOMAIN u = 1..Len(t) + 1 /\ u[1] = k
      /\ \A i \in 1..Len(t) : u[i + 1] = t[i]
      /\ DOMAIN t = 1..Len(t) /\ Len(t) \in Nat
  BY <1>1
<1>3. \A i \in 1..Len(t) : i + 1 \in 1..Len(t) + 1
  BY <1>2
<1>4. k \in Range(u)
  <2>1. 1 \in DOMAIN u
    BY <1>2
  <2> QED
    BY <1>2, <2>1 DEF Range
<1>5. ASSUME NEW x \in Range(t) PROVE x \in Range(u)
  <2>1. PICK i \in 1..Len(t) : x = t[i]
    BY <1>2 DEF Range
  <2> HIDE DEF u
  <2> QED
    BY <1>2, <1>3, <2>1 DEF Range
<1> QED
  BY <1>1, <1>2, <1>4, <1>5 DEF t

\* A lane that is what it was but for what it counts on.
Alike(l, m) ==
  /\ m.kind = l.kind /\ m.pc = l.pc /\ m.card = l.card /\ m.entry = l.entry
  /\ m.todo = l.todo /\ m.sent = l.sent /\ m.destroys = l.destroys

\* A step at d leaves e what it was.
Apart(e) ==
  /\ Alike(lane[e], lane'[e])
  /\ rows'[e] = rows[e] /\ target'[e] = target[e] /\ ready'[e] = ready[e]
  /\ docs'[e] = docs[e] /\ dirty'[e] = dirty[e] /\ pull'[e] = pull[e]

\* The lanes of the others when the lane of d is set.
LEMMA LaneSet ==
  ASSUME TrashInv, NEW d \in Devices, NEW l,
         \/ lane' = [lane EXCEPT ![d] = l]
         \/ lane' = [NoFileFresh EXCEPT ![d] = l]
         \/ lane' = [NoCardFresh EXCEPT ![d] = l]
  PROVE  lane'[d] = l /\ \A e \in Devices \ {d} : Alike(lane[e], lane'[e])
<1>1. lane = [e \in Devices |-> lane[e]] /\ \A e \in Devices : IsLane(lane[e])
  BY DEF TrashInv, LaneInv
<1>2. lane'[d] = l
  BY <1>1 DEF NoFileFresh, NoCardFresh
<1>3. ASSUME NEW e \in Devices \ {d} PROVE Alike(lane[e], lane'[e])
  <2>1. \/ lane'[e] = lane[e]
        \/ lane'[e] = [lane[e] EXCEPT !.fileFresh = FALSE]
        \/ lane'[e] = [lane[e] EXCEPT !.cardFresh = FALSE]
    BY <1>1 DEF NoFileFresh, NoCardFresh
  <2>2. IsLane(lane[e])
    BY <1>1
  <2> QED
    BY <2>1, <2>2 DEF Alike, IsLane
<1> QED
  BY <1>2, <1>3

\* The same where the lanes are set in other words.
LEMMA LaneForms ==
  ASSUME TrashInv, NEW d \in Devices
  PROVE  /\ UNCHANGED lane => lane' = [lane EXCEPT ![d] = lane[d]]
         /\ Passed(d) => lane' = [lane EXCEPT ![d] =
              IF lane[d].pc = "gate" THEN [lane[d] EXCEPT !.pc = "start"] ELSE lane[d]]
         /\ \A pc : Go(d, pc) => lane' = [lane EXCEPT ![d] = [lane[d] EXCEPT !.pc = pc]]
         /\ Finish(lane, d) \/ Retry(lane, d) => lane' = [lane EXCEPT ![d] = NoLane]
         /\ Finish(NoFileFresh, d) \/ Retry(NoFileFresh, d)
              => lane' = [NoFileFresh EXCEPT ![d] = NoLane]
         /\ Finish(NoCardFresh, d) \/ Retry(NoCardFresh, d)
              => lane' = [NoCardFresh EXCEPT ![d] = NoLane]
         /\ Again(d) => lane' = [lane EXCEPT ![d] =
              IF lane[d].tries < 2
              THEN [lane[d] EXCEPT !.pc = "push", !.tries = lane[d].tries + 1] ELSE NoLane]
         /\ \A entry, files, destroys : Push(d, entry, files, destroys) =>
              lane' = [lane EXCEPT ![d] = [lane[d] EXCEPT !.pc = "push", !.entry = entry,
                         !.todo = files, !.destroys = destroys, !.tries = 0]]
<1>1. lane = [e \in Devices |-> lane[e]] /\ lane = [lane EXCEPT ![d] = lane[d]]
  BY DEF TrashInv, LaneInv
<1> QED
  BY <1>1 DEF Passed, Go, Finish, Retry, Again, Push

\* The queues of all when the queue of d is set.
LEMMA RowsSet ==
  ASSUME RowInv, NEW d \in Devices,
         UNCHANGED <<rows, target>> \/ EnsurePush(d) \/ Retry(lane, d)
         \/ Retry(NoFileFresh, d) \/ Retry(NoCardFresh, d)
  PROVE  /\ UNCHANGED target
         /\ rows' \in [Devices -> Seq(AnyKind)]
         /\ \A e \in Devices \ {d} : rows'[e] = rows[e]
         /\ Range(rows[d]) \subseteq Range(rows'[d])
         /\ EnsurePush(d) => "push" \in Range(rows'[d])
         /\ Retry(lane, d) \/ Retry(NoFileFresh, d) \/ Retry(NoCardFresh, d)
              => lane[d].kind \in Range(rows'[d])
<1>1. rows \in [Devices -> Seq(AnyKind)] /\ lane[d].kind \in AnyKind
  BY DEF RowInv, LanePc
<1>2. CASE UNCHANGED <<rows, target>> /\ ~EnsurePush(d) /\ ~Retry(lane, d)
           /\ ~Retry(NoFileFresh, d) /\ ~Retry(NoCardFresh, d)
  BY <1>1, <1>2
<1>3. CASE EnsurePush(d)
  <2>1. rows' = [rows EXCEPT ![d] = WithPush(rows[d])] /\ UNCHANGED target
    BY <1>3 DEF EnsurePush
  <2>2. WithPush(rows[d]) \in Seq(AnyKind) /\ Range(WithPush(rows[d])) = Range(rows[d]) \cup {"push"}
    BY <1>1, WithPushKeeps DEF AnyKind, Kinds
  <2>3. rows'[d] = WithPush(rows[d]) /\ rows' \in [Devices -> Seq(AnyKind)]
        /\ \A e \in Devices \ {d} : rows'[e] = rows[e]
    BY <1>1, <2>1, <2>2
  <2>4. Retry(lane, d) \/ Retry(NoFileFresh, d) \/ Retry(NoCardFresh, d)
              => lane[d].kind \in Range(rows'[d])
    <3>1. Retry(lane, d) \/ Retry(NoFileFresh, d) \/ Retry(NoCardFresh, d) => PutBack(d)
      BY DEF Retry
    <3>2. PutBack(d) => rows'[d] = <<lane[d].kind>> \o Drop(rows[d], lane[d].kind)
      BY <1>1 DEF PutBack
    <3> QED
      BY <1>1, <3>1, <3>2, PutBackKeeps
  <2> QED
    BY <2>1, <2>2, <2>3, <2>4
<1>4. CASE (Retry(lane, d) \/ Retry(NoFileFresh, d) \/ Retry(NoCardFresh, d)) /\ ~EnsurePush(d)
  <2> DEFINE q == <<lane[d].kind>> \o Drop(rows[d], lane[d].kind)
  <2>1. rows' = [rows EXCEPT ![d] = q] /\ UNCHANGED target
    BY <1>4 DEF Retry, PutBack
  <2>2. q \in Seq(AnyKind) /\ Range(rows[d]) \cup {lane[d].kind} \subseteq Range(q)
    BY <1>1, PutBackKeeps
  <2> HIDE DEF q
  <2>3. rows'[d] = q /\ rows' \in [Devices -> Seq(AnyKind)]
        /\ \A e \in Devices \ {d} : rows'[e] = rows[e]
    BY <1>1, <2>1, <2>2
  <2> QED
    BY <1>4, <2>1, <2>2, <2>3
<1> QED
  BY <1>2, <1>3, <1>4

\* What a step at d does to the files, refreshes and readiness of others.
LEMMA FilesSet ==
  ASSUME TrashInv, NEW d \in Devices,
         \/ UNCHANGED <<docs, dirty>>
         \/ UNCHANGED docs /\ \E files : dirty' = [dirty EXCEPT ![d] = files]
         \/ \E f, seen : MergeFile(d, f, seen)
         \/ \E kind, r : AppendRecord(d, kind, r)
  PROVE  \A e \in Devices \ {d} : docs'[e] = docs[e] /\ dirty'[e] = dirty[e]
<1>1. docs \in [Devices -> FilesType] /\ dirty \in [Devices -> SUBSET Files]
  BY DEF TrashInv, DocsInv
<1> QED
  BY <1>1 DEF MergeFile, AppendRecord

\* The refreshes and the readiness of the others when d's are set.
LEMMA PullSet ==
  ASSUME TrashInv, RowInv, NEW d \in Devices
  PROVE  /\ UNCHANGED pull \/ Discover(d) \/ Refresh(d) \/ (\E p : pull' = [pull EXCEPT ![d] = p])
              => \A e \in Devices \ {d} : pull'[e] = pull[e]
         /\ Discover(d) => pull'[d].pc = "reading"
         /\ Refresh(d) => pull'[d].pc = "reading" \/ (pull[d].pc # "idle" /\ UNCHANGED pull)
         /\ \A p : pull' = [pull EXCEPT ![d] = p] => pull'[d] = p
         /\ UNCHANGED ready \/ (\E b \in BOOLEAN : ready' = [ready EXCEPT ![d] = b])
              => /\ ready' \in [Devices -> BOOLEAN]
                 /\ \A e \in Devices \ {d} : ready'[e] = ready[e]
         /\ \A b \in BOOLEAN : ready' = [ready EXCEPT ![d] = b] => ready'[d] = b
<1>1. pull = [e \in Devices |-> pull[e]] /\ ready \in [Devices -> BOOLEAN]
  BY DEF TrashInv, PullInv, RowInv
<1>2. ASSUME Discover(d) PROVE pull'[d].pc = "reading" /\ \A e \in Devices \ {d} : pull'[e] = pull[e]
  <2> DEFINE p == [pc |-> "reading", found |-> Restrict(remote,
                 {f \in Files : remote[f] # {} /\ (f \in dirty[d] \/ known[d][f] # remote[f])})]
  <2>1. pull' = [pull EXCEPT ![d] = p]
    BY <1>2 DEF Discover
  <2>2. p.pc = "reading"
    OBVIOUS
  <2> HIDE DEF p
  <2> QED
    BY <1>1, <2>1, <2>2
<1> HIDE DEF Discover
<1> QED
  BY <1>1, <1>2 DEF Refresh

\* A step at d that leaves the others what they were.
LEMMA OneDevice ==
  ASSUME TrashInv, RowInv, NEW d \in Devices,
         \A e \in Devices \ {d} : Apart(e),
         rows' \in [Devices -> Seq(AnyKind)], target' \in [Devices -> Ids],
         ready' \in [Devices -> BOOLEAN], LanePc(lane'[d], target'[d])
  PROVE  RowInv' /\ \A e \in Devices \ {d} : Apart(e)
<1>1. ASSUME NEW e \in Devices \ {d} PROVE LanePc(lane'[e], target'[e])
  <2>1. LanePc(lane[e], target[e])
    BY DEF RowInv
  <2>2. /\ lane'[e].kind = lane[e].kind /\ lane'[e].pc = lane[e].pc
        /\ lane'[e].card = lane[e].card /\ lane'[e].destroys = lane[e].destroys
        /\ target'[e] = target[e]
    BY DEF Apart, Alike
  <2> QED
    BY <2>1, <2>2 DEF LanePc
<1> QED
  BY <1>1 DEF RowInv

\* The program counters a lane may take.
LEMMA PcFacts ==
  ASSUME TrashInv, RowInv, NEW d \in Devices
  PROVE  /\ IsLane(lane[d]) /\ LanePc(lane[d], target[d]) /\ \A t : LanePc(NoLane, t)
         /\ rows \in [Devices -> Seq(AnyKind)] /\ target \in [Devices -> Ids]
         /\ ready \in [Devices -> BOOLEAN]
         /\ pull = [e \in Devices |-> pull[e]] /\ lane = [e \in Devices |-> lane[e]]
<1>1. IsLane(lane[d])
  BY RowFacts
<1>2. /\ LanePc(lane[d], target[d]) /\ rows \in [Devices -> Seq(AnyKind)]
      /\ target \in [Devices -> Ids] /\ ready \in [Devices -> BOOLEAN]
  BY DEF RowInv
<1>3. \A t : LanePc(NoLane, t)
  BY DEF LanePc, NoLane, AnyKind, Kinds, Pushing
<1>4. pull = [e \in Devices |-> pull[e]] /\ lane = [e \in Devices |-> lane[e]]
  BY DEF TrashInv, LaneInv, PullInv
<1> QED
  BY <1>1, <1>2, <1>3, <1>4

\* A step at d that sets its lane to l and, perhaps, its queue, files or refresh.
LEMMA PlainStep ==
  ASSUME TrashInv, RowInv, NEW d \in Devices, NEW l,
         \/ lane' = [lane EXCEPT ![d] = l]
         \/ lane' = [NoFileFresh EXCEPT ![d] = l]
         \/ lane' = [NoCardFresh EXCEPT ![d] = l],
         LanePc(l, target[d]),
         UNCHANGED <<rows, target>> \/ EnsurePush(d) \/ Retry(lane, d)
           \/ Retry(NoFileFresh, d) \/ Retry(NoCardFresh, d),
         \/ UNCHANGED <<docs, dirty>>
         \/ UNCHANGED docs /\ \E files : dirty' = [dirty EXCEPT ![d] = files]
         \/ \E f, seen : MergeFile(d, f, seen)
         \/ \E kind, r : AppendRecord(d, kind, r),
         UNCHANGED pull \/ Discover(d) \/ Refresh(d) \/ (\E p : pull' = [pull EXCEPT ![d] = p]),
         UNCHANGED ready \/ (\E b \in BOOLEAN : ready' = [ready EXCEPT ![d] = b])
  PROVE  /\ RowInv' /\ \A e \in Devices \ {d} : Apart(e)
         /\ lane'[d] = l /\ Range(rows[d]) \subseteq Range(rows'[d]) /\ UNCHANGED target
         /\ EnsurePush(d) => "push" \in Range(rows'[d])
         /\ Retry(lane, d) \/ Retry(NoFileFresh, d) \/ Retry(NoCardFresh, d)
              => lane[d].kind \in Range(rows'[d])
<1> HIDE DEF EnsurePush, Retry, MergeFile, AppendRecord, Discover, Refresh, NoFileFresh,
             NoCardFresh, TrashInv, RowInv
<1>1. lane'[d] = l /\ \A e \in Devices \ {d} : Alike(lane[e], lane'[e])
  BY LaneSet
<1>2. /\ UNCHANGED target /\ rows' \in [Devices -> Seq(AnyKind)]
      /\ \A e \in Devices \ {d} : rows'[e] = rows[e]
      /\ Range(rows[d]) \subseteq Range(rows'[d])
      /\ EnsurePush(d) => "push" \in Range(rows'[d])
      /\ Retry(lane, d) \/ Retry(NoFileFresh, d) \/ Retry(NoCardFresh, d)
              => lane[d].kind \in Range(rows'[d])
  BY RowsSet
<1>3. \A e \in Devices \ {d} : docs'[e] = docs[e] /\ dirty'[e] = dirty[e]
  BY FilesSet
<1>4. /\ \A e \in Devices \ {d} : pull'[e] = pull[e] /\ ready'[e] = ready[e]
      /\ ready' \in [Devices -> BOOLEAN]
  BY PullSet
<1>5. target' \in [Devices -> Ids]
  BY <1>2, PcFacts
<1>6. \A e \in Devices \ {d} : Apart(e)
  BY <1>1, <1>2, <1>3, <1>4 DEF Apart
<1>7. LanePc(lane'[d], target'[d])
  BY <1>1, <1>2
<1> QED
  BY <1>1, <1>2, <1>4, <1>5, <1>6, <1>7, OneDevice

(***************************************************************************)
(* Where records come from.  What a step does to the files and the cards,  *)
(* whoever takes it.                                                       *)
(***************************************************************************)
\* e merges a file that the server has, or had when its refresh found it.
Merged(e) ==
  \E f \in Files : \E seen :
    /\ seen = remote[f] \/ (f \in DOMAIN pull[e].found /\ seen = pull[e].found[f])
    /\ docs'[e] = [docs[e] EXCEPT ![f] = docs[e][f] \cup seen]

\* e records something about the card of its latest record, or the one it fetched.
About(e, r) ==
  \/ Active(Top(docs[e])) /\ r.card = Top(docs[e]).card
  \/ lane[e].pc = "stage" /\ r.card = lane[e].card
Recorded(e) ==
  \E kind \in {"snapshot", "tombstone"} : \E r \in Records :
    /\ docs'[e] = [docs[e] EXCEPT ![<<e, kind>>] = docs[e][<<e, kind>>] \cup {r}]
    /\ About(e, r)
DocsStep == \A e \in Devices : docs'[e] = docs[e] \/ Merged(e) \/ Recorded(e)

\* A file is written with what was sent behind a read that is still good.
RemoteStep ==
  /\ remote' = [f \in Files |-> remote'[f]]
  /\ \A f \in Files :
       \/ remote'[f] = remote[f]
       \/ \E e \in Devices : /\ lane[e].pc = "write" /\ lane[e].fileFresh
                             /\ f = Chosen(lane[e]) /\ remote'[f] = lane[e].sent

\* What is sent is the file.
SentStep ==
  \A e \in Devices : lane'[e].pc = "write" =>
    \/ lane[e].pc = "write" /\ lane'[e].sent = lane[e].sent /\ lane'[e].todo = lane[e].todo
    \/ lane'[e].sent = docs'[e][Chosen(lane'[e])]

\* What is found is the file on the server, and only a refresh that runs finds any.
FoundStep ==
  \A e \in Devices :
    /\ \A f \in DOMAIN pull'[e].found :
         \/ pull'[e].found[f] = remote[f]
         \/ f \in DOMAIN pull[e].found /\ pull'[e].found[f] = pull[e].found[f]
    /\ pull'[e].pc = "idle" /\ DOMAIN pull'[e].found # {} =>
         pull[e].pc = "idle" /\ DOMAIN pull[e].found # {}

\* What is to be staged is one of the cards.
PickStep ==
  \A e \in Devices : lane'[e].pc = "stage" =>
    \/ lane[e].pc = "stage" /\ lane'[e].card = lane[e].card
    \/ lane'[e].card \in cards

\* A card that goes has a record, and one that comes has a new id.
CardsStep ==
  /\ \A c \in cards : \/ \E b \in cards' : b.id = c.id
                      \/ \E r \in All(remote) : r.card.id = c.id
  /\ \A c \in cards' : \/ \E b \in cards : b.id = c.id
                       \/ \A r \in All(remote) : r.card.id # c.id

Facts == DocsStep /\ RemoteStep /\ SentStep /\ FoundStep /\ PickStep /\ CardsStep

\* The facts of the lanes, from the lane of the device that steps.
LEMMA LaneFacts ==
  ASSUME TrashInv, NEW d \in Devices, NEW l,
         \/ lane' = [lane EXCEPT ![d] = l]
         \/ lane' = [NoFileFresh EXCEPT ![d] = l]
         \/ lane' = [NoCardFresh EXCEPT ![d] = l],
         l.pc = "write" =>
           \/ lane[d].pc = "write" /\ l.sent = lane[d].sent /\ l.todo = lane[d].todo
           \/ l.sent = docs'[d][Chosen(l)],
         l.pc = "stage" =>
           \/ lane[d].pc = "stage" /\ l.card = lane[d].card
           \/ l.card \in cards
  PROVE  SentStep /\ PickStep
<1>1. lane'[d] = l /\ \A e \in Devices \ {d} : Alike(lane[e], lane'[e])
  BY LaneSet
<1>2. \A e \in Devices \ {d} : /\ lane'[e].pc = lane[e].pc /\ lane'[e].card = lane[e].card
                               /\ lane'[e].sent = lane[e].sent /\ lane'[e].todo = lane[e].todo
  BY <1>1 DEF Alike
<1> QED
  BY <1>1, <1>2 DEF SentStep, PickStep

\* Those of the server and the refreshes when they are left alone.
LEMMA StillFacts ==
  ASSUME TrashInv
  PROVE  /\ UNCHANGED docs => DocsStep
         /\ UNCHANGED remote => RemoteStep
         /\ UNCHANGED pull => FoundStep
         /\ UNCHANGED cards => CardsStep
         /\ UNCHANGED lane => SentStep /\ PickStep
<1>1. remote = [f \in Files |-> remote[f]]
  BY DEF TrashInv, ServerInv, FilesType
<1>2. UNCHANGED pull => FoundStep
  BY DEF FoundStep
<1>3. UNCHANGED remote => RemoteStep
  BY <1>1 DEF RemoteStep
<1>4. UNCHANGED cards => CardsStep
  BY DEF CardsStep
<1>5. UNCHANGED lane => SentStep /\ PickStep
  BY DEF SentStep, PickStep
<1> QED
  BY <1>2, <1>3, <1>4, <1>5 DEF DocsStep

\* Those of the refreshes, from the refresh of the device that steps.
LEMMA PullFacts ==
  ASSUME TrashInv, NEW d \in Devices,
         \/ UNCHANGED pull \/ Discover(d) \/ Refresh(d)
         \/ pull' = [pull EXCEPT ![d] = NoPull]
         \/ \E F : pull' = [pull EXCEPT ![d] = [pull[d] EXCEPT !.found = Restrict(pull[d].found, F)]]
                   /\ F \subseteq Unread(d)
  PROVE  FoundStep
<1>1. pull = [e \in Devices |-> pull[e]] /\ PullGood(pull[d], remote)
  BY DEF TrashInv, PullInv
<1>2. CASE Discover(d)
  <2> DEFINE todo == {f \in Files : remote[f] # {} /\ (f \in dirty[d] \/ known[d][f] # remote[f])}
             p == [pc |-> "reading", found |-> Restrict(remote, todo)]
  <2>1. pull' = [pull EXCEPT ![d] = p]
    BY <1>2 DEF Discover
  <2>2. p.pc = "reading" /\ \A f \in DOMAIN p.found : p.found[f] = remote[f]
    BY DEF Restrict
  <2> HIDE DEF p
  <2> QED
    BY <1>1, <2>1, <2>2 DEF FoundStep
<1>3. CASE pull' = [pull EXCEPT ![d] = NoPull]
  <2>1. DOMAIN NoPull.found = {}
    BY DEF NoPull
  <2> QED
    BY <1>1, <1>3, <2>1 DEF FoundStep
<1>4. ASSUME NEW F, pull' = [pull EXCEPT ![d] = [pull[d] EXCEPT !.found = Restrict(pull[d].found, F)]],
             F \subseteq Unread(d)
      PROVE  FoundStep
  <2> DEFINE p == [pull[d] EXCEPT !.found = Restrict(pull[d].found, F)]
  <2>1. p.found = Restrict(pull[d].found, F) /\ p.pc = pull[d].pc
    BY <1>1 DEF PullGood
  <2>2. /\ \A f \in DOMAIN p.found : f \in DOMAIN pull[d].found /\ p.found[f] = pull[d].found[f]
        /\ p.pc = pull[d].pc
    BY <1>4, <2>1 DEF Restrict, Unread
  <2> HIDE DEF p
  <2>3. pull' = [pull EXCEPT ![d] = p]
    BY <1>4 DEF p
  <2> QED
    BY <1>1, <2>2, <2>3 DEF FoundStep
<1>5. CASE UNCHANGED pull
  BY <1>5, StillFacts
<1> QED
  BY <1>2, <1>3, <1>4, <1>5 DEF Refresh

\* Those of the files, from the files of the device that steps.
LEMMA DocsFacts ==
  ASSUME TrashInv, NEW d \in Devices,
         \/ UNCHANGED <<docs, dirty>>
         \/ \E f \in Files : \E seen : MergeFile(d, f, seen) /\
              (seen = remote[f] \/ (f \in DOMAIN pull[d].found /\ seen = pull[d].found[f]))
         \/ \E kind \in {"snapshot", "tombstone"} : \E r \in Records :
              AppendRecord(d, kind, r) /\ About(d, r)
  PROVE  DocsStep
<1>1. docs \in [Devices -> FilesType]
  BY DEF TrashInv, DocsInv
<1>2. \A e \in Devices \ {d} : docs'[e] = docs[e]
  BY FilesSet
<1>3. CASE UNCHANGED docs
  BY <1>3, StillFacts
<1>4. ASSUME NEW f \in Files, NEW seen, MergeFile(d, f, seen),
             seen = remote[f] \/ (f \in DOMAIN pull[d].found /\ seen = pull[d].found[f])
      PROVE  DocsStep
  <2>1. docs'[d] = [docs[d] EXCEPT ![f] = docs[d][f] \cup seen]
    BY <1>1, <1>4 DEF MergeFile
  <2> QED
    BY <1>2, <1>4, <2>1 DEF DocsStep, Merged
<1>5. ASSUME NEW kind \in {"snapshot", "tombstone"}, NEW r \in Records,
             AppendRecord(d, kind, r), About(d, r)
      PROVE  DocsStep
  <2>1. docs'[d] = [docs[d] EXCEPT ![<<d, kind>>] = docs[d][<<d, kind>>] \cup {r}]
    BY <1>1, <1>5 DEF AppendRecord
  <2> QED
    BY <1>2, <1>5, <2>1 DEF DocsStep, Recorded
<1> QED
  BY <1>3, <1>4, <1>5

\* The facts of a step at d that leaves the server and the files alone.
LEMMA LocalFacts ==
  ASSUME TrashInv, NEW d \in Devices, NEW l,
         lane' = [lane EXCEPT ![d] = l] \/ (UNCHANGED lane /\ l = lane[d]),
         UNCHANGED <<remote, cards, docs>>,
         \/ UNCHANGED pull \/ Discover(d) \/ Refresh(d)
         \/ pull' = [pull EXCEPT ![d] = NoPull],
         l.pc = "write" =>
           lane[d].pc = "write" /\ l.sent = lane[d].sent /\ l.todo = lane[d].todo,
         l.pc = "stage" =>
           (lane[d].pc = "stage" /\ l.card = lane[d].card) \/ l.card \in cards
  PROVE  Facts
<1> HIDE DEF Discover, Refresh, TrashInv
<1>1. DocsStep /\ RemoteStep /\ CardsStep
  BY StillFacts
<1>2. FoundStep
  BY PullFacts
<1>3. SentStep /\ PickStep
  BY StillFacts, LaneFacts
<1> QED
  BY <1>1, <1>2, <1>3 DEF Facts

\* No row at all is at no step.
LEMMA NoLanePc == NoLane.pc = "idle" /\ NoLane.kind = "none"
BY DEF NoLane

\* A step that asks, is told, starts or breaks off a refresh, or dies moves no record.
LEMMA FactsQuiet ==
  ASSUME TrashInv, NEW d \in Devices,
         \/ \E kind \in Kinds : Ask(d, kind)
         \/ Receive(d) \/ Handle(d) \/ FrameLost(d) \/ PullFails(d) \/ WorkerDies(d)
  PROVE  Facts
<1>1. UNCHANGED <<remote, cards, docs>>
  BY DEF Ask, Receive, Handle, FrameLost, PullFails, WorkerDies, serverVars, docVars
<1>2. CASE (\E kind \in Kinds : Ask(d, kind)) \/ Receive(d) \/ Handle(d) \/ FrameLost(d)
  <2>1. UNCHANGED lane /\ (UNCHANGED pull \/ Refresh(d))
    BY <1>2 DEF Ask, Receive, Handle, FrameLost
  <2> QED
    BY <1>1, <2>1, LocalFacts
<1>3. CASE PullFails(d)
  <2>1. pull' = [pull EXCEPT ![d] = NoPull] /\ (UNCHANGED lane \/ Retry(lane, d))
    BY <1>3 DEF PullFails
  <2>2. UNCHANGED lane \/ lane' = [lane EXCEPT ![d] = NoLane]
    BY <2>1, LaneForms
  <2>3. CASE UNCHANGED lane
    BY <1>1, <2>1, <2>3, LocalFacts
  <2>4. CASE lane' = [lane EXCEPT ![d] = NoLane]
    BY <1>1, <2>1, <2>4, NoLanePc, LocalFacts
  <2> QED
    BY <2>2, <2>3, <2>4
<1>4. CASE WorkerDies(d)
  <2>1. Discover(d) /\ lane' = [lane EXCEPT ![d] = NoLane]
    BY <1>4 DEF WorkerDies, Finish
  <2> QED
    BY <1>1, <2>1, NoLanePc, LocalFacts
<1> QED
  BY <1>2, <1>3, <1>4

\* Nor does the start of a row.
LEMMA FactsBegin ==
  ASSUME TrashInv, NEW d \in Devices, Begin(d)
  PROVE  Facts
<1>1. UNCHANGED <<remote, cards, docs>> /\ (UNCHANGED pull \/ Refresh(d))
  BY DEF Begin, serverVars, docVars
<1>2. \E kind : lane' = [lane EXCEPT ![d] = [NoLane EXCEPT !.kind = kind,
                  !.pc = IF Open(d, kind) THEN "start" ELSE "gate"]]
  BY DEF Begin
<1>3. PICK kind : lane' = [lane EXCEPT ![d] = [NoLane EXCEPT !.kind = kind,
                  !.pc = IF Open(d, kind) THEN "start" ELSE "gate"]]
  BY <1>2
<1> DEFINE l == [NoLane EXCEPT !.kind = kind, !.pc = IF Open(d, kind) THEN "start" ELSE "gate"]
<1>4. l.pc \in {"start", "gate"}
  BY DEF NoLane
<1> HIDE DEF l
<1>5. lane' = [lane EXCEPT ![d] = l]
  BY <1>3 DEF l
<1> QED
  BY <1>1, <1>4, <1>5, LocalFacts

\* A refresh merges what it found, or records an expiry of the latest.
LEMMA FactsPull ==
  ASSUME TrashInv, NEW d \in Devices, PullFile(d) \/ PullEnds(d)
  PROVE  Facts
<1>1. PullGood(pull[d], remote) /\ remote \in FilesType /\ UNCHANGED <<remote, cards>>
  BY DEF TrashInv, PullInv, ServerInv, PullFile, PullEnds, serverVars
<1>2. RemoteStep /\ CardsStep
  BY <1>1, StillFacts
<1>3. CASE PullFile(d)
  <2> DEFINE f == CHOOSE g \in Unread(d) : TRUE
  <2>1. f \in DOMAIN pull[d].found /\ f \in Files /\ MergeFile(d, f, pull[d].found[f])
    BY <1>1, <1>3 DEF PullFile, Unread, PullGood
  <2>2. DocsStep
    BY <2>1, DocsFacts
  <2>3. pull' = [pull EXCEPT ![d] = [pull[d] EXCEPT !.found = Restrict(pull[d].found, Unread(d) \ {f})]]
    BY <1>3 DEF PullFile
  <2>4. FoundStep
    <3> DEFINE F == Unread(d) \ {f}
    <3>1. F \subseteq Unread(d)
      OBVIOUS
    <3>2. pull' = [pull EXCEPT ![d] = [pull[d] EXCEPT !.found = Restrict(pull[d].found, F)]]
      BY <2>3
    <3> HIDE DEF F, f
    <3> QED
      BY <3>1, <3>2, PullFacts
  <2>5. SentStep /\ PickStep
    BY <1>3, StillFacts DEF PullFile
  <2> QED
    BY <1>2, <2>2, <2>4, <2>5 DEF Facts
<1>4. CASE PullEnds(d)
  <2>1. DocsStep
    <3>1. CASE UNCHANGED docs
      BY <3>1, StillFacts
    <3>2. CASE /\ Active(Top(docs[d]))
               /\ \E now \in 1..MaxClock :
                    AppendRecord(d, "tombstone", Tombstone(Top(docs[d]), "purged", now))
      <4>1. PICK now \in 1..MaxClock :
              AppendRecord(d, "tombstone", Tombstone(Top(docs[d]), "purged", now))
        BY <3>2
      <4>2. Tombstone(Top(docs[d]), "purged", now) \in Records
        BY <3>2, TombstoneTyped
      <4>3. Tombstone(Top(docs[d]), "purged", now).card = Top(docs[d]).card
        BY <3>2, RowFacts, ActiveIsRecord DEF Tombstone, Records
      <4> QED
        BY <3>2, <4>1, <4>2, <4>3, DocsFacts DEF About
    <3> QED
      BY <1>4, <3>1, <3>2 DEF PullEnds
  <2>2. FoundStep
    BY <1>4, PullFacts DEF PullEnds
  <2>3. SentStep /\ PickStep
    <3> DEFINE l == IF lane[d].pc = "gate" THEN [lane[d] EXCEPT !.pc = "start"] ELSE lane[d]
    <3>1. lane' = [lane EXCEPT ![d] = l]
      BY <1>4, LaneForms DEF PullEnds
    <3>2. l = lane[d] \/ l.pc = "start"
      BY RowFacts DEF IsLane
    <3> HIDE DEF l
    <3> QED
      BY <3>1, <3>2, LaneFacts
  <2> QED
    BY <1>2, <2>1, <2>2, <2>3 DEF Facts
<1> QED
  BY <1>3, <1>4

\* A row that pushes merges the file it reads, and sends what it then has.
LEMMA FactsPushRead ==
  ASSUME TrashInv, NEW d \in Devices, PushRead(d)
  PROVE  Facts
<1> DEFINE f == Chosen(lane[d])
<1>1. f \in lane[d].todo /\ lane[d].todo \subseteq Files /\ f = File(d)
  BY RowFacts DEF PushRead, Chosen, IsLane, File
<1>2. UNCHANGED <<remote, cards>> /\ UNCHANGED pull
  BY DEF PushRead, serverVars
<1>3. RemoteStep /\ CardsStep /\ FoundStep
  BY <1>2, StillFacts
<1>4. CASE File(d) \in dirty[d]
  <2> DEFINE l == [lane[d] EXCEPT !.pc = "write", !.fileFresh = TRUE, !.sent = docs'[d][f]]
  <2>1. MergeFile(d, f, remote[f]) /\ lane' = [lane EXCEPT ![d] = l]
    BY <1>1, <1>4 DEF PushRead
  <2>2. l.sent = docs'[d][f] /\ l.todo = lane[d].todo /\ l.pc = "write"
    BY RowFacts DEF IsLane
  <2> HIDE DEF l
  <2>3. Chosen(l) = f
    BY <2>2 DEF Chosen
  <2>4. DocsStep
    BY <1>1, <2>1, DocsFacts
  <2>5. SentStep /\ PickStep
    BY <2>1, <2>2, <2>3, LaneFacts
  <2> QED
    BY <1>3, <2>4, <2>5 DEF Facts
<1>5. CASE File(d) \notin dirty[d]
  <2> DEFINE l == [lane[d] EXCEPT !.todo = lane[d].todo \ {f}]
  <2>1. UNCHANGED docs /\ lane' = [lane EXCEPT ![d] = l]
    BY <1>1, <1>5 DEF PushRead
  <2>2. l.pc = "push"
    BY RowFacts DEF IsLane, PushRead
  <2> HIDE DEF l
  <2> QED
    BY <1>2, <2>1, <2>2, LocalFacts
<1> QED
  BY <1>4, <1>5

\* The lane that Go, Push, Again, Finish and Retry leave.
LEMMA LaneGo ==
  ASSUME TrashInv, NEW d \in Devices, NEW pc, Go(d, pc)
  PROVE  \E l : /\ lane' = [lane EXCEPT ![d] = l] /\ l.pc = pc /\ l.kind = lane[d].kind
                /\ l.card = lane[d].card /\ l.todo = lane[d].todo
                /\ l.destroys = lane[d].destroys
<1> DEFINE l == [lane[d] EXCEPT !.pc = pc]
<1>1. lane' = [lane EXCEPT ![d] = l]
  BY LaneForms
<1>2. /\ l.pc = pc /\ l.kind = lane[d].kind /\ l.card = lane[d].card
      /\ l.todo = lane[d].todo /\ l.destroys = lane[d].destroys
  BY RowFacts DEF IsLane
<1> HIDE DEF l
<1> QED
  BY <1>1, <1>2

\* A row goes on to push files.
LEMMA LanePush ==
  ASSUME TrashInv, NEW d \in Devices, NEW entry, NEW files, NEW destroys \in BOOLEAN,
         Push(d, entry, files, destroys)
  PROVE  \E l : /\ lane' = [lane EXCEPT ![d] = l] /\ l.pc = "push" /\ l.kind = lane[d].kind
                /\ l.card = lane[d].card /\ l.todo = files /\ (l.destroys => destroys)
<1> DEFINE l == [lane[d] EXCEPT !.pc = "push", !.entry = entry,
                   !.todo = files, !.destroys = destroys, !.tries = 0]
<1>1. lane' = [lane EXCEPT ![d] = l]
  BY DEF Push
<1>2. /\ l.pc = "push" /\ l.kind = lane[d].kind /\ l.card = lane[d].card
      /\ l.todo = files /\ (l.destroys => destroys)
  BY RowFacts DEF IsLane
<1> HIDE DEF l
<1> QED
  BY <1>1, <1>2

\* A row reads again, or is put back.
LEMMA LaneAgain ==
  ASSUME TrashInv, NEW d \in Devices, Again(d)
  PROVE  \/ /\ UNCHANGED rowVars
            /\ \E l : /\ lane' = [lane EXCEPT ![d] = l] /\ l.pc = "push"
                      /\ l.kind = lane[d].kind /\ l.card = lane[d].card
                      /\ l.todo = lane[d].todo /\ l.destroys = lane[d].destroys
         \/ Retry(lane, d) /\ lane' = [lane EXCEPT ![d] = NoLane]
<1>1. CASE lane[d].tries < 2
  <2> DEFINE l == [lane[d] EXCEPT !.pc = "push", !.tries = lane[d].tries + 1]
  <2>1. lane' = [lane EXCEPT ![d] = l] /\ UNCHANGED rowVars
    BY <1>1 DEF Again
  <2>2. /\ l.pc = "push" /\ l.kind = lane[d].kind /\ l.card = lane[d].card
        /\ l.todo = lane[d].todo /\ l.destroys = lane[d].destroys
    BY RowFacts DEF IsLane
  <2> HIDE DEF l
  <2> QED
    BY <2>1, <2>2
<1>2. CASE ~(lane[d].tries < 2)
  BY <1>2, LaneForms DEF Again
<1> QED
  BY <1>1, <1>2

\* A file is written with what was sent behind a good read.
LEMMA FactsServeFile ==
  ASSUME TrashInv, NEW d \in Devices, lane[d].pc = "write", Fresh(d), ServeFile(d)
  PROVE  RemoteStep /\ CardsStep
<1>1. lane[d].todo # {} /\ File(d) = Chosen(lane[d]) /\ lane[d].fileFresh
  BY RowFacts DEF LaneGood, File, Chosen, Fresh
<1>2. remote' = [remote EXCEPT ![File(d)] = lane[d].sent] /\ UNCHANGED cards
  BY DEF ServeFile
<1>3. remote \in FilesType
  BY RowFacts
<1>4. CardsStep
  BY <1>2, StillFacts
<1> QED
  BY <1>1, <1>2, <1>3, <1>4 DEF RemoteStep, FilesType

\* The write, its confirmation and the end of a push move no other record.
LEMMA FactsPush ==
  ASSUME TrashInv, NEW d \in Devices,
         PushWrite(d) \/ PushConfirm(d) \/ PushEnds(d) \/ PushAll(d)
  PROVE  Facts
<1>1. UNCHANGED docs /\ UNCHANGED cards /\ UNCHANGED pull
  BY DEF PushWrite, PushConfirm, PushEnds, PushAll, docVars, serverVars, ServeFile
<1>2. DocsStep /\ FoundStep
  BY <1>1, StillFacts
<1>3. CASE PushWrite(d)
  <2>1. CASE Fresh(d)
    <3> DEFINE l == [lane[d] EXCEPT !.pc = "confirm"]
    <3>1. lane[d].pc = "write" /\ ServeFile(d) /\ lane' = [NoFileFresh EXCEPT ![d].pc = "confirm"]
      BY <1>3, <2>1 DEF PushWrite
    <3>2. PICK m : lane' = [NoFileFresh EXCEPT ![d] = m] /\ m.pc = "confirm"
      <4>1. NoFileFresh[d] = [lane[d] EXCEPT !.fileFresh = FALSE] /\ IsLane(lane[d])
        BY RowFacts DEF NoFileFresh
      <4>2. lane' = [NoFileFresh EXCEPT ![d] = [NoFileFresh[d] EXCEPT !.pc = "confirm"]]
        BY <3>1
      <4>3. [NoFileFresh[d] EXCEPT !.pc = "confirm"].pc = "confirm"
        BY <4>1 DEF IsLane
      <4> QED
        BY <4>2, <4>3
    <3>3. SentStep /\ PickStep
      BY <3>2, LaneFacts
    <3> QED
      BY <1>2, <2>1, <3>1, <3>3, FactsServeFile DEF Facts
  <2>2. CASE ~Fresh(d)
    <3>1. Again(d) /\ UNCHANGED remote
      BY <1>3, <2>2 DEF PushWrite, serverVars
    <3>2. PICK l : lane' = [lane EXCEPT ![d] = l] /\ l.pc \in {"push", "idle"}
      BY <3>1, LaneAgain, NoLanePc
    <3> QED
      BY <1>1, <3>1, <3>2, LocalFacts
  <2> QED
    BY <2>1, <2>2
<1>4. CASE PushConfirm(d)
  <2>1. UNCHANGED remote
    BY <1>4 DEF PushConfirm, serverVars
  <2>2. CASE Again(d)
    <3>1. PICK l : lane' = [lane EXCEPT ![d] = l] /\ l.pc \in {"push", "idle"}
      BY <2>2, LaneAgain, NoLanePc
    <3> QED
      BY <1>1, <2>1, <3>1, LocalFacts
  <2>3. CASE lane' = [lane EXCEPT ![d] = [@ EXCEPT !.pc = "push", !.sent = {},
                        !.todo = lane[d].todo \ {File(d)}, !.tries = 0]]
    <3> DEFINE l == [lane[d] EXCEPT !.pc = "push", !.sent = {},
                        !.todo = lane[d].todo \ {File(d)}, !.tries = 0]
    <3>1. lane' = [lane EXCEPT ![d] = l] /\ l.pc = "push"
      BY <2>3, RowFacts DEF IsLane
    <3> HIDE DEF l
    <3> QED
      BY <1>1, <2>1, <3>1, LocalFacts
  <2> QED
    BY <1>4, <2>2, <2>3 DEF PushConfirm
<1>5. CASE PushEnds(d) \/ PushAll(d)
  <2>1. UNCHANGED remote
    BY <1>5 DEF PushEnds, PushAll, serverVars
  <2>2. Go(d, "destroy") \/ Finish(lane, d) \/ Push(d, None, dirty[d], FALSE)
    BY <1>5 DEF PushEnds, PushAll
  <2>3. PICK l : lane' = [lane EXCEPT ![d] = l] /\ l.pc \in {"push", "idle", "destroy"}
    <3>1. CASE Go(d, "destroy")
      BY <3>1, LaneGo
    <3>2. CASE Finish(lane, d)
      BY <3>2, LaneForms, NoLanePc
    <3>3. CASE Push(d, None, dirty[d], FALSE)
      <4>1. PICK l : lane' = [lane EXCEPT ![d] = l] /\ l.pc = "push"
        BY <3>3, LanePush
      <4> QED
        BY <4>1
    <3> QED
      BY <2>2, <3>1, <3>2, <3>3
  <2> QED
    BY <1>1, <2>1, <2>3, LocalFacts
<1> QED
  BY <1>3, <1>4, <1>5

\* A record of the latest one's card.
LEMMA TombstoneAbout ==
  ASSUME TrashInv, NEW d \in Devices, NEW status \in {"restored", "purged"},
         NEW now \in 1..MaxClock, Active(Top(docs[d])),
         AppendRecord(d, "tombstone", Tombstone(Top(docs[d]), status, now))
  PROVE  DocsStep
<1>1. Tombstone(Top(docs[d]), status, now) \in Records
  BY TombstoneTyped
<1>2. Tombstone(Top(docs[d]), status, now).card = Top(docs[d]).card
  BY RowFacts, ActiveIsRecord DEF Tombstone, Records
<1> QED
  BY <1>1, <1>2, DocsFacts DEF About

\* A push that fails may have written the file, or records that it is given up.
LEMMA FactsPushFails ==
  ASSUME TrashInv, NEW d \in Devices, PushFails(d)
  PROVE  Facts
<1>1. FoundStep
  BY StillFacts DEF PushFails
<1>2. CASE Retry(lane, d) /\ UNCHANGED <<serverVars, docVars>>
  <2>1. UNCHANGED <<remote, cards, docs>> /\ UNCHANGED pull
    BY <1>2 DEF serverVars, docVars, PushFails
  <2> QED
    BY <1>2, <2>1, LaneForms, NoLanePc, LocalFacts
<1>3. CASE /\ lane[d].pc = "write" /\ Fresh(d)
           /\ ServeFile(d) /\ Retry(NoFileFresh, d) /\ UNCHANGED docVars
  <2>1. DocsStep
    BY <1>3, StillFacts DEF docVars
  <2>2. SentStep /\ PickStep
    BY <1>3, LaneForms, NoLanePc, LaneFacts
  <2> QED
    BY <1>1, <1>3, <2>1, <2>2, FactsServeFile DEF Facts
<1>4. CASE Rollback(d) /\ Finish(lane, d) /\ UNCHANGED serverVars
  <2>1. RemoteStep /\ CardsStep
    BY <1>4, StillFacts DEF serverVars
  <2>2. SentStep /\ PickStep
    BY <1>4, LaneForms, NoLanePc, LaneFacts
  <2>3. CASE UNCHANGED docVars
    BY <1>1, <2>1, <2>2, <2>3, StillFacts DEF docVars, Facts
  <2>4. CASE /\ lane[d].destroys /\ Top(docs[d]) = lane[d].entry
             /\ \E now \in 1..MaxClock :
                  AppendRecord(d, "tombstone", Tombstone(Top(docs[d]), "purged", now))
    <3>1. lane[d].pc \in Pushing
      BY DEF PushFails, Pushing
    <3>2. Active(Top(docs[d]))
      BY <2>4, <3>1, RowFacts DEF LaneGood, Snapshot
    <3> QED
      BY <1>1, <2>1, <2>2, <2>4, <3>2, TombstoneAbout DEF Facts
  <2> QED
    BY <1>4, <2>3, <2>4 DEF Rollback
<1> QED
  BY <1>2, <1>3, <1>4 DEF PushFails

\* A delete takes up one of the cards.
LEMMA FactsFetch ==
  ASSUME TrashInv, NEW d \in Devices, Fetch(d)
  PROVE  Facts
<1>1. UNCHANGED <<remote, cards, docs>> /\ UNCHANGED pull
  BY DEF Fetch, serverVars, docVars
<1>2. CASE Finish(lane, d)
  BY <1>1, <1>2, LaneForms, NoLanePc, LocalFacts
<1>3. ASSUME NEW c \in cards, NEW r,
             lane' = [lane EXCEPT ![d] = [@ EXCEPT
               !.pc = "stage", !.card = c, !.cardFresh = TRUE, !.entry = r]]
      PROVE  Facts
  <2> DEFINE l == [lane[d] EXCEPT !.pc = "stage", !.card = c, !.cardFresh = TRUE, !.entry = r]
  <2>1. lane' = [lane EXCEPT ![d] = l] /\ l.pc = "stage" /\ l.card = c
    BY <1>3, RowFacts DEF IsLane
  <2> HIDE DEF l
  <2> QED
    BY <1>1, <2>1, LocalFacts
<1> QED
  BY <1>2, <1>3 DEF Fetch

\* It records the card it took up.
LEMMA FactsStage ==
  ASSUME TrashInv, NEW d \in Devices, Stage(d)
  PROVE  Facts
<1> DEFINE top == Top(docs[d])
           new == [lane[d].entry EXCEPT !.at = IF top = None THEN @ ELSE Stamp(@, top)]
<1>1. UNCHANGED <<remote, cards>> /\ UNCHANGED pull /\ lane[d].pc = "stage"
  BY DEF Stage, serverVars, At
<1>2. RemoteStep /\ CardsStep /\ FoundStep
  BY <1>1, StillFacts
<1>3. CASE Finish(lane, d) /\ UNCHANGED docVars
  BY <1>1, <1>3, LaneForms, NoLanePc, LocalFacts DEF docVars
<1>4. CASE Push(d, top, Holders(d, top), TRUE) /\ UNCHANGED docs
  <2>1. PICK l : lane' = [lane EXCEPT ![d] = l] /\ l.pc = "push"
    BY <1>4, LanePush
  <2> QED
    BY <1>1, <1>4, <2>1, LocalFacts
<1>5. CASE AppendRecord(d, "snapshot", new) /\ Push(d, new, {<<d, "snapshot">>}, TRUE)
  <2>1. lane[d].entry \in Records /\ lane[d].entry.card = lane[d].card
    BY <1>1, RowFacts DEF LaneGood, Snapshot
  <2>2. top \in Records \cup {None}
    BY RowFacts
  <2>4. new \in Records /\ new.card = lane[d].card
    <3>1. CASE top = None
      <4>1. new = lane[d].entry
        BY <2>1, <3>1 DEF Records
      <4> QED
        BY <2>1, <4>1
    <3>2. CASE top # None
      <4>1. top.at \in Nat \ {0} /\ lane[d].entry.at \in Nat \ {0}
        BY <2>1, <2>2, <3>2 DEF Records
      <4>2. Stamp(lane[d].entry.at, top) \in Nat \ {0}
        BY <4>1 DEF Stamp
      <4> HIDE DEF top
      <4> QED
        BY <2>1, <3>2, <4>2 DEF Records
    <3> QED
      BY <3>1, <3>2
  <2> HIDE DEF new
  <2>5. DocsStep
    BY <1>1, <1>5, <2>4, DocsFacts DEF About
  <2>6. SentStep /\ PickStep
    <3>1. PICK l : lane' = [lane EXCEPT ![d] = l] /\ l.pc = "push"
      BY <1>5, LanePush
    <3> QED
      BY <3>1, LaneFacts
  <2> QED
    BY <1>2, <2>5, <2>6 DEF Facts
<1> QED
  BY <1>3, <1>4, <1>5 DEF Stage

\* A tombstone is of the latest record's card.
LEMMA FactsSetStatus ==
  ASSUME TrashInv, NEW d \in Devices, SetStatus(d)
  PROVE  Facts
<1> DEFINE top == Top(docs[d])
           status == IF lane[d].kind = "restore" THEN "restored" ELSE "purged"
<1>1. UNCHANGED <<remote, cards>> /\ UNCHANGED pull
  BY DEF SetStatus, serverVars
<1>2. CASE Active(top)
  <2>1. PICK now \in 1..MaxClock : AppendRecord(d, "tombstone", Tombstone(top, status, now))
    BY <1>2 DEF SetStatus
  <2>2. DocsStep
    BY <1>2, <2>1, TombstoneAbout
  <2>3. Push(d, None, {<<d, "tombstone">>}, FALSE)
    BY <1>2 DEF SetStatus
  <2>4. SentStep /\ PickStep
    <3>1. PICK l : lane' = [lane EXCEPT ![d] = l] /\ l.pc = "push"
      BY <2>3, LanePush
    <3> QED
      BY <3>1, LaneFacts
  <2> QED
    BY <1>1, <2>2, <2>4, StillFacts DEF Facts
<1>3. CASE ~Active(top)
  <2>1. Finish(lane, d) /\ UNCHANGED docs
    BY <1>3 DEF SetStatus
  <2> QED
    BY <1>1, <2>1, LaneForms, NoLanePc, LocalFacts
<1> QED
  BY <1>2, <1>3

\* A card is destroyed that the server has a snapshot of.
LEMMA FactsDestroy ==
  ASSUME TrashInv, NEW d \in Devices, Destroy(d) \/ DestroyFails(d)
  PROVE  Facts
<1>1. UNCHANGED docs /\ UNCHANGED pull /\ UNCHANGED remote /\ lane[d].pc = "destroy"
  BY DEF Destroy, DestroyFails, docVars, ServeDestroy, serverVars
<1>2. DocsStep /\ FoundStep /\ RemoteStep
  BY <1>1, StillFacts
<1>3. ASSUME Same(d), ServeDestroy(d) PROVE CardsStep
  <2>1. cards' = {c \in cards : c.id # lane[d].card.id}
    BY <1>3 DEF ServeDestroy
  <2>2. lane[d].entry.card = lane[d].card /\ \E f \in Files : lane[d].entry \in remote[f]
    BY <1>1, RowFacts DEF LaneGood, Pushing, Carried, Snapshot
  <2>3. \E r \in All(remote) : r.card.id = lane[d].card.id
    BY <2>2 DEF All
  <2> QED
    BY <2>1, <2>3 DEF CardsStep
<1>4. CASE /\ Same(d) /\ ServeDestroy(d)
           /\ Finish(NoCardFresh, d) \/ Retry(NoCardFresh, d)
  <2>1. SentStep /\ PickStep
    BY <1>4, LaneForms, NoLanePc, LaneFacts
  <2> QED
    BY <1>2, <1>3, <1>4, <2>1 DEF Facts
<1>5. CASE UNCHANGED cards
  <2>1. CASE Retry(lane, d)
    BY <1>1, <1>5, <2>1, LaneForms, NoLanePc, LocalFacts
  <2>2. CASE Go(d, "mark")
    <3>1. PICK l : lane' = [lane EXCEPT ![d] = l] /\ l.pc = "mark"
      BY <2>2, LaneGo
    <3> QED
      BY <1>1, <1>5, <3>1, LocalFacts
  <2>3. CASE lane' = [lane EXCEPT ![d] = [NoLane EXCEPT !.kind = "delete", !.pc = "start",
                                                      !.rounds = lane[d].rounds + 1]]
    <3> DEFINE l == [NoLane EXCEPT !.kind = "delete", !.pc = "start", !.rounds = lane[d].rounds + 1]
    <3>1. lane' = [lane EXCEPT ![d] = l] /\ l.pc = "start"
      BY <2>3 DEF NoLane
    <3> HIDE DEF l
    <3> QED
      BY <1>1, <1>5, <3>1, LocalFacts
  <2>4. CASE Same(d) /\ ServeDestroy(d) /\ (Finish(NoCardFresh, d) \/ Retry(NoCardFresh, d))
    BY <1>4, <2>4
  <2> QED
    BY <1>1, <2>1, <2>2, <2>3, <2>4 DEF Destroy, DestroyFails
<1> QED
  BY <1>4, <1>5 DEF Destroy, DestroyFails, serverVars

\* A card is created with an id of its own.
LEMMA FactsRestore ==
  ASSUME TrashInv, NEW d \in Devices, Lookup(d) \/ Create(d) \/ CreateFails(d) \/ Reconcile(d)
  PROVE  Facts
<1>1. UNCHANGED docs /\ UNCHANGED pull /\ UNCHANGED remote
  BY DEF Lookup, Create, CreateFails, Reconcile, docVars, ServeCreate, serverVars
<1>2. DocsStep /\ FoundStep /\ RemoteStep
  BY <1>1, StillFacts
<1>3. ASSUME ServeCreate(d) PROVE CardsStep
  <2> DEFINE i == CHOOSE j \in NewIds : TRUE
  <2>1. i \in NewIds /\ cards' = cards \cup {Created(d)}
    BY <1>3 DEF ServeCreate
  <2>2. lane[d].card \in Cards
    BY RowFacts DEF IsLane
  <2> HIDE DEF i
  <2>3. Created(d).id = i
    <3>1. Created(d) = [lane[d].card EXCEPT !.id = i]
      BY DEF Created, i
    <3> QED
      BY <2>2, <3>1 DEF Cards
  <2>4. \A r \in All(remote) : r.card.id # i
    BY <2>1 DEF NewIds
  <2> QED
    BY <2>1, <2>3, <2>4 DEF CardsStep
<1>4. CASE Lookup(d) \/ Reconcile(d)
  <2>1. UNCHANGED cards
    BY <1>4 DEF Lookup, Reconcile, serverVars
  <2>2. CASE Go(d, "mark")
    <3>1. PICK l : lane' = [lane EXCEPT ![d] = l] /\ l.pc = "mark"
      BY <2>2, LaneGo
    <3> QED
      BY <1>1, <2>1, <3>1, LocalFacts
  <2>3. CASE Finish(lane, d) \/ Retry(lane, d)
    BY <1>1, <2>1, <2>3, LaneForms, NoLanePc, LocalFacts
  <2>4. ASSUME NEW c, NEW pc \in {"create", "reconcile"},
               lane' = [lane EXCEPT ![d] = [@ EXCEPT !.pc = pc, !.card = c]]
        PROVE  Facts
    <3> DEFINE l == [lane[d] EXCEPT !.pc = pc, !.card = c]
    <3>1. lane' = [lane EXCEPT ![d] = l] /\ l.pc = pc
      BY <2>4, RowFacts DEF IsLane
    <3> HIDE DEF l
    <3> QED
      BY <1>1, <2>1, <3>1, LocalFacts
  <2> QED
    BY <1>4, <2>2, <2>3, <2>4 DEF Lookup, Reconcile
<1>5. CASE Create(d)
  <2>1. PICK m : lane' = [NoCardFresh EXCEPT ![d] = m] /\ m.pc = "reconcile"
    <3>1. NoCardFresh[d] = [lane[d] EXCEPT !.cardFresh = FALSE] /\ IsLane(lane[d])
      BY RowFacts DEF NoCardFresh
    <3>2. lane' = [NoCardFresh EXCEPT ![d] =
                     [NoCardFresh[d] EXCEPT !.pc = "reconcile", !.card = Created(d)]]
      BY <1>5 DEF Create
    <3>3. [NoCardFresh[d] EXCEPT !.pc = "reconcile", !.card = Created(d)].pc = "reconcile"
      BY <3>1 DEF IsLane
    <3> QED
      BY <3>2, <3>3
  <2>2. SentStep /\ PickStep
    BY <2>1, LaneFacts
  <2> QED
    BY <1>2, <1>3, <1>5, <2>2 DEF Facts, Create
<1>6. CASE CreateFails(d)
  <2>1. CASE UNCHANGED serverVars
    <3>1. lane' = [lane EXCEPT ![d] = NoLane] \/ lane' = [NoCardFresh EXCEPT ![d] = NoLane]
      BY <1>6, LaneForms DEF CreateFails
    <3>2. SentStep /\ PickStep
      BY <3>1, NoLanePc, LaneFacts
    <3> QED
      BY <1>2, <2>1, <3>2, StillFacts DEF Facts, serverVars
  <2>2. CASE ServeCreate(d) /\ Retry(NoCardFresh, d)
    <3>1. SentStep /\ PickStep
      BY <2>2, LaneForms, NoLanePc, LaneFacts
    <3> QED
      BY <1>2, <1>3, <2>2, <3>1 DEF Facts
  <2> QED
    BY <1>6, <2>1, <2>2 DEF CreateFails
<1> QED
  BY <1>4, <1>5, <1>6

\* An edit keeps the card's id.
LEMMA FactsEdit ==
  ASSUME TrashInv, Edit
  PROVE  Facts
<1>1. UNCHANGED docs /\ UNCHANGED pull /\ UNCHANGED remote /\ lane' = NoCardFresh
  BY DEF Edit, docVars
<1>2. DocsStep /\ FoundStep /\ RemoteStep
  BY <1>1, StillFacts
<1>3. PICK c \in cards : cards' = (cards \ {c}) \cup {[c EXCEPT !.ver = asks']}
  BY DEF Edit
<1> DEFINE e == [c EXCEPT !.ver = asks']
<1>4. e.id = c.id
  BY DEF TrashInv, ServerInv, Cards
<1>5. CardsStep
  <2>1. cards' = (cards \ {c}) \cup {e}
    BY <1>3
  <2> HIDE DEF e
  <2> QED
    BY <1>4, <2>1 DEF CardsStep
<1>6. \A d \in Devices : lane'[d].pc = lane[d].pc /\ lane'[d].sent = lane[d].sent
                         /\ lane'[d].todo = lane[d].todo /\ lane'[d].card = lane[d].card
  BY <1>1, RowFacts DEF NoCardFresh, IsLane
<1> QED
  BY <1>2, <1>5, <1>6 DEF Facts, SentStep, PickStep

\* Every step has the facts.
LEMMA StepFacts ==
  ASSUME TrashInv, [Next]_vars
  PROVE  Facts
<1>1. ASSUME NEW d \in Devices, PullStep(d) PROVE Facts
  BY <1>1, FactsPull, FactsQuiet DEF PullStep
<1>2. ASSUME NEW d \in Devices, RowStep(d) PROVE Facts
  BY <1>2, FactsBegin, FactsPushRead, FactsPush, FactsFetch, FactsStage, FactsDestroy,
     FactsRestore, FactsSetStatus DEF RowStep, PushStep
<1>3. ASSUME NEW d \in Devices, FaultStep(d) PROVE Facts
  BY <1>3, FactsQuiet, FactsPushFails, FactsDestroy, FactsRestore DEF FaultStep
<1>4. ASSUME NEW d \in Devices, NEW kind \in Kinds, Ask(d, kind) PROVE Facts
  BY <1>4, FactsQuiet
<1>5. CASE UNCHANGED vars
  BY <1>5, StillFacts DEF vars, serverVars, docVars, Facts
<1> QED
  BY <1>1, <1>2, <1>3, <1>4, <1>5, FactsEdit DEF Next, Step

(***************************************************************************)
(* The records of a file, and of all the files of a device.                *)
(***************************************************************************)
\* A set of records of which one is the latest.
Headed(S) == S = {} \/ \E r \in S : \A q \in S : ~Wins(q, r)

\* A device has its own files before anybody else, and the server.
OwnInv ==
  \A d \in Devices, f \in Files :
    /\ docs[d][f] \subseteq docs[f[1]][f]
    /\ remote[f] \subseteq docs[f[1]][f]
    /\ lane[d].pc = "write" /\ f = Chosen(lane[d]) => lane[d].sent \subseteq docs[f[1]][f]

HeadInv ==
  /\ \A f \in Files : Headed(remote[f])
  /\ \A d \in Devices :
       /\ Headed(All(docs[d])) /\ \A f \in Files : Headed(docs[d][f])
       /\ lane[d].pc = "write" => Headed(lane[d].sent)
       /\ \A f \in DOMAIN pull[d].found : Headed(pull[d].found[f])

\* Whatever a device has a record of is a card, or the server has a record of it.
Known(i) == (\E c \in cards : c.id = i) \/ \E q \in All(remote) : q.card.id = i
KnownInv ==
  \A d \in Devices :
    /\ \A r \in All(docs[d]) : Known(r.card.id)
    /\ lane[d].pc = "stage" => Known(lane[d].card.id)

\* What was found is on the server, and what is sent behind a good read has it.
LEMMA SeenFacts ==
  ASSUME TrashInv, NEW d \in Devices
  PROVE  /\ \A f \in DOMAIN pull[d].found : f \in Files /\ pull[d].found[f] \subseteq remote[f]
         /\ lane[d].pc = "write" => /\ Chosen(lane[d]) \in Files
                                    /\ lane[d].sent \subseteq Records
                                    /\ lane[d].fileFresh => remote[Chosen(lane[d])] \subseteq lane[d].sent
<1>1. PullGood(pull[d], remote) /\ IsLane(lane[d]) /\ LaneGood(lane[d], docs[d], remote, cards)
  BY DEF TrashInv, PullInv, LaneInv
<1> QED
  BY <1>1 DEF PullGood, IsLane, LaneGood, Chosen

\* What a device merges was on the server.
LEMMA MergedOnly ==
  ASSUME TrashInv, NEW d \in Devices, Merged(d)
  PROVE  \E f \in Files : \E seen \in SUBSET remote[f] :
           /\ docs'[d] = [docs[d] EXCEPT ![f] = docs[d][f] \cup seen]
           /\ seen = remote[f] \/ (f \in DOMAIN pull[d].found /\ seen = pull[d].found[f])
BY SeenFacts DEF Merged

\* Files grow.
LEMMA DocsGrow ==
  ASSUME TrashInv, DocsStep, NEW d \in Devices
  PROVE  Grows(docs[d], docs'[d])
<1>1. docs[d] \in FilesType
  BY DEF TrashInv, DocsInv
<1>2. CASE Merged(d)
  <2>1. PICK f \in Files : \E seen \in SUBSET remote[f] :
           docs'[d] = [docs[d] EXCEPT ![f] = docs[d][f] \cup seen]
    BY <1>2, MergedOnly
  <2> QED
    BY <1>1, <2>1 DEF Grows, FilesType
<1>3. CASE Recorded(d)
  <2>1. PICK kind \in {"snapshot", "tombstone"}, r \in Records :
          docs'[d] = [docs[d] EXCEPT ![<<d, kind>>] = docs[d][<<d, kind>>] \cup {r}]
    BY <1>3 DEF Recorded
  <2> QED
    BY <1>1, <2>1 DEF Grows, FilesType
<1> QED
  BY <1>2, <1>3 DEF DocsStep, Grows

\* The files on the server grow, since a write is of a read that is still good.
LEMMA RemoteGrows ==
  ASSUME TrashInv, RemoteStep
  PROVE  Grows(remote, remote')
BY SeenFacts DEF RemoteStep, Grows

\* A device has its own files first, whoever merges or writes.
LEMMA OwnKept ==
  ASSUME TrashInv, Facts, OwnInv
  PROVE  OwnInv'
<1> SUFFICES ASSUME NEW d \in Devices, NEW f \in Files
             PROVE  /\ docs'[d][f] \subseteq docs'[f[1]][f]
                    /\ remote'[f] \subseteq docs'[f[1]][f]
                    /\ lane'[d].pc = "write" /\ f = Chosen(lane'[d])
                         => lane'[d].sent \subseteq docs'[f[1]][f]
  BY DEF OwnInv
<1>1. f[1] \in Devices /\ docs[f[1]][f] \subseteq docs'[f[1]][f]
  BY DocsGrow DEF Files, Facts, Grows
<1>2. docs[d] \in FilesType
  BY DEF TrashInv, DocsInv
<1>3. docs[d][f] \subseteq docs[f[1]][f] /\ remote[f] \subseteq docs[f[1]][f]
  BY DEF OwnInv
<1>4. docs'[d][f] \subseteq docs'[f[1]][f]
  <2>1. CASE docs'[d] = docs[d]
    BY <1>1, <1>3, <2>1
  <2>2. CASE Merged(d)
    <3>1. PICK g \in Files : \E seen \in SUBSET remote[g] :
             docs'[d] = [docs[d] EXCEPT ![g] = docs[d][g] \cup seen]
      BY <2>2, MergedOnly
    <3> QED
      BY <1>1, <1>2, <1>3, <3>1 DEF FilesType
  <2>3. CASE Recorded(d)
    <3>1. PICK kind \in {"snapshot", "tombstone"}, r \in Records :
            docs'[d] = [docs[d] EXCEPT ![<<d, kind>>] = docs[d][<<d, kind>>] \cup {r}]
      BY <2>3 DEF Recorded
    <3>2. CASE f = <<d, kind>>
      BY <3>2
    <3>3. CASE f # <<d, kind>>
      BY <1>1, <1>2, <1>3, <3>1, <3>3 DEF FilesType
    <3> QED
      BY <3>2, <3>3
  <2> QED
    BY <2>1, <2>2, <2>3 DEF Facts, DocsStep
<1>5. remote'[f] \subseteq docs'[f[1]][f]
  BY <1>1, <1>3 DEF Facts, RemoteStep, OwnInv
<1>6. ASSUME lane'[d].pc = "write", f = Chosen(lane'[d])
      PROVE  lane'[d].sent \subseteq docs'[f[1]][f]
  <2>1. CASE lane[d].pc = "write" /\ lane'[d].sent = lane[d].sent /\ lane'[d].todo = lane[d].todo
    <3>1. f = Chosen(lane[d])
      BY <1>6, <2>1 DEF Chosen
    <3> QED
      BY <1>1, <2>1, <3>1 DEF OwnInv
  <2> QED
    BY <1>4, <1>6, <2>1 DEF Facts, SentStep
<1> QED
  BY <1>4, <1>5, <1>6

\* Who wins is an order of the records, but for equals.
LEMMA WinsOrder ==
  ASSUME NEW r \in Records, NEW q \in Records, NEW t \in Records
  PROVE  /\ ~Wins(r, r)
         /\ Wins(q, r) => ~Wins(r, q)
         /\ ~Wins(t, q) /\ ~Wins(q, r) => ~Wins(t, r)
<1>1. \A x \in Records : /\ x.at \in Nat /\ Rank(x) \in {0, 1, 2}
                            /\ x.card.id \in Nat /\ x.card.ver \in Nat
  BY TrashAssumption DEF Records, Cards, Ids, Rank
<1> QED
  BY <1>1 DEF Wins

\* The latest of two sets is the latest of one of them.
LEMMA HeadedUnion ==
  ASSUME NEW S \in SUBSET Records, NEW T \in SUBSET Records, Headed(S), Headed(T)
  PROVE  Headed(S \cup T)
<1>1. CASE S = {} \/ T = {}
  <2>1. S \cup T = S \/ S \cup T = T
    BY <1>1
  <2> QED
    BY <2>1
<1>2. CASE S # {} /\ T # {}
  <2>1. PICK r \in S : \A q \in S : ~Wins(q, r)
    BY <1>2 DEF Headed
  <2>2. PICK t \in T : \A q \in T : ~Wins(q, t)
    BY <1>2 DEF Headed
  <2>3. CASE Wins(t, r)
    <3>1. \A q \in S : ~Wins(q, t)
      BY <2>1, <2>3, WinsOrder
    <3> QED
      BY <2>2, <3>1 DEF Headed
  <2>4. CASE ~Wins(t, r)
    <3>1. \A q \in T : ~Wins(q, r)
      BY <2>2, <2>4, WinsOrder
    <3> QED
      BY <2>1, <3>1 DEF Headed
  <2> QED
    BY <2>3, <2>4
<1> QED
  BY <1>1, <1>2

\* One record is the latest.
LEMMA HeadedOne == \A r \in Records : Headed({r})
BY WinsOrder DEF Headed

\* All the records when one file grows.
LEMMA AllGrows ==
  ASSUME NEW D \in FilesType, NEW f \in Files, NEW S
  PROVE  All([D EXCEPT ![f] = D[f] \cup S]) = All(D) \cup S
BY DEF All, FilesType

\* What counts is the latest of all.
LEMMA TopHead ==
  ASSUME NEW F \in FilesType, Headed(All(F))
  PROVE  /\ Top(F) = None <=> All(F) = {}
         /\ All(F) # {} => /\ Top(F) \in All(F)
                           /\ \A q \in All(F) : ~Wins(q, Top(F))
<1> DEFINE latest == {r \in All(F) : \A q \in All(F) : ~Wins(q, r)}
<1>1. Top(F) = IF latest = {} THEN None ELSE CHOOSE r \in latest : TRUE
  BY DEF Top
<1>2. All(F) # {} => latest # {}
  BY DEF Headed
<1>3. All(F) \subseteq Records /\ None \notin Records
  BY DEF All, FilesType, Records, None
<1>4. latest # {} => Top(F) \in latest
  BY <1>1
<1>5. latest \subseteq All(F) /\ \A r \in latest : \A q \in All(F) : ~Wins(q, r)
  OBVIOUS
<1> HIDE DEF latest
<1> QED
  BY <1>1, <1>2, <1>3, <1>4, <1>5

\* Every set of records that is read or written keeps a latest one.
LEMMA HeadKept ==
  ASSUME TrashInv, TrashInv', Facts, HeadInv
  PROVE  HeadInv'
<1>1. /\ \A d \in Devices : docs[d] \in FilesType
      /\ remote \in FilesType
  BY DEF TrashInv, DocsInv, ServerInv
<1>2. ASSUME NEW d \in Devices
      PROVE  Headed(All(docs'[d])) /\ \A f \in Files : Headed(docs'[d][f])
  <2>1. ASSUME NEW f \in Files, NEW S \in SUBSET Records, Headed(S),
               docs'[d] = [docs[d] EXCEPT ![f] = docs[d][f] \cup S]
        PROVE  Headed(All(docs'[d])) /\ \A g \in Files : Headed(docs'[d][g])
    <3>1. All(docs'[d]) = All(docs[d]) \cup S
      BY <1>1, <2>1, AllGrows
    <3>2. All(docs[d]) \in SUBSET Records /\ docs[d][f] \in SUBSET Records
      BY <1>1 DEF All, FilesType
    <3>3. Headed(All(docs[d])) /\ \A g \in Files : Headed(docs[d][g])
      BY DEF HeadInv
    <3>4. Headed(All(docs[d]) \cup S) /\ Headed(docs[d][f] \cup S)
      BY <2>1, <3>2, <3>3, HeadedUnion
    <3>5. \A g \in Files : docs'[d][g] = IF g = f THEN docs[d][f] \cup S ELSE docs[d][g]
      BY <1>1, <2>1 DEF FilesType
    <3> QED
      BY <3>1, <3>3, <3>4, <3>5
  <2>2. CASE docs'[d] = docs[d]
    BY <2>2 DEF HeadInv
  <2>3. CASE Merged(d)
    <3>1. PICK f \in Files : \E seen \in SUBSET remote[f] :
             /\ docs'[d] = [docs[d] EXCEPT ![f] = docs[d][f] \cup seen]
             /\ seen = remote[f] \/ (f \in DOMAIN pull[d].found /\ seen = pull[d].found[f])
      BY <2>3, MergedOnly
    <3>2. PICK seen \in SUBSET remote[f] :
             /\ docs'[d] = [docs[d] EXCEPT ![f] = docs[d][f] \cup seen]
             /\ seen = remote[f] \/ (f \in DOMAIN pull[d].found /\ seen = pull[d].found[f])
      BY <3>1
    <3>3. seen \in SUBSET Records /\ Headed(seen)
      BY <1>1, <3>2 DEF FilesType, HeadInv
    <3> QED
      BY <2>1, <3>2, <3>3
  <2>4. CASE Recorded(d)
    <3>1. PICK kind \in {"snapshot", "tombstone"}, r \in Records :
            docs'[d] = [docs[d] EXCEPT ![<<d, kind>>] = docs[d][<<d, kind>>] \cup {r}]
      BY <2>4 DEF Recorded
    <3>2. <<d, kind>> \in Files /\ {r} \in SUBSET Records /\ Headed({r})
      BY HeadedOne DEF Files
    <3> QED
      BY <2>1, <3>1, <3>2
  <2> QED
    BY <2>2, <2>3, <2>4 DEF Facts, DocsStep
<1>3. ASSUME NEW f \in Files PROVE Headed(remote'[f])
  BY DEF Facts, RemoteStep, HeadInv
<1>4. ASSUME NEW d \in Devices, lane'[d].pc = "write" PROVE Headed(lane'[d].sent)
  <2>1. CASE lane[d].pc = "write" /\ lane'[d].sent = lane[d].sent
    BY <2>1 DEF HeadInv
  <2>2. IsLane(lane'[d]) /\ LaneGood(lane'[d], docs'[d], remote', cards')
    BY DEF TrashInv, LaneInv
  <2>3. Chosen(lane'[d]) \in Files
    BY <1>4, <2>2 DEF IsLane, LaneGood, Chosen
  <2>4. CASE lane'[d].sent = docs'[d][Chosen(lane'[d])]
    BY <1>2, <2>3, <2>4
  <2> QED
    BY <1>4, <2>1, <2>4 DEF Facts, SentStep
<1>5. ASSUME NEW d \in Devices, NEW f \in DOMAIN pull'[d].found
      PROVE  Headed(pull'[d].found[f])
  <2>1. PullGood(pull'[d], remote')
    BY DEF TrashInv, PullInv
  <2>2. f \in Files
    BY <1>5, <2>1 DEF PullGood
  <2> QED
    BY <1>5, <2>2 DEF Facts, FoundStep, HeadInv
<1> QED
  BY <1>2, <1>3, <1>4, <1>5 DEF HeadInv

\* What is known stays known: a card that goes leaves its snapshot on the server.
LEMMA KnownStays ==
  ASSUME TrashInv, Facts, NEW i, Known(i)
  PROVE  (\E c \in cards' : c.id = i) \/ \E q \in All(remote') : q.card.id = i
<1>1. All(remote) \subseteq All(remote')
  BY RemoteGrows DEF Facts, All, Grows
<1>2. CASE \E c \in cards : c.id = i
  BY <1>1, <1>2 DEF Known, Facts, CardsStep
<1> QED
  BY <1>1, <1>2 DEF Known

\* A record is about a card there is or was, whoever records or merges it.
LEMMA KnownKept ==
  ASSUME TrashInv, Facts, KnownInv, HeadInv
  PROVE  KnownInv'
<1>1. /\ \A d \in Devices : docs[d] \in FilesType
      /\ remote \in FilesType
  BY DEF TrashInv, DocsInv, ServerInv
<1>2. ASSUME NEW d \in Devices, NEW r \in All(docs'[d]) 
      PROVE  (\E c \in cards' : c.id = r.card.id) \/ (\E q \in All(remote') : q.card.id = r.card.id)
  <2>1. Known(r.card.id)
    <3>1. CASE r \in All(docs[d])
      BY <3>1 DEF KnownInv
    <3>2. CASE Merged(d) /\ r \notin All(docs[d])
      <4>1. PICK f \in Files : \E seen \in SUBSET remote[f] :
               docs'[d] = [docs[d] EXCEPT ![f] = docs[d][f] \cup seen]
        BY <3>2, MergedOnly
      <4>2. PICK seen \in SUBSET remote[f] :
               docs'[d] = [docs[d] EXCEPT ![f] = docs[d][f] \cup seen]
        BY <4>1
      <4>3. All(docs'[d]) = All(docs[d]) \cup seen
        BY <1>1, <4>2, AllGrows
      <4> QED
        BY <1>2, <3>2, <4>3 DEF Known, All
    <3>3. CASE Recorded(d) /\ r \notin All(docs[d])
      <4>1. PICK kind \in {"snapshot", "tombstone"}, q \in Records :
              /\ docs'[d] = [docs[d] EXCEPT ![<<d, kind>>] = docs[d][<<d, kind>>] \cup {q}]
              /\ About(d, q)
        BY <3>3 DEF Recorded
      <4> DEFINE f == <<d, kind>>
      <4>2. f \in Files /\ docs'[d] = [docs[d] EXCEPT ![f] = docs[d][f] \cup {q}]
        BY <4>1 DEF Files
      <4> HIDE DEF f
      <4>3. All(docs'[d]) = All(docs[d]) \cup {q}
        <5>1. docs[d] \in FilesType
          BY <1>1
        <5>2. All([docs[d] EXCEPT ![f] = docs[d][f] \cup {q}]) = All(docs[d]) \cup {q}
          BY <4>2, <5>1, AllGrows
        <5> QED
          BY <4>2, <5>2
      <4>4. r = q
        BY <1>2, <3>3, <4>3
      <4>5. CASE Active(Top(docs[d])) /\ q.card = Top(docs[d]).card
        <5>1. Top(docs[d]) \in All(docs[d])
          BY <1>1, <4>5, ActiveIsRecord DEF All
        <5> QED
          BY <4>4, <4>5, <5>1 DEF KnownInv
      <4>6. CASE lane[d].pc = "stage" /\ q.card = lane[d].card
        BY <4>4, <4>6 DEF KnownInv
      <4> QED
        BY <4>1, <4>5, <4>6 DEF About
    <3> QED
      BY <1>2, <3>1, <3>2, <3>3 DEF Facts, DocsStep
  <2> QED
    BY <2>1, KnownStays
<1>3. ASSUME NEW d \in Devices, lane'[d].pc = "stage" 
      PROVE  \/ \E c \in cards' : c.id = lane'[d].card.id
             \/ \E q \in All(remote') : q.card.id = lane'[d].card.id
  <2>1. Known(lane'[d].card.id)
    <3>1. CASE lane[d].pc = "stage" /\ lane'[d].card = lane[d].card
      BY <3>1 DEF KnownInv
    <3>2. CASE lane'[d].card \in cards
      BY <3>2 DEF Known
    <3> QED
      BY <1>3, <3>1, <3>2 DEF Facts, PickStep
  <2> QED
    BY <2>1, KnownStays
<1> QED
  BY <1>2, <1>3 DEF KnownInv, Known

\* A card that is gone does not come again: a new one has a new id.
LEMMA GoneStays ==
  ASSUME TrashInv, Facts, KnownInv, NEW d \in Devices, docs'[d] = docs[d], CardGone(d)
  PROVE  CardGone(d)'
<1> DEFINE top == Top(docs[d])
<1>1. Active(top) /\ top \in All(docs[d])
  BY ActiveIsRecord DEF CardGone, TrashInv, DocsInv, All
<1>2. Known(top.card.id) /\ \A c \in cards : c.id # top.card.id
  BY <1>1 DEF KnownInv, CardGone
<1>3. \E q \in All(remote) : q.card.id = top.card.id
  BY <1>2 DEF Known
<1>4. \A c \in cards' : c.id # top.card.id
  BY <1>2, <1>3 DEF Facts, CardsStep
<1> QED
  BY <1>1, <1>4 DEF CardGone

(***************************************************************************)
(* What is owed: a device with a dirty file has a push to come.            *)
(***************************************************************************)
IdleInv == \A d \in Devices : pull[d].pc = "idle" => DOMAIN pull[d].found = {}

\* Nothing is due that would queue a push of all that is dirty.
Quiet(d) ==
  /\ "push" \notin Range(rows[d])
  /\ pull[d] = NoPull /\ ready[d]
  /\ "refused" \notin givenUp

\* A row that pushes has all the dirty files before it.
Covered(d) == lane[d].pc \in Pushing => dirty[d] \subseteq lane[d].todo

\* What is dirty is the snapshot of the card that a delete row is for, or one that
\* is gone.
Own(d) == <<d, "snapshot">>
Staged(d) ==
  LET top == Top(docs[d]) IN
  /\ dirty[d] = {Own(d)} /\ Active(top) /\ top \in docs[d][Own(d)]
  /\ CardGone(d) \/ (top.card.id = target[d] /\ HasRow(d, "delete"))

Owed(d) ==
  Quiet(d) => Covered(d) /\ (lane[d].kind = "push" \/ dirty[d] = {} \/ Staged(d))

UploadInv ==
  OwnInv /\ HeadInv /\ KnownInv /\ RowInv /\ IdleInv /\ \A d \in Devices : Owed(d)

\* The other devices are owed what they were.
LEMMA OwedOther ==
  ASSUME TrashInv, Facts, KnownInv, NEW e \in Devices, Apart(e), givenUp \subseteq givenUp',
         Owed(e)
  PROVE  Owed(e)'
<1>1. /\ lane'[e].kind = lane[e].kind /\ lane'[e].pc = lane[e].pc
      /\ lane'[e].todo = lane[e].todo
      /\ rows'[e] = rows[e] /\ target'[e] = target[e] /\ ready'[e] = ready[e]
      /\ docs'[e] = docs[e] /\ dirty'[e] = dirty[e] /\ pull'[e] = pull[e]
  BY DEF Apart, Alike
<1>2. CardGone(e) => CardGone(e)'
  BY <1>1, GoneStays
<1>3. Quiet(e)' => Quiet(e)
  BY <1>1 DEF Quiet
<1>4. Staged(e) => Staged(e)'
  <2>1. HasRow(e, "delete") => HasRow(e, "delete")'
    BY <1>1 DEF HasRow
  <2> QED
    BY <1>1, <1>2, <2>1 DEF Staged, Own
<1>5. Covered(e) => Covered(e)'
  BY <1>1 DEF Covered
<1> QED
  BY <1>1, <1>3, <1>4, <1>5 DEF Owed

\* A device is owed what it was, if its files and its delete are what they were.
LEMMA OwedSame ==
  ASSUME TrashInv, Facts, KnownInv, NEW d \in Devices, Owed(d),
         Quiet(d)' =>
           /\ lane'[d].pc \in Pushing => dirty'[d] \subseteq lane'[d].todo
           /\ \/ lane'[d].kind = "push" \/ dirty'[d] = {}
              \/ /\ Quiet(d) /\ lane[d].kind # "push"
                 /\ docs'[d] = docs[d] /\ dirty'[d] = dirty[d]
                 /\ HasRow(d, "delete") =>
                      \/ CardGone(d)
                      \/ /\ target'[d] = target[d]
                         /\ "delete" \in Range(rows'[d]) \cup {lane'[d].kind}
  PROVE  Owed(d)'
<1> SUFFICES ASSUME Quiet(d)' PROVE Covered(d)' /\ (lane'[d].kind = "push" \/ dirty'[d] = {} \/ Staged(d)')
  BY DEF Owed
<1>1. Covered(d)'
  BY DEF Covered
<1>2. CASE /\ Quiet(d) /\ lane[d].kind # "push" /\ dirty'[d] # {}
           /\ docs'[d] = docs[d] /\ dirty'[d] = dirty[d]
           /\ HasRow(d, "delete") =>
                \/ CardGone(d)
                \/ /\ target'[d] = target[d]
                   /\ "delete" \in Range(rows'[d]) \cup {lane'[d].kind}
  <2>1. Staged(d)
    BY <1>2 DEF Owed
  <2>2. CardGone(d) => CardGone(d)'
    BY <1>2, GoneStays
  <2>3. "delete" \in Range(rows'[d]) \cup {lane'[d].kind} => HasRow(d, "delete")'
    BY DEF HasRow
  <2>4. Staged(d)'
    BY <1>2, <2>1, <2>2, <2>3 DEF Staged, Own
  <2> QED
    BY <1>1, <2>4
<1> QED
  BY <1>1, <1>2

\* A row goes on with the files it had to push, or with none that is dirty.
LEMMA OwedMove ==
  ASSUME TrashInv, Facts, KnownInv, NEW d \in Devices, Owed(d),
         docs'[d] = docs[d], dirty'[d] = dirty[d], target'[d] = target[d],
         rows'[d] = rows[d], pull'[d] = pull[d], ready'[d] = ready[d],
         givenUp \subseteq givenUp', lane'[d].kind = lane[d].kind,
         lane'[d].pc \in Pushing => /\ lane[d].pc \in Pushing
                                    /\ lane[d].todo \cap dirty[d] \subseteq lane'[d].todo
  PROVE  Owed(d)'
<1>1. Quiet(d)' => Quiet(d)
  BY DEF Quiet
<1>2. Quiet(d) => Covered(d)
  BY DEF Owed
<1>3. "delete" \in Range(rows[d]) \cup {lane[d].kind} <=> HasRow(d, "delete")
  BY DEF HasRow
<1> QED
  BY <1>1, <1>2, <1>3, OwedSame DEF Covered

\* A row is put back.
LEMMA OwedRetry ==
  ASSUME TrashInv, Facts, KnownInv, NEW d \in Devices, Owed(d),
         docs'[d] = docs[d], dirty'[d] = dirty[d], target'[d] = target[d],
         Range(rows[d]) \subseteq Range(rows'[d]), lane[d].kind \in Range(rows'[d]),
         pull'[d] = pull[d], ready'[d] = ready[d],
         givenUp \subseteq givenUp', lane'[d] = NoLane
  PROVE  Owed(d)'
<1>1. Quiet(d)' => Quiet(d) /\ lane[d].kind # "push"
  BY DEF Quiet
<1>2. lane'[d].pc \notin Pushing
  BY NoLanePc DEF Pushing
<1>3. HasRow(d, "delete") => "delete" \in Range(rows'[d]) \cup {lane'[d].kind}
  BY DEF HasRow
<1> QED
  BY <1>1, <1>2, <1>3, OwedSame

\* Nothing is dirty, or more is due than before.
LEMMA OwedClear ==
  ASSUME NEW d \in Devices, Quiet(d)' => dirty'[d] = {}
  PROVE  Owed(d)'
BY DEF Owed, Covered

\* Only a refresh that runs finds any file.
LEMMA IdleKept ==
  ASSUME Facts, IdleInv
  PROVE  IdleInv'
BY DEF Facts, FoundStep, IdleInv

(***************************************************************************)
(* The steps, one by one: the rows are kept, the other devices are left    *)
(* alone, and the device is owed what it was.                              *)
(***************************************************************************)
Kept(d) == RowInv' /\ (\A e \in Devices \ {d} : Apart(e)) /\ Owed(d)'

\* What every step may use.
LEMMA OweFacts ==
  ASSUME TrashInv, UploadInv, NEW d \in Devices
  PROVE  /\ RowInv /\ KnownInv /\ HeadInv /\ OwnInv /\ Owed(d)
         /\ IsLane(lane[d]) /\ LanePc(lane[d], target[d])
         /\ rows[d] \in Seq(AnyKind) /\ lane[d].kind \in AnyKind
BY PcFacts DEF UploadInv, RowInv, LanePc

\* A request queues its row; a delete that names another card has none before it.
LEMMA AskKept ==
  ASSUME TrashInv, UploadInv, Facts, NEW d \in Devices, NEW kind \in Kinds, Ask(d, kind)
  PROVE  Kept(d)
<1>1. /\ rows' = [rows EXCEPT ![d] = Append(rows[d], kind)]
      /\ lane' = lane /\ pull' = pull /\ ready' = ready /\ docs' = docs /\ dirty' = dirty
      /\ kind \notin Range(rows[d]) /\ lane[d].kind # kind /\ givenUp \subseteq givenUp'
      /\ UNCHANGED target \/ (kind = "delete" /\ \E c \in cards : target' = [target EXCEPT ![d] = c.id])
  BY DEF Ask, docVars, frameVars
<1>2. /\ RowInv /\ Owed(d) /\ KnownInv /\ rows[d] \in Seq(AnyKind) /\ LanePc(lane[d], target[d])
  BY OweFacts
<1>3. rows \in [Devices -> Seq(AnyKind)] /\ target \in [Devices -> Ids] /\ ready \in [Devices -> BOOLEAN]
  BY <1>2 DEF RowInv
<1>4. /\ Append(rows[d], kind) \in Seq(AnyKind)
      /\ Range(Append(rows[d], kind)) = Range(rows[d]) \cup {kind}
  BY <1>2, AppendKeeps DEF AnyKind
<1>5. rows' \in [Devices -> Seq(AnyKind)] /\ rows'[d] = Append(rows[d], kind)
      /\ \A e \in Devices \ {d} : rows'[e] = rows[e]
  BY <1>1, <1>3, <1>4
<1>6. /\ target' \in [Devices -> Ids] /\ \A e \in Devices \ {d} : target'[e] = target[e]
      /\ target'[d] = target[d] \/ kind = "delete"
  <2>1. \A c \in cards : c.id \in Ids
    BY DEF TrashInv, ServerInv, Cards
  <2> QED
    BY <1>1, <1>3, <2>1
<1>7. \A e \in Devices \ {d} : Apart(e)
  BY <1>1, <1>5, <1>6 DEF Apart, Alike
<1>8. LanePc(lane'[d], target'[d])
  BY <1>1, <1>2, <1>6 DEF LanePc
<1>9. RowInv'
  BY <1>1, <1>2, <1>3, <1>5, <1>6, <1>7, <1>8, OneDevice
<1>10. Quiet(d)' => Quiet(d)
  BY <1>1, <1>4, <1>5 DEF Quiet
<1>11. HasRow(d, "delete") => target'[d] = target[d] /\ "delete" \in Range(rows'[d]) \cup {lane'[d].kind}
  BY <1>1, <1>4, <1>5, <1>6 DEF HasRow
<1>12. Quiet(d) => Covered(d)
  BY <1>2 DEF Owed
<1>13. Owed(d)'
  BY <1>1, <1>2, <1>10, <1>11, <1>12, OwedSame DEF Covered
<1> QED
  BY <1>7, <1>9, <1>13 DEF Kept

\* A refresh that runs is more than none.
LEMMA RefreshDue ==
  ASSUME TrashInv, RowInv, NEW d \in Devices, Refresh(d) \/ Discover(d)
  PROVE  pull'[d] # NoPull
BY PullSet DEF NoPull

\* The trash is no longer known to be current, or a refresh runs.
LEMMA QuietKept ==
  ASSUME TrashInv, UploadInv, Facts, NEW d \in Devices,
         Receive(d) \/ Handle(d) \/ FrameLost(d) \/ PullFails(d)
  PROVE  Kept(d)
<1>0. RowInv /\ LanePc(lane[d], target[d])
  BY OweFacts
<1>1. UNCHANGED <<docs, dirty>>
  BY DEF Receive, Handle, FrameLost, PullFails, docVars
<1>2. /\ UNCHANGED pull \/ Refresh(d) \/ (\E p : pull' = [pull EXCEPT ![d] = p])
      /\ UNCHANGED ready \/ (\E b \in BOOLEAN : ready' = [ready EXCEPT ![d] = b])
  BY DEF Receive, Handle, FrameLost, PullFails
<1>3. (UNCHANGED lane /\ UNCHANGED <<rows, target>>) \/ Retry(lane, d)
  BY DEF Receive, Handle, FrameLost, PullFails, rowVars
<1>4. PICK l : lane' = [lane EXCEPT ![d] = l] /\ LanePc(l, target[d])
  BY <1>0, <1>3, LaneForms, PcFacts
<1>5. RowInv' /\ (\A e \in Devices \ {d} : Apart(e))
  BY <1>0, <1>1, <1>2, <1>3, <1>4, PlainStep
<1>6. ~Quiet(d)'
  <2>1. CASE Handle(d)
    BY <1>0, <2>1, RefreshDue DEF Handle, Quiet
  <2>2. CASE ready' = [ready EXCEPT ![d] = FALSE]
    BY <1>0, <2>2, PullSet DEF Quiet
  <2> QED
    BY <2>1, <2>2 DEF Receive, FrameLost, PullFails
<1> QED
  BY <1>5, <1>6, OwedClear DEF Kept

\* A row is taken out of the queue.
LEMMA BeginKept ==
  ASSUME TrashInv, UploadInv, Facts, NEW d \in Devices, Begin(d)
  PROVE  Kept(d)
<1>1. /\ RowInv /\ Owed(d) /\ KnownInv /\ rows[d] \in Seq(AnyKind) /\ LanePc(lane[d], target[d])
  BY OweFacts
<1>2. PICK i \in 1..Len(rows[d]) : LET kind == rows[d][i] IN
       /\ rows' = [rows EXCEPT ![d] = Drop(@, kind)]
       /\ lane' = [lane EXCEPT ![d] = [NoLane EXCEPT !.kind = kind,
                     !.pc = IF Open(d, kind) THEN "start" ELSE "gate"]]
       /\ IF Open(d, kind) THEN UNCHANGED pull ELSE Refresh(d)
  BY DEF Begin
<1>3. /\ lane[d] = NoLane /\ UNCHANGED <<docs, dirty>> /\ target' = target /\ ready' = ready
      /\ givenUp' = givenUp
  BY DEF Begin, docVars, frameVars, countVars
<1> DEFINE kind == rows[d][i]
           q == Drop(rows[d], kind)
           l == [NoLane EXCEPT !.kind = kind, !.pc = IF Open(d, kind) THEN "start" ELSE "gate"]
<1>4. kind \in AnyKind /\ kind \in Range(rows[d])
  BY <1>1 DEF Range
<1>5. q \in Seq(AnyKind) /\ \A x \in Range(rows[d]) : x # kind => x \in Range(q)
  BY <1>1, DropKeeps
<1>6. /\ l.kind = kind /\ l.pc \in {"start", "gate"} /\ l.destroys = FALSE
      /\ Open(d, kind) => l.pc = "start"
  BY DEF NoLane
<1>7. rows' = [rows EXCEPT ![d] = q] /\ lane' = [lane EXCEPT ![d] = l]
  BY <1>2
<1>8. IF Open(d, kind) THEN UNCHANGED pull ELSE Refresh(d)
  BY <1>2
<1>9. kind = "push" => Open(d, kind)
  BY DEF Open, Gated
<1> HIDE DEF kind, q, l
<1>10. LanePc(l, target[d])
  BY <1>4, <1>6, <1>9 DEF LanePc, Pushing
<1>11. rows \in [Devices -> Seq(AnyKind)] /\ target \in [Devices -> Ids] /\ ready \in [Devices -> BOOLEAN]
  BY <1>1 DEF RowInv
<1>12. rows' \in [Devices -> Seq(AnyKind)] /\ rows'[d] = q
      /\ \A e \in Devices \ {d} : rows'[e] = rows[e]
  BY <1>5, <1>7, <1>11
<1>13. lane'[d] = l /\ \A e \in Devices \ {d} : Alike(lane[e], lane'[e])
  BY <1>7, LaneSet
<1>14. \A e \in Devices \ {d} : pull'[e] = pull[e]
  BY <1>1, <1>8, PullSet
<1>15. \A e \in Devices \ {d} : Apart(e)
  BY <1>3, <1>12, <1>13, <1>14 DEF Apart
<1>16. RowInv'
  BY <1>1, <1>3, <1>10, <1>11, <1>12, <1>13, <1>15, OneDevice
<1>17. CASE ~Open(d, kind)
  <2>1. ~Quiet(d)'
    BY <1>1, <1>8, <1>17, RefreshDue DEF Quiet
  <2> QED
    BY <1>15, <1>16, <2>1, OwedClear DEF Kept
<1>18. CASE Open(d, kind)
  <2>1. Quiet(d)' => kind = "push" \/ Quiet(d)
    BY <1>3, <1>5, <1>8, <1>12, <1>18 DEF Quiet
  <2>2. lane'[d].pc \notin Pushing
    BY <1>6, <1>13 DEF Pushing
  <2>3. lane[d].kind = "none"
    BY <1>3, NoLanePc
  <2>4. HasRow(d, "delete") => "delete" \in Range(rows'[d]) \cup {lane'[d].kind}
    BY <1>5, <1>6, <1>12, <1>13, <2>3 DEF HasRow
  <2>5. Owed(d)'
    BY <1>1, <1>3, <1>6, <1>13, <2>1, <2>2, <2>3, <2>4, OwedSame
  <2> QED
    BY <1>15, <1>16, <2>5 DEF Kept
<1> QED
  BY <1>17, <1>18

\* A worker dies, and its row is put back.
LEMMA DeathKept ==
  ASSUME TrashInv, UploadInv, Facts, NEW d \in Devices, WorkerDies(d)
  PROVE  Kept(d)
<1>1. /\ RowInv /\ Owed(d) /\ KnownInv /\ rows[d] \in Seq(AnyKind) /\ lane[d].kind \in AnyKind
  BY OweFacts
<1>2. /\ UNCHANGED <<docs, dirty>> /\ target' = target /\ ready' = [ready EXCEPT ![d] = FALSE]
      /\ lane' = [lane EXCEPT ![d] = NoLane] /\ Discover(d)
      /\ IF lane[d] = NoLane THEN UNCHANGED rows ELSE PutBack(d)
  BY DEF WorkerDies, docVars, Finish
<1>3. rows \in [Devices -> Seq(AnyKind)] /\ target \in [Devices -> Ids]
  BY <1>1 DEF RowInv
<1>4. rows' \in [Devices -> Seq(AnyKind)] /\ \A e \in Devices \ {d} : rows'[e] = rows[e]
  <2> DEFINE q == <<lane[d].kind>> \o Drop(rows[d], lane[d].kind)
  <2>1. PutBack(d) => rows' = [rows EXCEPT ![d] = q]
    BY DEF PutBack
  <2>2. q \in Seq(AnyKind)
    BY <1>1, PutBackKeeps
  <2> HIDE DEF q
  <2> QED
    BY <1>2, <1>3, <2>1, <2>2
<1>5. lane'[d] = NoLane /\ \A e \in Devices \ {d} : Alike(lane[e], lane'[e])
  BY <1>2, LaneSet
<1>6. /\ \A e \in Devices \ {d} : pull'[e] = pull[e] /\ ready'[e] = ready[e]
      /\ ready' \in [Devices -> BOOLEAN] /\ ~ready'[d]
  BY <1>1, <1>2, PullSet
<1>7. \A e \in Devices \ {d} : Apart(e)
  BY <1>2, <1>4, <1>5, <1>6 DEF Apart
<1>8. LanePc(lane'[d], target'[d])
  BY <1>1, <1>5, PcFacts
<1>9. RowInv'
  BY <1>1, <1>2, <1>3, <1>4, <1>6, <1>7, <1>8, OneDevice
<1>10. Owed(d)'
  BY <1>6, OwedClear DEF Quiet
<1> QED
  BY <1>7, <1>9, <1>10 DEF Kept

\* A refresh goes on, or ends and queues what is dirty.
LEMMA PullKept ==
  ASSUME TrashInv, UploadInv, Facts, NEW d \in Devices, PullFile(d) \/ PullEnds(d)
  PROVE  Kept(d)
<1>1. /\ RowInv /\ LanePc(lane[d], target[d]) /\ IsLane(lane[d])
      /\ pull = [e \in Devices |-> pull[e]] /\ PullGood(pull[d], remote)
  BY OweFacts DEF TrashInv, PullInv
<1>2. CASE PullFile(d)
  <2> DEFINE p == [pull[d] EXCEPT !.found = Restrict(pull[d].found,
                     Unread(d) \ {CHOOSE f \in Unread(d) : TRUE})]
  <2>1. /\ \E f, seen : MergeFile(d, f, seen)
        /\ pull' = [pull EXCEPT ![d] = p]
        /\ UNCHANGED <<rows, target>> /\ UNCHANGED lane /\ UNCHANGED ready
    BY <1>2 DEF PullFile, rowVars, frameVars
  <2>2. p.pc = pull[d].pc
    BY <1>1 DEF PullGood
  <2> HIDE DEF p
  <2>3. lane' = [lane EXCEPT ![d] = lane[d]]
    BY <2>1, LaneForms
  <2>4. RowInv' /\ (\A e \in Devices \ {d} : Apart(e))
    BY <1>1, <2>1, <2>3, PlainStep
  <2>5. pull[d].pc # "idle"
    BY <1>2 DEF PullFile, Unread, UploadInv, IdleInv
  <2>6. pull'[d] # NoPull
    BY <1>1, <2>1, <2>2, <2>5 DEF NoPull
  <2> QED
    BY <2>4, <2>6, OwedClear DEF Kept, Quiet
<1>3. CASE PullEnds(d)
  <2>1. /\ pull' = [pull EXCEPT ![d] = NoPull] /\ ready' = [ready EXCEPT ![d] = TRUE]
        /\ Passed(d) /\ Repair(d, dirty'[d])
        /\ UNCHANGED <<docs, dirty>> \/ \E kind, r : AppendRecord(d, kind, r)
    BY <1>3 DEF PullEnds
  <2>2. PICK l : lane' = [lane EXCEPT ![d] = l] /\ LanePc(l, target[d])
    <3> DEFINE l == IF lane[d].pc = "gate" THEN [lane[d] EXCEPT !.pc = "start"] ELSE lane[d]
    <3>1. lane' = [lane EXCEPT ![d] = l]
      BY <2>1, LaneForms
    <3>2. LanePc(l, target[d])
      BY <1>1 DEF IsLane, LanePc, Pushing
    <3> HIDE DEF l
    <3> QED
      BY <3>1, <3>2
  <2>3. UNCHANGED <<rows, target>> \/ EnsurePush(d)
    BY <2>1 DEF Repair, rowVars
  <2>4. /\ RowInv' /\ (\A e \in Devices \ {d} : Apart(e))
        /\ EnsurePush(d) => "push" \in Range(rows'[d])
    BY <1>1, <2>1, <2>2, <2>3, PlainStep
  <2>5. Quiet(d)' => dirty'[d] = {}
    BY <2>1, <2>4 DEF Repair, Quiet
  <2> QED
    BY <2>4, <2>5, OwedClear DEF Kept
<1> QED
  BY <1>2, <1>3

\* A file is read, and merged unless it is clean.  What is dirty beside a row that is
\* no push is a file of the device's own, which the server has nothing of that the
\* device has not.
LEMMA PushReadKept ==
  ASSUME TrashInv, UploadInv, Facts, NEW d \in Devices, PushRead(d)
  PROVE  Kept(d)
<1> DEFINE f == File(d)
<1>1. /\ RowInv /\ KnownInv /\ OwnInv /\ Owed(d) /\ LanePc(lane[d], target[d]) /\ IsLane(lane[d])
  BY OweFacts
<1>2. /\ lane[d].pc = "push" /\ f \in lane[d].todo /\ f \in Files
      /\ UNCHANGED <<rows, target>> /\ UNCHANGED pull /\ UNCHANGED ready /\ givenUp' = givenUp
      /\ rows' = rows /\ target' = target
  BY <1>1 DEF PushRead, File, IsLane, rowVars, frameVars, countVars
<1>3. /\ docs \in [Devices -> FilesType] /\ dirty \in [Devices -> SUBSET Files]
  BY DEF TrashInv, DocsInv
<1>4. CASE f \in dirty[d]
  <2> DEFINE l == [lane[d] EXCEPT !.pc = "write", !.fileFresh = TRUE, !.sent = docs'[d][f]]
  <2>1. MergeFile(d, f, remote[f]) /\ lane' = [lane EXCEPT ![d] = l]
    BY <1>4 DEF PushRead
  <2>2. /\ l.pc = "write" /\ l.kind = lane[d].kind /\ l.todo = lane[d].todo
        /\ l.destroys = lane[d].destroys
    BY <1>1 DEF IsLane
  <2> HIDE DEF l
  <2>3. LanePc(l, target[d])
    BY <1>1, <1>2, <2>2 DEF LanePc, Pushing
  <2>4. \E g, seen : MergeFile(d, g, seen)
    BY <2>1
  <2>5. RowInv' /\ (\A e \in Devices \ {d} : Apart(e)) /\ lane'[d] = l
    BY <1>1, <1>2, <2>1, <2>3, <2>4, PlainStep
  <2>6. dirty[d] \subseteq dirty'[d] /\ dirty'[d] \subseteq dirty[d] \cup {f}
    BY <1>3, <2>1 DEF MergeFile
  <2>7. Quiet(d)' => Quiet(d) /\ Covered(d)
    BY <1>1, <1>2 DEF Quiet, Owed
  <2>8. Quiet(d)' => (lane'[d].pc \in Pushing => dirty'[d] \subseteq lane'[d].todo)
    BY <1>2, <2>2, <2>5, <2>6, <2>7 DEF Covered, Pushing
  <2>9. ASSUME Quiet(d), lane[d].kind # "push" PROVE docs'[d] = docs[d]
    <3>1. f = Own(d)
      BY <1>1, <1>4, <2>9 DEF Owed, Staged
    <3>2. remote[f] \subseteq docs[d][f]
      BY <1>1, <1>2, <3>1 DEF OwnInv, Own
    <3>3. docs[d] = [docs[d] EXCEPT ![f] = docs[d][f] \cup remote[f]]
      BY <1>3, <3>2 DEF FilesType
    <3> QED
      BY <1>3, <2>1, <3>3 DEF MergeFile
  <2>10. dirty'[d] = dirty[d]
    BY <1>4, <2>6
  <2>11. HasRow(d, "delete") => "delete" \in Range(rows'[d]) \cup {lane'[d].kind}
    BY <1>2, <2>2, <2>5 DEF HasRow
  <2>12. Owed(d)'
    BY <1>1, <1>2, <2>2, <2>5, <2>7, <2>8, <2>9, <2>10, <2>11, OwedSame
  <2> QED
    BY <2>5, <2>12 DEF Kept
<1>5. CASE f \notin dirty[d]
  <2> DEFINE l == [lane[d] EXCEPT !.todo = lane[d].todo \ {f}]
  <2>1. lane' = [lane EXCEPT ![d] = l] /\ UNCHANGED <<docs, dirty>>
    BY <1>5 DEF PushRead
  <2>2. /\ l.pc = "push" /\ l.kind = lane[d].kind /\ l.todo = lane[d].todo \ {f}
        /\ l.destroys = lane[d].destroys
    BY <1>1, <1>2 DEF IsLane
  <2> HIDE DEF l
  <2>3. LanePc(l, target[d])
    BY <1>1, <1>2, <2>2 DEF LanePc, Pushing
  <2>4. RowInv' /\ (\A e \in Devices \ {d} : Apart(e)) /\ lane'[d] = l
    BY <1>1, <1>2, <2>1, <2>3, PlainStep
  <2>5. lane[d].pc \in Pushing /\ lane[d].todo \cap dirty[d] \subseteq lane'[d].todo
    BY <1>2, <1>5, <2>2, <2>4 DEF Pushing
  <2>6. Owed(d)'
    BY <1>1, <1>2, <2>1, <2>2, <2>4, <2>5, OwedMove
  <2> QED
    BY <2>4, <2>6 DEF Kept
<1> QED
  BY <1>4, <1>5

\* A row is retried.
LEMMA RetryKept ==
  ASSUME TrashInv, UploadInv, Facts, NEW d \in Devices,
         Retry(lane, d) \/ Retry(NoFileFresh, d) \/ Retry(NoCardFresh, d),
         UNCHANGED <<docs, dirty>>, UNCHANGED pull, UNCHANGED ready, givenUp \subseteq givenUp'
  PROVE  Kept(d)
<1>1. /\ RowInv /\ KnownInv /\ Owed(d)
  BY OweFacts
<1>2. \/ lane' = [lane EXCEPT ![d] = NoLane]
      \/ lane' = [NoFileFresh EXCEPT ![d] = NoLane]
      \/ lane' = [NoCardFresh EXCEPT ![d] = NoLane]
  BY LaneForms
<1>3. LanePc(NoLane, target[d])
  BY <1>1, PcFacts
<1>4. /\ RowInv' /\ (\A e \in Devices \ {d} : Apart(e)) /\ lane'[d] = NoLane
      /\ Range(rows[d]) \subseteq Range(rows'[d]) /\ UNCHANGED target
      /\ lane[d].kind \in Range(rows'[d])
  BY <1>1, <1>2, <1>3, PlainStep
<1>5. Owed(d)'
  BY <1>1, <1>4, OwedRetry
<1> QED
  BY <1>4, <1>5 DEF Kept

\* A row goes on with the files it had to push.
LEMMA MoveKept ==
  ASSUME TrashInv, UploadInv, Facts, NEW d \in Devices, NEW l,
         \/ lane' = [lane EXCEPT ![d] = l]
         \/ lane' = [NoFileFresh EXCEPT ![d] = l]
         \/ lane' = [NoCardFresh EXCEPT ![d] = l],
         LanePc(l, target[d]), l.kind = lane[d].kind,
         l.pc \in Pushing => lane[d].pc \in Pushing /\ lane[d].todo \cap dirty[d] \subseteq l.todo,
         UNCHANGED <<rows, target>>, UNCHANGED <<docs, dirty>>, UNCHANGED pull, UNCHANGED ready,
         givenUp \subseteq givenUp'
  PROVE  Kept(d)
<1>1. /\ RowInv /\ KnownInv /\ Owed(d)
  BY OweFacts
<1>2. RowInv' /\ (\A e \in Devices \ {d} : Apart(e)) /\ lane'[d] = l
  BY <1>1, PlainStep
<1>3. Owed(d)'
  BY <1>1, <1>2, OwedMove
<1> QED
  BY <1>2, <1>3 DEF Kept

\* A row is done that is no push, and a delete only when its card is gone.
LEMMA EndKept ==
  ASSUME TrashInv, UploadInv, Facts, NEW d \in Devices,
         \/ lane' = [lane EXCEPT ![d] = NoLane]
         \/ lane' = [NoFileFresh EXCEPT ![d] = NoLane]
         \/ lane' = [NoCardFresh EXCEPT ![d] = NoLane],
         Quiet(d) => \/ dirty[d] = {}
                     \/ lane[d].kind # "push" /\ (lane[d].kind = "delete" => CardGone(d)),
         UNCHANGED <<rows, target>>, UNCHANGED <<docs, dirty>>, UNCHANGED pull, UNCHANGED ready,
         givenUp \subseteq givenUp'
  PROVE  Kept(d)
<1>1. /\ RowInv /\ KnownInv /\ Owed(d)
  BY OweFacts
<1>2. LanePc(NoLane, target[d])
  BY <1>1, PcFacts
<1>3. RowInv' /\ (\A e \in Devices \ {d} : Apart(e)) /\ lane'[d] = NoLane
  BY <1>1, <1>2, PlainStep
<1>4. Quiet(d)' => Quiet(d)
  BY DEF Quiet
<1>5. NoLane.pc \notin Pushing
  BY NoLanePc DEF Pushing
<1>6. HasRow(d, "delete") /\ lane[d].kind # "delete" => "delete" \in Range(rows'[d]) \cup {lane'[d].kind}
  BY DEF HasRow
<1>7. Owed(d)'
  BY <1>1, <1>3, <1>4, <1>5, <1>6, OwedSame
<1> QED
  BY <1>3, <1>7 DEF Kept

\* A row reads the file again, or is put back.
LEMMA AgainKept ==
  ASSUME TrashInv, UploadInv, Facts, NEW d \in Devices, Again(d), lane[d].pc \in Pushing,
         UNCHANGED <<docs, dirty>>, UNCHANGED pull, UNCHANGED ready, givenUp' = givenUp
  PROVE  Kept(d)
<1>1. LanePc(lane[d], target[d])
  BY OweFacts
<1>2. CASE Retry(lane, d)
  BY <1>2, RetryKept
<1>3. CASE UNCHANGED rowVars /\ \E l : /\ lane' = [lane EXCEPT ![d] = l] /\ l.pc = "push"
                      /\ l.kind = lane[d].kind /\ l.card = lane[d].card
                      /\ l.todo = lane[d].todo /\ l.destroys = lane[d].destroys
  <2>1. PICK l : /\ lane' = [lane EXCEPT ![d] = l] /\ l.pc = "push"
                      /\ l.kind = lane[d].kind /\ l.card = lane[d].card
                      /\ l.todo = lane[d].todo /\ l.destroys = lane[d].destroys
    BY <1>3
  <2>2. LanePc(l, target[d]) /\ UNCHANGED <<rows, target>>
    BY <1>1, <1>3, <2>1 DEF LanePc, Pushing, rowVars
  <2> QED
    BY <2>1, <2>2, MoveKept
<1> QED
  BY <1>2, <1>3, LaneAgain

\* The file is written, and yet to be confirmed.
LEMMA PushWriteKept ==
  ASSUME TrashInv, UploadInv, Facts, NEW d \in Devices, PushWrite(d)
  PROVE  Kept(d)
<1>1. /\ LanePc(lane[d], target[d]) /\ IsLane(lane[d])
  BY OweFacts
<1>2. /\ lane[d].pc = "write" /\ UNCHANGED <<docs, dirty>> /\ UNCHANGED pull /\ UNCHANGED ready
      /\ givenUp' = givenUp
  BY DEF PushWrite, docVars, countVars
<1>3. CASE Fresh(d)
  <2> DEFINE l == [[lane[d] EXCEPT !.fileFresh = FALSE] EXCEPT !.pc = "confirm"]
  <2>1. lane' = [NoFileFresh EXCEPT ![d] = l] /\ UNCHANGED <<rows, target>>
    BY <1>3 DEF PushWrite, NoFileFresh, rowVars
  <2>2. /\ l.pc = "confirm" /\ l.kind = lane[d].kind /\ l.todo = lane[d].todo
        /\ l.destroys = lane[d].destroys
    BY <1>1 DEF IsLane
  <2> HIDE DEF l
  <2>3. LanePc(l, target[d]) /\ lane[d].pc \in Pushing
    BY <1>1, <1>2, <2>2 DEF LanePc, Pushing
  <2> QED
    BY <1>2, <2>1, <2>2, <2>3, MoveKept
<1>4. CASE ~Fresh(d)
  BY <1>2, <1>4, AgainKept DEF PushWrite, Pushing
<1> QED
  BY <1>3, <1>4

\* A file that is confirmed is clean, and no longer before the row.
LEMMA PushConfirmKept ==
  ASSUME TrashInv, UploadInv, Facts, NEW d \in Devices, PushConfirm(d)
  PROVE  Kept(d)
<1> DEFINE f == File(d)
<1>1. /\ RowInv /\ KnownInv /\ Owed(d) /\ LanePc(lane[d], target[d]) /\ IsLane(lane[d])
      /\ dirty \in [Devices -> SUBSET Files]
  BY OweFacts DEF TrashInv, DocsInv
<1>2. /\ lane[d].pc = "confirm" /\ UNCHANGED docs /\ UNCHANGED pull /\ UNCHANGED ready
      /\ givenUp' = givenUp
  BY DEF PushConfirm, countVars, frameVars
<1>3. CASE Uploaded(d, f)
  <2> DEFINE l == [lane[d] EXCEPT !.pc = "push", !.sent = {}, !.todo = lane[d].todo \ {f}, !.tries = 0]
  <2>1. /\ dirty' = [dirty EXCEPT ![d] = dirty[d] \ {f}]
        /\ lane' = [lane EXCEPT ![d] = l] /\ UNCHANGED <<rows, target>>
    BY <1>3 DEF PushConfirm, rowVars
  <2>2. /\ l.pc = "push" /\ l.kind = lane[d].kind /\ l.todo = lane[d].todo \ {f}
        /\ l.destroys = lane[d].destroys
    BY <1>1 DEF IsLane
  <2> HIDE DEF l
  <2>3. LanePc(l, target[d]) /\ lane[d].pc \in Pushing
    BY <1>1, <1>2, <2>2 DEF LanePc, Pushing
  <2>4. \E files : dirty' = [dirty EXCEPT ![d] = files]
    BY <2>1
  <2>5. RowInv' /\ (\A e \in Devices \ {d} : Apart(e)) /\ lane'[d] = l
    BY <1>1, <1>2, <2>1, <2>3, <2>4, PlainStep
  <2>6. dirty'[d] = dirty[d] \ {f}
    BY <1>1, <2>1
  <2>7. Quiet(d)' => Quiet(d) /\ dirty[d] \subseteq lane[d].todo
    BY <1>1, <1>2, <2>1, <2>3 DEF Quiet, Owed, Covered
  <2>8. Quiet(d) /\ lane[d].kind # "push" => dirty'[d] = dirty[d] \/ dirty'[d] = {}
    BY <1>1, <2>6 DEF Owed, Staged
  <2>9. HasRow(d, "delete") => "delete" \in Range(rows'[d]) \cup {lane'[d].kind}
    BY <2>1, <2>2, <2>5 DEF HasRow
  <2>10. Owed(d)'
    BY <1>1, <1>2, <2>1, <2>2, <2>5, <2>6, <2>7, <2>8, <2>9, OwedSame
  <2> QED
    BY <2>5, <2>10 DEF Kept
<1>4. CASE ~Uploaded(d, f)
  BY <1>2, <1>4, AgainKept DEF PushConfirm, Pushing
<1> QED
  BY <1>3, <1>4

\* A push row has all the dirty files before it.
LEMMA PushAllKept ==
  ASSUME TrashInv, UploadInv, Facts, NEW d \in Devices, PushAll(d)
  PROVE  Kept(d)
<1>1. /\ RowInv /\ LanePc(lane[d], target[d]) /\ IsLane(lane[d])
  BY OweFacts
<1>2. /\ lane[d].kind = "push" /\ UNCHANGED <<docs, dirty>> /\ UNCHANGED pull /\ UNCHANGED ready
      /\ UNCHANGED <<rows, target>> /\ Push(d, None, dirty[d], FALSE)
  BY DEF PushAll, At, docVars, frameVars, rowVars
<1> DEFINE l == [lane[d] EXCEPT !.pc = "push", !.entry = None, !.todo = dirty[d],
                                !.destroys = FALSE, !.tries = 0]
<1>3. /\ lane' = [lane EXCEPT ![d] = l] /\ l.pc = "push" /\ l.kind = lane[d].kind
      /\ l.todo = dirty[d] /\ ~l.destroys
  BY <1>1, <1>2 DEF Push, IsLane
<1> HIDE DEF l
<1>4. LanePc(l, target[d])
  BY <1>1, <1>2, <1>3 DEF LanePc
<1>5. RowInv' /\ (\A e \in Devices \ {d} : Apart(e)) /\ lane'[d] = l
  BY <1>1, <1>2, <1>3, <1>4, PlainStep
<1>6. Owed(d)'
  BY <1>2, <1>3, <1>5 DEF Owed, Covered
<1> QED
  BY <1>5, <1>6 DEF Kept

\* With nothing left before a row that pushes, nothing is dirty.
LEMMA PushEndsKept ==
  ASSUME TrashInv, UploadInv, Facts, NEW d \in Devices, PushEnds(d)
  PROVE  Kept(d)
<1>1. /\ Owed(d) /\ LanePc(lane[d], target[d]) /\ IsLane(lane[d])
  BY OweFacts
<1>2. /\ lane[d].pc = "push" /\ lane[d].todo = {} /\ UNCHANGED <<docs, dirty>> /\ UNCHANGED pull
      /\ UNCHANGED ready /\ UNCHANGED <<rows, target>> /\ givenUp' = givenUp
  BY DEF PushEnds, docVars, frameVars, rowVars, countVars
<1>3. Quiet(d) => dirty[d] = {}
  BY <1>1, <1>2 DEF Owed, Covered, Pushing
<1>4. CASE Finish(lane, d)
  BY <1>2, <1>3, <1>4, LaneForms, EndKept
<1>5. CASE lane[d].destroys /\ Go(d, "destroy")
  <2> DEFINE l == [lane[d] EXCEPT !.pc = "destroy"]
  <2>1. /\ lane' = [lane EXCEPT ![d] = l] /\ l.pc = "destroy" /\ l.kind = lane[d].kind
        /\ l.todo = lane[d].todo /\ l.destroys = lane[d].destroys
    BY <1>1, <1>5, LaneForms DEF IsLane
  <2> HIDE DEF l
  <2>2. LanePc(l, target[d]) /\ lane[d].pc \in Pushing
    BY <1>1, <1>2, <1>5, <2>1 DEF LanePc, Pushing
  <2> QED
    BY <1>2, <2>1, <2>2, MoveKept
<1> QED
  BY <1>4, <1>5 DEF PushEnds

\* A push that fails is put back, or was refused.
LEMMA PushFailsKept ==
  ASSUME TrashInv, UploadInv, Facts, NEW d \in Devices, PushFails(d)
  PROVE  Kept(d)
<1>1. /\ RowInv /\ LanePc(NoLane, target[d])
  BY OweFacts, PcFacts
<1>2. UNCHANGED pull /\ UNCHANGED ready
  BY DEF PushFails
<1>3. CASE (Retry(lane, d) \/ Retry(NoFileFresh, d)) /\ UNCHANGED docVars /\ UNCHANGED givenUp
  BY <1>2, <1>3, RetryKept DEF docVars
<1>4. CASE Rollback(d) /\ Finish(lane, d) /\ givenUp' = givenUp \cup {"refused"} /\ UNCHANGED rowVars
  <2>1. UNCHANGED <<docs, dirty>> \/ \E kind, r : AppendRecord(d, kind, r)
    BY <1>4 DEF Rollback, docVars
  <2>2. lane' = [lane EXCEPT ![d] = NoLane] /\ UNCHANGED <<rows, target>>
    BY <1>4 DEF Finish, rowVars
  <2>3. RowInv' /\ (\A e \in Devices \ {d} : Apart(e))
    BY <1>1, <1>2, <2>1, <2>2, PlainStep
  <2> QED
    BY <1>4, <2>3, OwedClear DEF Kept, Quiet
<1> QED
  BY <1>3, <1>4 DEF PushFails

\* A delete that finds no card of its id is done.
LEMMA FetchKept ==
  ASSUME TrashInv, UploadInv, Facts, NEW d \in Devices, Fetch(d)
  PROVE  Kept(d)
<1>1. /\ Owed(d) /\ LanePc(lane[d], target[d]) /\ IsLane(lane[d])
  BY OweFacts
<1>2. /\ lane[d].kind = "delete" /\ UNCHANGED <<docs, dirty>> /\ UNCHANGED pull
      /\ UNCHANGED ready /\ UNCHANGED <<rows, target>> /\ givenUp' = givenUp
  BY DEF Fetch, At, docVars, frameVars, rowVars, countVars
<1>3. CASE (\A c \in cards : c.id = target[d] => Ambiguous(d, c)) /\ Finish(lane, d)
  <2>1. Quiet(d) /\ dirty[d] # {} => CardGone(d)
    BY <1>1, <1>2, <1>3 DEF Owed, Staged, CardGone, Ambiguous
  <2> QED
    BY <1>2, <1>3, <2>1, LaneForms, EndKept
<1>4. ASSUME NEW c \in cards, c.id = target[d], NEW r,
             lane' = [lane EXCEPT ![d] = [@ EXCEPT
               !.pc = "stage", !.card = c, !.cardFresh = TRUE, !.entry = r]]
      PROVE  Kept(d)
  <2> DEFINE l == [lane[d] EXCEPT !.pc = "stage", !.card = c, !.cardFresh = TRUE, !.entry = r]
  <2>1. /\ lane' = [lane EXCEPT ![d] = l] /\ l.pc = "stage" /\ l.card = c
        /\ l.kind = lane[d].kind
    BY <1>1, <1>4 DEF IsLane
  <2> HIDE DEF l
  <2>2. LanePc(l, target[d]) /\ l.pc \notin Pushing
    BY <1>1, <1>2, <1>4, <2>1 DEF LanePc, Pushing
  <2> QED
    BY <1>2, <2>1, <2>2, MoveKept
<1> QED
  BY <1>3, <1>4 DEF Fetch

\* A record that is younger than the latest is the latest.
LEMMA TopNew ==
  ASSUME NEW F \in FilesType, Headed(All(F)), NEW f \in Files, NEW r \in Records,
         Top(F) = None \/ r.at > Top(F).at
  PROVE  Top([F EXCEPT ![f] = F[f] \cup {r}]) = r
<1> DEFINE G == [F EXCEPT ![f] = F[f] \cup {r}]
           latest == {x \in All(G) : \A q \in All(G) : ~Wins(q, x)}
<1>1. All(G) = All(F) \cup {r}
  BY AllGrows
<1>2. All(F) \subseteq Records /\ \A x \in Records : x.at \in Nat
  BY DEF All, FilesType, Records
<1>3. \A q \in All(F) : Wins(r, q) /\ ~Wins(q, r)
  <2> SUFFICES ASSUME NEW q \in All(F) PROVE Wins(r, q) /\ ~Wins(q, r)
    OBVIOUS
  <2>1. Top(F) \in All(F) /\ ~Wins(q, Top(F)) /\ r.at > Top(F).at
    BY TopHead
  <2>2. r.at > q.at
    BY <1>2, <2>1 DEF Wins
  <2> QED
    BY <1>2, <2>2 DEF Wins
<1>4. ~Wins(r, r)
  BY WinsOrder
<1>5. latest = {r}
  BY <1>1, <1>3, <1>4
<1>6. Top(G) = IF latest = {} THEN None ELSE CHOOSE x \in latest : TRUE
  BY DEF Top
<1> QED
  BY <1>5, <1>6

\* What a delete stages becomes the latest record, and is before the row to push; a
\* record that was staged before is pushed with the file it is in.
LEMMA StageKept ==
  ASSUME TrashInv, UploadInv, Facts, NEW d \in Devices, Stage(d)
  PROVE  Kept(d)
<1> DEFINE top == Top(docs[d])
           new == [lane[d].entry EXCEPT !.at = IF top = None THEN @ ELSE Stamp(@, top)]
<1>1. /\ RowInv /\ KnownInv /\ Owed(d) /\ LanePc(lane[d], target[d]) /\ IsLane(lane[d])
      /\ LaneGood(lane[d], docs[d], remote, cards)
      /\ Headed(All(docs[d])) /\ docs[d] \in FilesType /\ top \in Records \cup {None}
  BY OweFacts, RowFacts DEF HeadInv
<1>2. /\ lane[d].kind = "delete" /\ lane[d].pc = "stage" /\ UNCHANGED pull
      /\ UNCHANGED ready /\ UNCHANGED <<rows, target>> /\ givenUp' = givenUp
      /\ target' = target
  BY DEF Stage, At, frameVars, rowVars, countVars
<1>3. lane[d].card.id = target[d]
  BY <1>1, <1>2 DEF LanePc
<1>4. Quiet(d)' => Quiet(d)
  BY <1>2 DEF Quiet
<1>5. CASE Ambiguous(d, lane[d].card) /\ Finish(lane, d) /\ UNCHANGED docVars
  <2>1. Quiet(d) /\ dirty[d] # {} => CardGone(d)
    BY <1>1, <1>2, <1>3, <1>5 DEF Owed, Staged, Ambiguous
  <2> QED
    BY <1>2, <1>5, <2>1, LaneForms, EndKept DEF docVars
<1>6. CASE Push(d, top, Holders(d, top), TRUE) /\ UNCHANGED <<docs, dirty, known>>
  <2> DEFINE l == [lane[d] EXCEPT !.pc = "push", !.entry = top, !.todo = Holders(d, top),
                                  !.destroys = TRUE, !.tries = 0]
  <2>1. /\ lane' = [lane EXCEPT ![d] = l] /\ l.pc = "push" /\ l.kind = lane[d].kind
        /\ l.todo = Holders(d, top)
    BY <1>1, <1>6 DEF Push, IsLane
  <2> HIDE DEF l
  <2>2. LanePc(l, target[d])
    BY <1>1, <1>2, <2>1 DEF LanePc
  <2>3. RowInv' /\ (\A e \in Devices \ {d} : Apart(e)) /\ lane'[d] = l
    BY <1>1, <1>2, <1>6, <2>1, <2>2, PlainStep
  <2>4. Quiet(d) => dirty[d] \subseteq Holders(d, top)
    BY <1>1, <1>2 DEF Owed, Staged, Holders
  <2>5. "delete" \in Range(rows'[d]) \cup {lane'[d].kind}
    BY <1>2, <2>1, <2>3
  <2>6. Owed(d)'
    BY <1>1, <1>2, <1>4, <1>6, <2>1, <2>3, <2>4, <2>5, OwedSame
  <2> QED
    BY <2>3, <2>6 DEF Kept
<1>7. CASE AppendRecord(d, "snapshot", new) /\ Push(d, new, {<<d, "snapshot">>}, TRUE)
  <2> DEFINE l == [lane[d] EXCEPT !.pc = "push", !.entry = new, !.todo = {<<d, "snapshot">>},
                                  !.destroys = TRUE, !.tries = 0]
  <2>1. /\ lane' = [lane EXCEPT ![d] = l] /\ l.pc = "push" /\ l.kind = lane[d].kind
        /\ l.todo = {<<d, "snapshot">>}
    BY <1>1, <1>7 DEF Push, IsLane
  <2> HIDE DEF l
  <2>2. LanePc(l, target[d]) /\ \E kind, r : AppendRecord(d, kind, r)
    BY <1>1, <1>2, <1>7, <2>1 DEF LanePc
  <2>3. RowInv' /\ (\A e \in Devices \ {d} : Apart(e)) /\ lane'[d] = l
    BY <1>1, <1>2, <2>1, <2>2, PlainStep
  <2>4. /\ new \in Records /\ Active(new) /\ new.card = lane[d].card
        /\ top = None \/ new.at > top.at
    <3>1. /\ lane[d].entry \in Records /\ Active(lane[d].entry)
          /\ lane[d].entry.card = lane[d].card
      BY <1>1, <1>2 DEF LaneGood, Snapshot
    <3>2. lane[d].entry.at \in Nat \ {0} /\ (top # None => top.at \in Nat)
      BY <1>1, <3>1 DEF Records
    <3>3. top # None => Stamp(lane[d].entry.at, top) \in Nat \ {0} /\ Stamp(lane[d].entry.at, top) > top.at
      BY <3>2 DEF Stamp
    <3> DEFINE at == IF top = None THEN lane[d].entry.at ELSE Stamp(lane[d].entry.at, top)
    <3>4. at \in Nat \ {0} /\ (top = None \/ at > top.at)
      BY <3>2, <3>3
    <3>5. new = [lane[d].entry EXCEPT !.at = at]
      OBVIOUS
    <3> HIDE DEF at, new, top
    <3> QED
      BY <3>1, <3>4, <3>5 DEF Records, Active
  <2>5. /\ docs'[d] = [docs[d] EXCEPT ![Own(d)] = docs[d][Own(d)] \cup {new}]
        /\ dirty'[d] = dirty[d] \cup {Own(d)} /\ Own(d) \in Files
    BY <1>7 DEF AppendRecord, Own, Files, TrashInv, DocsInv
  <2> HIDE DEF new
  <2>6. Top(docs'[d]) = new /\ new \in docs'[d][Own(d)]
    BY <1>1, <2>4, <2>5, TopNew DEF FilesType
  <2>7. Quiet(d)' => dirty'[d] = {Own(d)}
    BY <1>1, <1>2, <1>4, <2>5 DEF Owed, Staged
  <2>8. target'[d] = new.card.id /\ HasRow(d, "delete")'
    BY <1>2, <1>3, <2>1, <2>3, <2>4 DEF HasRow
  <2>9. Quiet(d)' => Staged(d)' /\ Covered(d)'
    BY <2>1, <2>3, <2>4, <2>6, <2>7, <2>8 DEF Staged, Covered, Own
  <2> QED
    BY <2>3, <2>9 DEF Kept, Owed
<1> QED
  BY <1>5, <1>6, <1>7 DEF Stage

\* A row that comes to its destroy has pushed all that was dirty.
LEMMA DestroyKept ==
  ASSUME TrashInv, UploadInv, Facts, NEW d \in Devices, Destroy(d) \/ DestroyFails(d)
  PROVE  Kept(d)
<1>1. /\ Owed(d) /\ LanePc(lane[d], target[d]) /\ IsLane(lane[d])
      /\ LaneGood(lane[d], docs[d], remote, cards)
  BY OweFacts, RowFacts
<1>2. /\ lane[d].pc = "destroy" /\ UNCHANGED <<docs, dirty>> /\ UNCHANGED pull
      /\ UNCHANGED ready /\ givenUp \subseteq givenUp'
  BY DEF Destroy, DestroyFails, docVars, frameVars, countVars
<1>3. lane[d].kind = "delete"
  BY <1>1, <1>2 DEF LaneGood, LanePc, Pushing
<1>4. Quiet(d) => dirty[d] = {}
  BY <1>1, <1>2 DEF LaneGood, Owed, Covered, Pushing
<1>5. CASE Finish(NoCardFresh, d) /\ UNCHANGED rowVars
  BY <1>2, <1>4, <1>5, LaneForms, EndKept DEF rowVars
<1>6. CASE Retry(lane, d) \/ Retry(NoCardFresh, d)
  BY <1>2, <1>6, RetryKept
<1>7. CASE UNCHANGED rowVars /\
           lane' = [lane EXCEPT ![d] = [NoLane EXCEPT !.kind = "delete", !.pc = "start",
                                                      !.rounds = lane[d].rounds + 1]]
  <2> DEFINE l == [NoLane EXCEPT !.kind = "delete", !.pc = "start", !.rounds = lane[d].rounds + 1]
  <2>1. lane' = [lane EXCEPT ![d] = l] /\ l.pc = "start" /\ l.kind = lane[d].kind
    BY <1>3, <1>7 DEF NoLane
  <2> HIDE DEF l
  <2>2. LanePc(l, target[d]) /\ l.pc \notin Pushing /\ UNCHANGED <<rows, target>>
    BY <1>3, <1>7, <2>1 DEF LanePc, Pushing, AnyKind, Kinds, rowVars
  <2> QED
    BY <1>2, <2>1, <2>2, MoveKept
<1>8. CASE UNCHANGED rowVars /\ Go(d, "mark")
  <2> DEFINE l == [lane[d] EXCEPT !.pc = "mark"]
  <2>1. lane' = [lane EXCEPT ![d] = l] /\ l.pc = "mark" /\ l.kind = lane[d].kind
    BY <1>1, <1>8, LaneForms DEF IsLane
  <2> HIDE DEF l
  <2>2. LanePc(l, target[d]) /\ l.pc \notin Pushing /\ UNCHANGED <<rows, target>>
    BY <1>3, <1>8, <2>1 DEF LanePc, Pushing, AnyKind, Kinds, rowVars
  <2> QED
    BY <1>2, <2>1, <2>2, MoveKept
<1>9. UNCHANGED <<serverVars, rowVars>> => UNCHANGED rowVars
  OBVIOUS
<1> QED
  BY <1>5, <1>6, <1>7, <1>8, <1>9 DEF Destroy, DestroyFails

\* A restore up to its tombstone touches no file.
LEMMA RestoreKept ==
  ASSUME TrashInv, UploadInv, Facts, NEW d \in Devices,
         Lookup(d) \/ Create(d) \/ CreateFails(d) \/ Reconcile(d)
  PROVE  Kept(d)
<1>1. /\ Owed(d) /\ LanePc(lane[d], target[d]) /\ IsLane(lane[d])
  BY OweFacts
<1>2. /\ UNCHANGED <<docs, dirty>> /\ UNCHANGED pull /\ UNCHANGED ready /\ givenUp' = givenUp
  BY DEF Lookup, Create, CreateFails, Reconcile, docVars, frameVars, countVars
<1>3. lane[d].kind \notin {"push", "delete"}
  BY <1>1 DEF Lookup, Create, CreateFails, Reconcile, At, LanePc
<1>4. CASE Finish(lane, d) /\ UNCHANGED rowVars
  BY <1>2, <1>3, <1>4, LaneForms, EndKept DEF rowVars
<1>5. CASE Retry(lane, d) \/ Retry(NoCardFresh, d)
  BY <1>2, <1>5, RetryKept
<1>6. ASSUME NEW l, lane' = [lane EXCEPT ![d] = l] \/ lane' = [NoCardFresh EXCEPT ![d] = l],
             UNCHANGED rowVars, l.kind = lane[d].kind, l.pc \in {"mark", "create", "reconcile"},
             l.pc = "create" => lane[d].kind = "restore"
      PROVE  Kept(d)
  <2>1. LanePc(l, target[d]) /\ l.pc \notin Pushing /\ UNCHANGED <<rows, target>>
    BY <1>1, <1>3, <1>6 DEF LanePc, Pushing, rowVars
  <2> QED
    BY <1>2, <1>6, <2>1, MoveKept
<1>7. CASE Go(d, "mark") /\ UNCHANGED rowVars
  <2> DEFINE l == [lane[d] EXCEPT !.pc = "mark"]
  <2>1. lane' = [lane EXCEPT ![d] = l] /\ l.pc = "mark" /\ l.kind = lane[d].kind
    BY <1>1, <1>7, LaneForms DEF IsLane
  <2> HIDE DEF l
  <2> QED
    BY <1>6, <1>7, <2>1
<1>8. CASE Create(d)
  <2> DEFINE l == [[lane[d] EXCEPT !.cardFresh = FALSE] EXCEPT !.pc = "reconcile", !.card = Created(d)]
  <2>1. lane' = [NoCardFresh EXCEPT ![d] = l]
    BY <1>8 DEF Create, NoCardFresh
  <2>2. l.pc = "reconcile" /\ l.kind = lane[d].kind
    BY <1>1 DEF IsLane
  <2> HIDE DEF l
  <2> QED
    BY <1>6, <1>8, <2>1, <2>2 DEF Create
<1>9. CASE Lookup(d)
  <2>1. lane[d].kind = "restore" /\ UNCHANGED rowVars
    BY <1>9 DEF Lookup, At
  <2>2. ASSUME NEW pc \in {"create", "reconcile"}, NEW c,
               lane' = [lane EXCEPT ![d] = [@ EXCEPT !.pc = pc, !.card = c]]
        PROVE  Kept(d)
    <3> DEFINE l == [lane[d] EXCEPT !.pc = pc, !.card = c]
    <3>1. lane' = [lane EXCEPT ![d] = l] /\ l.pc = pc /\ l.kind = lane[d].kind
      BY <1>1, <2>2 DEF IsLane
    <3> HIDE DEF l
    <3> QED
      BY <1>6, <2>1, <3>1
  <2> QED
    BY <1>4, <1>7, <1>9, <2>1, <2>2 DEF Lookup
<1> QED
  BY <1>4, <1>5, <1>7, <1>8, <1>9 DEF CreateFails, Reconcile, rowVars

\* A tombstone is written, and a push queued for it; where nothing is to be written,
\* nothing is dirty that no push would come for.
LEMMA SetStatusKept ==
  ASSUME TrashInv, UploadInv, Facts, NEW d \in Devices, SetStatus(d)
  PROVE  Kept(d)
<1>1. /\ RowInv /\ Owed(d) /\ LanePc(lane[d], target[d]) /\ IsLane(lane[d])
  BY OweFacts
<1>2. /\ UNCHANGED pull /\ UNCHANGED ready /\ givenUp' = givenUp /\ lane[d].kind # "push"
  BY <1>1 DEF SetStatus, At, frameVars, countVars, LanePc
<1>3. CASE Active(Top(docs[d]))
  <2> DEFINE l == [lane[d] EXCEPT !.pc = "push", !.entry = None, !.todo = {<<d, "tombstone">>},
                                  !.destroys = FALSE, !.tries = 0]
  <2>1. /\ \E kind, r : AppendRecord(d, kind, r)
        /\ EnsurePush(d) /\ lane' = [lane EXCEPT ![d] = l]
    BY <1>3 DEF SetStatus, Push
  <2>2. l.pc = "push" /\ l.kind = lane[d].kind /\ ~l.destroys
    BY <1>1 DEF IsLane
  <2> HIDE DEF l
  <2>3. LanePc(l, target[d])
    BY <1>1, <1>2, <2>2 DEF LanePc
  <2>4. RowInv' /\ (\A e \in Devices \ {d} : Apart(e)) /\ "push" \in Range(rows'[d])
    BY <1>1, <1>2, <2>1, <2>3, PlainStep
  <2> QED
    BY <2>4, OwedClear DEF Kept, Quiet
<1>4. CASE ~Active(Top(docs[d]))
  <2>1. Quiet(d) => dirty[d] = {}
    BY <1>1, <1>2, <1>4 DEF Owed, Staged
  <2>2. Finish(lane, d) /\ UNCHANGED <<docs, dirty>> /\ UNCHANGED <<rows, target>>
    BY <1>4 DEF SetStatus, rowVars
  <2> QED
    BY <1>2, <2>1, <2>2, LaneForms, EndKept
<1> QED
  BY <1>3, <1>4

\* All steps: what is owed stays owed.
LEMMA UploadKept ==
  ASSUME TrashInv, TrashInv', UploadInv, [Next]_vars
  PROVE  UploadInv'
<1>1. Facts
  BY StepFacts
<1>2. OwnInv' /\ HeadInv' /\ KnownInv' /\ IdleInv'
  BY <1>1, OwnKept, HeadKept, KnownKept, IdleKept DEF UploadInv
<1>3. ASSUME NEW d \in Devices, Kept(d), givenUp \subseteq givenUp'
      PROVE  RowInv' /\ \A e \in Devices : Owed(e)'
  <2>1. \A e \in Devices \ {d} : Owed(e)'
    BY <1>1, <1>3, OwedOther DEF Kept, UploadInv
  <2> QED
    BY <1>3, <2>1 DEF Kept
<1>4. ASSUME NEW d \in Devices, PullStep(d) PROVE Kept(d) /\ givenUp \subseteq givenUp'
  <2>1. Kept(d)
    BY <1>1, <1>4, PullKept, QuietKept DEF PullStep
  <2>2. givenUp \subseteq givenUp'
    BY <1>4 DEF PullStep, PullFile, PullEnds, Receive, Handle, countVars
  <2> QED
    BY <2>1, <2>2
<1>5. ASSUME NEW d \in Devices, RowStep(d) PROVE Kept(d) /\ givenUp \subseteq givenUp'
  <2>1. Kept(d)
    BY <1>1, <1>5, BeginKept, PushReadKept, PushWriteKept, PushConfirmKept, PushEndsKept,
       PushAllKept, FetchKept, StageKept, DestroyKept, RestoreKept, SetStatusKept
       DEF RowStep, PushStep
  <2>2. givenUp \subseteq givenUp'
    BY <1>5 DEF RowStep, PushStep, Begin, PushRead, PushWrite, PushConfirm, PushEnds, PushAll,
       Fetch, Stage, Destroy, Lookup, Create, Reconcile, SetStatus, countVars
  <2> QED
    BY <2>1, <2>2
<1>6. ASSUME NEW d \in Devices, FaultStep(d) PROVE Kept(d) /\ givenUp \subseteq givenUp'
  <2>1. Kept(d)
    BY <1>1, <1>6, QuietKept, PushFailsKept, DestroyKept, RestoreKept, DeathKept DEF FaultStep
  <2>2. givenUp \subseteq givenUp'
    BY <1>6 DEF FaultStep, PullFails, FrameLost, PushFails, DestroyFails, CreateFails, WorkerDies
  <2> QED
    BY <2>1, <2>2
<1>7. ASSUME NEW d \in Devices, NEW kind \in Kinds, Ask(d, kind)
      PROVE  Kept(d) /\ givenUp \subseteq givenUp'
  BY <1>1, <1>7, AskKept DEF Ask
<1>8. ASSUME Edit \/ UNCHANGED vars PROVE RowInv' /\ \A e \in Devices : Owed(e)'
  <2>1. /\ UNCHANGED <<rows, target, ready, docs, dirty, pull, givenUp>>
        /\ lane' = NoCardFresh \/ lane' = lane
    BY <1>8 DEF Edit, vars, docVars, rowVars, frameVars, countVars
  <2>2. \A e \in Devices : IsLane(lane[e])
    BY RowFacts
  <2>3. \A e \in Devices : Alike(lane[e], lane'[e])
    BY <2>1, <2>2 DEF Alike, NoCardFresh, IsLane
  <2>4. \A e \in Devices : Apart(e)
    BY <2>1, <2>3 DEF Apart
  <2>5. \A e \in Devices : Owed(e)'
    BY <1>1, <2>1, <2>4, OwedOther DEF UploadInv
  <2>6. \A e \in Devices : LanePc(lane'[e], target'[e])
    BY <2>1, <2>3 DEF UploadInv, RowInv, Alike, LanePc
  <2> QED
    BY <2>1, <2>5, <2>6 DEF UploadInv, RowInv
<1>9. CASE Next
  BY <1>3, <1>4, <1>5, <1>6, <1>7, <1>8, <1>2, <1>9 DEF Next, Step, UploadInv
<1> QED
  BY <1>2, <1>8, <1>9 DEF UploadInv

\* At the start every device has the files of the server, and none is dirty.
LEMMA InitUpload == Init => UploadInv
<1> SUFFICES ASSUME Init PROVE UploadInv
  OBVIOUS
<1>1. PICK files \in Begun : remote = files /\ docs = [d \in Devices |-> files]
  BY DEF Init
<1>2. /\ dirty = [d \in Devices |-> {}] /\ rows = [d \in Devices |-> <<>>]
      /\ target = [d \in Devices |-> 0] /\ lane = [d \in Devices |-> NoLane]
      /\ pull = [d \in Devices |-> NoPull] /\ ready = [d \in Devices |-> TRUE]
  BY DEF Init
<1>3. Deleters \subseteq Devices /\ 0 \in Ids /\ 1 \in Ids /\ <<>> \in Seq(AnyKind)
  BY TrashAssumption DEF Ids
<1>4. DOMAIN NoPull.found = {}
  BY DEF NoPull
<1>5. NoLane.pc = "idle" /\ \A t : LanePc(NoLane, t)
  BY NoLanePc DEF LanePc, NoLane, AnyKind, Kinds, Pushing
<1>6. Headed(All(files)) /\ \A f \in Files : Headed(files[f])
  <2>1. CASE files = Empty
    BY <2>1 DEF Headed, All, Empty
  <2>2. CASE files # Empty
    <3> DEFINE r == [status |-> "trashed", at |-> 1, card |-> First]
    <3>1. PICK d \in Deleters : files = [Empty EXCEPT ![<<d, "snapshot">>] = {r}]
      BY <2>2 DEF Begun
    <3>2. <<d, "snapshot">> \in Files
      BY <1>3, <3>1 DEF Files
    <3>3. r \in Records
      BY <1>3, TrashAssumption DEF Records, Cards, First
    <3> HIDE DEF r
    <3>4. /\ \A f \in Files : files[f] = IF f = <<d, "snapshot">> THEN {r} ELSE {}
          /\ All(files) = {r}
      BY <3>1, <3>2 DEF Empty, All
    <3> QED
      BY <3>3, <3>4, HeadedOne DEF Headed
  <2> QED
    BY <2>1, <2>2
<1>7. OwnInv
  BY <1>1, <1>2, <1>5 DEF OwnInv, Files
<1>8. HeadInv
  BY <1>1, <1>2, <1>4, <1>5, <1>6 DEF HeadInv
<1>9. KnownInv
  BY <1>1, <1>2, <1>5 DEF KnownInv, Known
<1>10. RowInv
  BY <1>2, <1>3, <1>5 DEF RowInv
<1>11. IdleInv
  BY <1>2, <1>4 DEF IdleInv
<1>12. \A d \in Devices : Owed(d)
  BY <1>2, <1>5 DEF Owed, Covered, Pushing
<1> QED
  BY <1>7, <1>8, <1>9, <1>10, <1>11, <1>12 DEF UploadInv

(***************************************************************************)
(* The rest of the types: the queues, who waits, and the flags.            *)
(***************************************************************************)
Queues(q, w) == q \in Seq(Kinds) /\ w \subseteq Range(q)

QueueInv ==
  /\ rows \in [Devices -> Seq(Kinds)] /\ waiting = [d \in Devices |-> waiting[d]]
  /\ \A d \in Devices : waiting[d] \subseteq Range(rows[d])

\* A lane without a row is at rest in every respect.
Busy(l) == l = NoLane \/ l.kind \in Kinds
BusyInv == \A d \in Devices : Busy(lane[d])

FlagInv ==
  /\ ready \in [Devices -> BOOLEAN] /\ news \in [Devices -> BOOLEAN]
  /\ frames \in [Devices -> SUBSET {"queued", "handled"}]
  /\ \A d \in Devices : pull[d].pc \in {"idle", "reading"}
  /\ givenUp \subseteq {"purged", "refused"} /\ faults \in 0..MaxMishaps

RestInv == QueueInv /\ BusyInv /\ FlagInv /\ deleting \subseteq Devices

\* A row that does something has a kind.
LEMMA Running ==
  ASSUME BusyInv, NEW d \in Devices, lane[d].pc # "idle"
  PROVE  lane[d].kind \in Kinds
BY DEF BusyInv, Busy, NoLane

\* The queue and the waiting rows of d are set.
LEMMA QueueSet ==
  ASSUME QueueInv, NEW d \in Devices, NEW q \in Seq(Kinds), NEW w, w \subseteq Range(q),
         rows' = [rows EXCEPT ![d] = q], waiting' = [waiting EXCEPT ![d] = w]
  PROVE  QueueInv'
BY DEF QueueInv

\* The queues when a row of d is queued, put back to wait, or nothing happens to them.
LEMMA QueueKept ==
  ASSUME QueueInv, NEW d \in Devices,
         \/ UNCHANGED <<rows, waiting>> \/ EnsurePush(d)
         \/ lane[d].kind \in Kinds /\ \E l : Retry(l, d)
  PROVE  QueueInv'
<1>1. /\ rows[d] \in Seq(Kinds) /\ waiting[d] \subseteq Range(rows[d]) /\ "push" \in Kinds
      /\ rows \in [Devices -> Seq(Kinds)] /\ waiting = [e \in Devices |-> waiting[e]]
  BY DEF QueueInv, Kinds
<1>2. CASE UNCHANGED <<rows, waiting>>
  BY <1>2 DEF QueueInv
<1>3. CASE EnsurePush(d)
  <2> DEFINE q == WithPush(rows[d])
             w == waiting[d] \ {"push"}
  <2>1. q \in Seq(Kinds) /\ w \subseteq Range(q)
    BY <1>1, WithPushKeeps
  <2>2. rows' = [rows EXCEPT ![d] = q] /\ waiting' = [waiting EXCEPT ![d] = w]
    BY <1>3 DEF EnsurePush
  <2> HIDE DEF q, w
  <2> QED
    BY <2>1, <2>2, QueueSet
<1>4. CASE lane[d].kind \in Kinds /\ \E l : Retry(l, d)
  <2> DEFINE q == <<lane[d].kind>> \o Drop(rows[d], lane[d].kind)
             w == waiting[d] \cup {lane[d].kind}
  <2>1. q \in Seq(Kinds) /\ w \subseteq Range(q)
    BY <1>1, <1>4, PutBackKeeps
  <2>2. rows' = [rows EXCEPT ![d] = q] /\ waiting' = [waiting EXCEPT ![d] = w]
    BY <1>4 DEF Retry, PutBack
  <2> HIDE DEF q, w
  <2> QED
    BY <2>1, <2>2, QueueSet
<1> QED
  BY <1>2, <1>3, <1>4

\* A lane that no longer counts on what it read.
LEMMA BusyCalm ==
  ASSUME NEW l, Busy(l), IsLane(l)
  PROVE  Busy([l EXCEPT !.fileFresh = FALSE]) /\ Busy([l EXCEPT !.cardFresh = FALSE])
<1>1. CASE l = NoLane
  <2>1. /\ l = [x \in DOMAIN l |-> l[x]]
        /\ "fileFresh" \in DOMAIN l /\ "cardFresh" \in DOMAIN l
    BY <1>1 DEF NoLane
  <2>2. l.fileFresh = FALSE /\ l.cardFresh = FALSE
    BY <1>1 DEF NoLane
  <2>3. [l EXCEPT !.fileFresh = FALSE] = l /\ [l EXCEPT !.cardFresh = FALSE] = l
    BY <2>1, <2>2
  <2> QED
    BY <1>1, <2>3 DEF Busy
<1>2. CASE l.kind \in Kinds
  BY <1>2 DEF Busy, IsLane
<1> QED
  BY <1>1, <1>2 DEF Busy

\* The lanes when the lane of d is set to one at rest, or to one with a row.
LEMMA BusyKept ==
  ASSUME TrashInv, BusyInv, NEW d \in Devices, NEW l, Busy(l),
         \/ lane' = [lane EXCEPT ![d] = l]
         \/ lane' = [NoFileFresh EXCEPT ![d] = l]
         \/ lane' = [NoCardFresh EXCEPT ![d] = l]
  PROVE  BusyInv'
<1>1. lane = [e \in Devices |-> lane[e]] /\ lane'[d] = l
  BY DEF TrashInv, LaneInv, NoFileFresh, NoCardFresh
<1>2. ASSUME NEW e \in Devices \ {d} PROVE Busy(lane'[e])
  <2>1. \/ lane'[e] = lane[e]
        \/ lane'[e] = [lane[e] EXCEPT !.fileFresh = FALSE]
        \/ lane'[e] = [lane[e] EXCEPT !.cardFresh = FALSE]
    BY <1>1 DEF NoFileFresh, NoCardFresh
  <2>2. Busy(lane[e]) /\ IsLane(lane[e])
    BY RowFacts DEF BusyInv
  <2> QED
    BY <2>1, <2>2, BusyCalm
<1> QED
  BY <1>1, <1>2 DEF BusyInv

\* A row that goes on, in the words of the steps.
LEMMA BusyForms ==
  ASSUME TrashInv, BusyInv, NEW d \in Devices,
         \/ UNCHANGED lane \/ Passed(d)
         \/ Finish(lane, d) \/ Finish(NoFileFresh, d) \/ Finish(NoCardFresh, d)
         \/ Retry(lane, d) \/ Retry(NoFileFresh, d) \/ Retry(NoCardFresh, d)
         \/ /\ lane[d].pc # "idle"
            /\ \/ Again(d) \/ \E pc : Go(d, pc)
               \/ \E entry, files, destroys : Push(d, entry, files, destroys)
  PROVE  BusyInv'
<1>1. Busy(NoLane) /\ Busy(lane[d]) /\ IsLane(lane[d])
  BY RowFacts DEF BusyInv, Busy
<1>2. lane[d].pc # "idle" => lane[d].kind \in Kinds
  BY Running
<1>3. CASE UNCHANGED lane \/ Passed(d)
  <2> DEFINE l == IF lane[d].pc = "gate" THEN [lane[d] EXCEPT !.pc = "start"] ELSE lane[d]
  <2>1. UNCHANGED lane => BusyInv'
    BY DEF BusyInv
  <2>2. Busy(l)
    BY <1>1, <1>2 DEF Busy, IsLane
  <2>3. Passed(d) => lane' = [lane EXCEPT ![d] = l]
    BY LaneForms
  <2> HIDE DEF l
  <2> QED
    BY <1>3, <2>1, <2>2, <2>3, BusyKept
<1>4. CASE \/ Finish(lane, d) \/ Finish(NoFileFresh, d) \/ Finish(NoCardFresh, d)
           \/ Retry(lane, d) \/ Retry(NoFileFresh, d) \/ Retry(NoCardFresh, d)
  BY <1>1, <1>4, LaneForms, BusyKept
<1>5. CASE lane[d].pc # "idle" /\ Again(d)
  <2>1. CASE lane[d].tries < 2
    <3> DEFINE l == [lane[d] EXCEPT !.pc = "push", !.tries = lane[d].tries + 1]
    <3>1. lane' = [lane EXCEPT ![d] = l] /\ Busy(l)
      BY <1>1, <1>2, <1>5, <2>1 DEF Again, Busy, IsLane
    <3> HIDE DEF l
    <3> QED
      BY <3>1, BusyKept
  <2>2. CASE ~(lane[d].tries < 2)
    BY <1>4, <1>5, <2>2 DEF Again
  <2> QED
    BY <2>1, <2>2
<1>6. ASSUME lane[d].pc # "idle", NEW pc, Go(d, pc) PROVE BusyInv'
  <2> DEFINE l == [lane[d] EXCEPT !.pc = pc]
  <2>1. lane' = [lane EXCEPT ![d] = l] /\ Busy(l)
    BY <1>1, <1>2, <1>6 DEF Go, Busy, IsLane
  <2> HIDE DEF l
  <2> QED
    BY <2>1, BusyKept
<1>7. ASSUME lane[d].pc # "idle", NEW entry, NEW files, NEW destroys,
             Push(d, entry, files, destroys)
      PROVE  BusyInv'
  <2> DEFINE l == [lane[d] EXCEPT !.pc = "push", !.entry = entry, !.todo = files,
                                  !.destroys = destroys, !.tries = 0]
  <2>1. lane' = [lane EXCEPT ![d] = l] /\ Busy(l)
    BY <1>1, <1>2, <1>7 DEF Push, Busy, IsLane
  <2> HIDE DEF l
  <2> QED
    BY <2>1, BusyKept
<1> QED
  BY <1>3, <1>4, <1>5, <1>6, <1>7

\* Steps that do nothing to the queues and let the row go on, end it or put it back.
LEMMA RestForms ==
  ASSUME TrashInv, QueueInv, BusyInv, NEW d \in Devices,
         \/ UNCHANGED <<rows, waiting>> \/ EnsurePush(d)
         \/ lane[d].pc # "idle" /\ \E l : Retry(l, d),
         \/ UNCHANGED lane \/ Passed(d)
         \/ Finish(lane, d) \/ Finish(NoFileFresh, d) \/ Finish(NoCardFresh, d)
         \/ Retry(lane, d) \/ Retry(NoFileFresh, d) \/ Retry(NoCardFresh, d)
         \/ /\ lane[d].pc # "idle"
            /\ \/ Again(d) \/ \E pc : Go(d, pc)
               \/ \E entry, files, destroys : Push(d, entry, files, destroys)
  PROVE  QueueInv' /\ BusyInv'
BY Running, QueueKept, BusyForms

\* Asking and beginning: a row is queued behind the others, or taken.
LEMMA TakeRest ==
  ASSUME TrashInv, QueueInv, BusyInv, NEW d \in Devices,
         Begin(d) \/ \E kind \in Kinds : Ask(d, kind)
  PROVE  QueueInv' /\ BusyInv'
<1>1. /\ rows[d] \in Seq(Kinds) /\ waiting[d] \subseteq Range(rows[d])
      /\ rows \in [Devices -> Seq(Kinds)] /\ waiting = [e \in Devices |-> waiting[e]]
  BY DEF QueueInv
<1>2. ASSUME NEW kind \in Kinds, Ask(d, kind) PROVE QueueInv' /\ BusyInv'
  <2> DEFINE q == Append(rows[d], kind)
  <2>1. q \in Seq(Kinds) /\ waiting[d] \subseteq Range(q)
    BY <1>1, AppendKeeps
  <2>2. /\ rows' = [rows EXCEPT ![d] = q] /\ waiting' = [waiting EXCEPT ![d] = waiting[d]]
        /\ UNCHANGED lane
    BY <1>1, <1>2 DEF Ask
  <2> HIDE DEF q
  <2> QED
    BY <2>1, <2>2, QueueSet, BusyForms
<1>3. CASE Begin(d)
  <2>1. PICK i \in 1..Len(rows[d]) :
          /\ rows' = [rows EXCEPT ![d] = Drop(rows[d], rows[d][i])]
          /\ waiting' = [waiting EXCEPT ![d] = waiting[d] \ {rows[d][i]}]
          /\ lane' = [lane EXCEPT ![d] = [NoLane EXCEPT !.kind = rows[d][i],
                        !.pc = IF Open(d, rows[d][i]) THEN "start" ELSE "gate"]]
    BY <1>3 DEF Begin
  <2> DEFINE kind == rows[d][i]
             q == Drop(rows[d], kind)
             w == waiting[d] \ {kind}
             l == [NoLane EXCEPT !.kind = kind, !.pc = IF Open(d, kind) THEN "start" ELSE "gate"]
  <2>2. kind \in Kinds
    BY <1>1
  <2>3. q \in Seq(Kinds) /\ w \subseteq Range(q)
    BY <1>1, DropKeeps
  <2>4. Busy(l)
    BY <2>2 DEF Busy, NoLane
  <2>5. /\ rows' = [rows EXCEPT ![d] = q] /\ waiting' = [waiting EXCEPT ![d] = w]
        /\ lane' = [lane EXCEPT ![d] = l]
    BY <2>1
  <2> HIDE DEF q, w, l
  <2> QED
    BY <2>3, <2>4, <2>5, QueueSet, BusyKept
<1> QED
  BY <1>2, <1>3

\* The end of a worker: its row is queued again and waits for nothing.
LEMMA DeathRest ==
  ASSUME TrashInv, QueueInv, BusyInv, NEW d \in Devices, WorkerDies(d)
  PROVE  QueueInv' /\ BusyInv'
<1>1. /\ rows[d] \in Seq(Kinds) /\ waiting[d] \subseteq Range(rows[d])
      /\ rows \in [Devices -> Seq(Kinds)] /\ waiting = [e \in Devices |-> waiting[e]]
      /\ rows = [rows EXCEPT ![d] = rows[d]]
  BY DEF QueueInv
<1> DEFINE q == IF lane[d] = NoLane THEN rows[d]
                ELSE <<lane[d].kind>> \o Drop(rows[d], lane[d].kind)
           w == waiting[d] \ {lane[d].kind}
<1>2. lane[d] # NoLane => lane[d].kind \in Kinds
  BY DEF BusyInv, Busy
<1>3. q \in Seq(Kinds) /\ w \subseteq Range(q)
  BY <1>1, <1>2, PutBackKeeps
<1>4. rows' = [rows EXCEPT ![d] = q] /\ waiting' = [waiting EXCEPT ![d] = w] /\ Finish(lane, d)
  BY <1>1 DEF WorkerDies, PutBack
<1> HIDE DEF q, w
<1> QED
  BY <1>3, <1>4, QueueSet, BusyForms

\* The steps that set the lane in words of their own.
LEMMA OwnRest ==
  ASSUME TrashInv, QueueInv, BusyInv, NEW d \in Devices,
         \/ PushRead(d) \/ PushWrite(d) \/ PushConfirm(d) \/ Fetch(d) \/ Stage(d)
         \/ Destroy(d) \/ Lookup(d) \/ Create(d)
  PROVE  QueueInv' /\ BusyInv'
<1>1. lane[d].pc # "idle" => lane[d].kind \in Kinds /\ IsLane(lane[d])
  BY Running, RowFacts
<1>2. ASSUME lane[d].pc # "idle", NEW l, l.kind = lane[d].kind \/ l.kind = "delete",
             \/ lane' = [lane EXCEPT ![d] = l]
             \/ lane' = [NoFileFresh EXCEPT ![d] = l]
             \/ lane' = [NoCardFresh EXCEPT ![d] = l],
             UNCHANGED rowVars
      PROVE  QueueInv' /\ BusyInv'
  <2>1. Busy(l)
    BY <1>1, <1>2 DEF Busy, Kinds
  <2> QED
    BY <1>2, <2>1, QueueKept, BusyKept DEF rowVars
<1>3. ASSUME lane[d].pc # "idle", Again(d) PROVE QueueInv' /\ BusyInv'
  <2>1. UNCHANGED <<rows, waiting>> \/ Retry(lane, d)
    BY <1>3 DEF Again, rowVars
  <2> QED
    BY <1>3, <2>1, RestForms
<1>4. CASE PushRead(d)
  <2> DEFINE l == IF File(d) \in dirty[d]
                  THEN [lane[d] EXCEPT !.pc = "write", !.fileFresh = TRUE, !.sent = docs'[d][File(d)]]
                  ELSE [lane[d] EXCEPT !.todo = lane[d].todo \ {File(d)}]
  <2>1. lane' = [lane EXCEPT ![d] = l] /\ UNCHANGED rowVars /\ lane[d].pc # "idle"
    BY <1>4 DEF PushRead
  <2>2. l.kind = lane[d].kind
    BY <1>1, <2>1 DEF IsLane
  <2> HIDE DEF l
  <2> QED
    BY <1>2, <2>1, <2>2
<1>5. CASE PushWrite(d)
  <2>1. lane[d].pc # "idle"
    BY <1>5 DEF PushWrite
  <2>2. CASE Fresh(d)
    <3> DEFINE l == [NoFileFresh[d] EXCEPT !.pc = "confirm"]
    <3>1. lane' = [NoFileFresh EXCEPT ![d] = l] /\ UNCHANGED rowVars
      BY <1>5, <2>2 DEF PushWrite
    <3>2. l.kind = lane[d].kind
      BY <1>1, <2>1 DEF NoFileFresh, IsLane
    <3> HIDE DEF l
    <3> QED
      BY <1>2, <2>1, <3>1, <3>2
  <2>3. CASE ~Fresh(d)
    BY <1>3, <1>5, <2>1, <2>3 DEF PushWrite
  <2> QED
    BY <2>2, <2>3
<1>6. CASE PushConfirm(d)
  <2>1. lane[d].pc # "idle"
    BY <1>6 DEF PushConfirm
  <2>2. CASE Uploaded(d, File(d))
    <3> DEFINE l == [lane[d] EXCEPT !.pc = "push", !.sent = {},
                                    !.todo = lane[d].todo \ {File(d)}, !.tries = 0]
    <3>1. lane' = [lane EXCEPT ![d] = l] /\ UNCHANGED rowVars
      BY <1>6, <2>2 DEF PushConfirm
    <3>2. l.kind = lane[d].kind
      BY <1>1, <2>1 DEF IsLane
    <3> HIDE DEF l
    <3> QED
      BY <1>2, <2>1, <3>1, <3>2
  <2>3. CASE ~Uploaded(d, File(d))
    BY <1>3, <1>6, <2>1, <2>3 DEF PushConfirm
  <2> QED
    BY <2>2, <2>3
<1>7. CASE Fetch(d)
  <2>1. lane[d].pc # "idle" /\ UNCHANGED rowVars
    BY <1>7 DEF Fetch, At
  <2>2. CASE Finish(lane, d)
    BY <2>1, <2>2, RestForms DEF rowVars
  <2>3. ASSUME NEW c, NEW r,
               lane' = [lane EXCEPT ![d] = [@ EXCEPT !.pc = "stage", !.card = c,
                                                     !.cardFresh = TRUE, !.entry = r]]
        PROVE  QueueInv' /\ BusyInv'
    <3> DEFINE l == [lane[d] EXCEPT !.pc = "stage", !.card = c, !.cardFresh = TRUE, !.entry = r]
    <3>1. lane' = [lane EXCEPT ![d] = l] /\ l.kind = lane[d].kind
      BY <1>1, <2>1, <2>3 DEF IsLane
    <3> HIDE DEF l
    <3> QED
      BY <1>2, <2>1, <3>1
  <2> QED
    BY <1>7, <2>2, <2>3 DEF Fetch
<1>8. CASE Stage(d)
  <2>1. lane[d].pc # "idle" /\ UNCHANGED <<rows, waiting>>
    BY <1>8 DEF Stage, At, rowVars
  <2>2. Finish(lane, d) \/ \E entry, files, destroys : Push(d, entry, files, destroys)
    BY <1>8 DEF Stage
  <2> QED
    BY <2>1, <2>2, RestForms
<1>9. CASE Destroy(d)
  <2>1. lane[d].pc # "idle"
    BY <1>9 DEF Destroy
  <2>2. CASE Finish(NoCardFresh, d) /\ UNCHANGED rowVars
    BY <2>2, RestForms DEF rowVars
  <2>3. CASE /\ lane' = [lane EXCEPT ![d] = [NoLane EXCEPT !.kind = "delete", !.pc = "start",
                                                           !.rounds = lane[d].rounds + 1]]
             /\ UNCHANGED rowVars
    <3> DEFINE l == [NoLane EXCEPT !.kind = "delete", !.pc = "start", !.rounds = lane[d].rounds + 1]
    <3>1. lane' = [lane EXCEPT ![d] = l] /\ l.kind = "delete"
      BY <2>3 DEF NoLane
    <3> HIDE DEF l
    <3> QED
      BY <1>2, <2>1, <2>3, <3>1
  <2>4. CASE Retry(lane, d)
    BY <2>1, <2>4, RestForms
  <2> QED
    BY <1>9, <2>2, <2>3, <2>4 DEF Destroy
<1>10. CASE Lookup(d)
  <2>1. lane[d].pc # "idle" /\ UNCHANGED rowVars
    BY <1>10 DEF Lookup, At
  <2>2. CASE Go(d, "mark") \/ Finish(lane, d)
    BY <2>1, <2>2, RestForms DEF rowVars
  <2>3. ASSUME NEW pc, NEW c, lane' = [lane EXCEPT ![d] = [@ EXCEPT !.pc = pc, !.card = c]]
        PROVE  QueueInv' /\ BusyInv'
    <3> DEFINE l == [lane[d] EXCEPT !.pc = pc, !.card = c]
    <3>1. lane' = [lane EXCEPT ![d] = l] /\ l.kind = lane[d].kind
      BY <1>1, <2>1, <2>3 DEF IsLane
    <3> HIDE DEF l
    <3> QED
      BY <1>2, <2>1, <3>1
  <2> QED
    BY <1>10, <2>2, <2>3 DEF Lookup
<1>11. CASE Create(d)
  <2> DEFINE l == [NoCardFresh[d] EXCEPT !.pc = "reconcile", !.card = Created(d)]
  <2>1. lane' = [NoCardFresh EXCEPT ![d] = l] /\ UNCHANGED rowVars /\ lane[d].pc # "idle"
    BY <1>11 DEF Create
  <2>2. l.kind = lane[d].kind
    BY <1>1, <2>1 DEF NoCardFresh, IsLane
  <2> HIDE DEF l
  <2> QED
    BY <1>2, <2>1, <2>2
<1> QED
  BY <1>4, <1>5, <1>6, <1>7, <1>8, <1>9, <1>10, <1>11

\* All the other steps of the lane.
LEMMA LaneRest ==
  ASSUME TrashInv, QueueInv, BusyInv, [Next]_vars
  PROVE  QueueInv' /\ BusyInv'
<1>1. ASSUME NEW d \in Devices, PullStep(d) PROVE QueueInv' /\ BusyInv'
  <2>1. UNCHANGED lane \/ Passed(d)
    BY <1>1 DEF PullStep, PullFile, PullEnds, Receive, Handle
  <2>2. UNCHANGED <<rows, waiting>> \/ EnsurePush(d)
    BY <1>1 DEF PullStep, PullFile, PullEnds, Receive, Handle, Repair, rowVars
  <2> QED
    BY <2>1, <2>2, RestForms
<1>2. ASSUME NEW d \in Devices,
             PushEnds(d) \/ PushAll(d) \/ Reconcile(d) \/ SetStatus(d)
      PROVE  QueueInv' /\ BusyInv'
  <2>1. lane[d].pc # "idle"
    BY <1>2 DEF PushEnds, PushAll, Reconcile, SetStatus, At
  <2>2. \/ Finish(lane, d) \/ Retry(lane, d) \/ \E pc : Go(d, pc)
        \/ \E entry, files, destroys : Push(d, entry, files, destroys)
    BY <1>2 DEF PushEnds, PushAll, Reconcile, SetStatus
  <2>3. UNCHANGED <<rows, waiting>> \/ EnsurePush(d) \/ Retry(lane, d)
    BY <1>2 DEF PushEnds, PushAll, Reconcile, SetStatus, rowVars
  <2> QED
    BY <2>1, <2>2, <2>3, RestForms
<1>3. ASSUME NEW d \in Devices,
             \/ PullFails(d) \/ FrameLost(d) \/ PushFails(d) \/ DestroyFails(d)
             \/ CreateFails(d)
      PROVE  QueueInv' /\ BusyInv'
  <2>1. \/ UNCHANGED <<rows, waiting, lane>>
        \/ /\ lane[d].pc # "idle"
           /\ \/ Retry(lane, d) \/ Retry(NoFileFresh, d) \/ Retry(NoCardFresh, d)
              \/ UNCHANGED <<rows, waiting>> /\ (Finish(lane, d) \/ Go(d, "mark"))
    BY <1>3 DEF PullFails, FrameLost, PushFails, DestroyFails, CreateFails, rowVars
  <2> QED
    BY <2>1, RestForms
<1>4. ASSUME Edit PROVE QueueInv' /\ BusyInv'
  <2>1. UNCHANGED <<rows, waiting>> /\ lane' = NoCardFresh
    BY <1>4 DEF Edit, rowVars
  <2>2. QueueInv'
    BY <2>1 DEF QueueInv
  <2>3. ASSUME NEW d \in Devices PROVE Busy(lane'[d])
    <3>1. lane'[d] = [lane[d] EXCEPT !.cardFresh = FALSE] /\ Busy(lane[d]) /\ IsLane(lane[d])
      BY <2>1, RowFacts DEF NoCardFresh, BusyInv
    <3> QED
      BY <3>1, BusyCalm
  <2> QED
    BY <2>2, <2>3 DEF BusyInv
<1>5. CASE UNCHANGED vars
  BY <1>5 DEF vars, rowVars, QueueInv, BusyInv
<1>6. ASSUME NEW d \in Devices, RowStep(d) PROVE QueueInv' /\ BusyInv'
  BY <1>2, <1>6, TakeRest, OwnRest DEF RowStep, PushStep
<1>7. ASSUME NEW d \in Devices, FaultStep(d) PROVE QueueInv' /\ BusyInv'
  BY <1>3, <1>7, DeathRest DEF FaultStep
<1>8. ASSUME NEW d \in Devices, NEW kind \in Kinds, Ask(d, kind) PROVE QueueInv' /\ BusyInv'
  BY <1>8, TakeRest
<1> QED
  BY <1>1, <1>4, <1>5, <1>6, <1>7, <1>8 DEF Next, Step

\* A mishap stays within the bound.
LEMMA FaultTyped == Fault /\ faults \in 0..MaxMishaps => faults' \in 0..MaxMishaps
BY TrashAssumption DEF Fault

\* The flags of a device are set to values of theirs.
LEMMA FlagSet ==
  ASSUME TrashInv, FlagInv, NEW d \in Devices,
         UNCHANGED ready \/ \E b \in BOOLEAN : ready' = [ready EXCEPT ![d] = b],
         \/ UNCHANGED news \/ news' = [e \in Devices |-> TRUE]
         \/ news' = [news EXCEPT ![d] = FALSE],
         \/ UNCHANGED frames
         \/ \E F \in SUBSET {"queued", "handled"} : frames' = [frames EXCEPT ![d] = F],
         \/ UNCHANGED pull \/ Discover(d) \/ Refresh(d) \/ pull' = [pull EXCEPT ![d] = NoPull]
         \/ \E F : pull' = [pull EXCEPT ![d] = [pull[d] EXCEPT !.found = F]],
         \/ UNCHANGED givenUp \/ givenUp' = givenUp \cup {"purged"}
         \/ givenUp' = givenUp \cup {"refused"},
         UNCHANGED faults \/ Fault
  PROVE  FlagInv'
<1>1. ready' \in [Devices -> BOOLEAN] /\ news' \in [Devices -> BOOLEAN]
  BY DEF FlagInv
<1>2. frames' \in [Devices -> SUBSET {"queued", "handled"}]
  BY DEF FlagInv
<1>3. givenUp' \subseteq {"purged", "refused"} /\ faults' \in 0..MaxMishaps
  BY FaultTyped DEF FlagInv
<1>4. \A e \in Devices : pull'[e].pc \in {"idle", "reading"}
  <2>1. /\ pull = [e \in Devices |-> pull[e]]
        /\ pull[d] \in [pc : {pull[d].pc}, found : {pull[d].found}]
        /\ \A e \in Devices : pull[e].pc \in {"idle", "reading"}
    BY DEF TrashInv, PullInv, PullGood, FlagInv
  <2>2. ASSUME NEW p, pull' = [pull EXCEPT ![d] = p], p.pc \in {"idle", "reading"}
        PROVE  \A e \in Devices : pull'[e].pc \in {"idle", "reading"}
    BY <2>1, <2>2
  <2>3. CASE UNCHANGED pull
    BY <2>1, <2>3
  <2>4. ASSUME Discover(d) PROVE \A e \in Devices : pull'[e].pc \in {"idle", "reading"}
    BY <2>2, <2>4 DEF Discover
  <2>5. CASE pull' = [pull EXCEPT ![d] = NoPull]
    BY <2>2, <2>5 DEF NoPull
  <2>6. ASSUME NEW F, pull' = [pull EXCEPT ![d] = [pull[d] EXCEPT !.found = F]]
        PROVE  \A e \in Devices : pull'[e].pc \in {"idle", "reading"}
    <3>1. [pull[d] EXCEPT !.found = F].pc = pull[d].pc
      BY <2>1
    <3> QED
      BY <2>1, <2>2, <2>6, <3>1
  <2> QED
    BY <2>3, <2>4, <2>5, <2>6 DEF Refresh
<1> QED
  BY <1>1, <1>2, <1>3, <1>4 DEF FlagInv

\* Every step leaves the flags what they may be.
LEMMA FlagKept ==
  ASSUME TrashInv, FlagInv, [Next]_vars
  PROVE  FlagInv'
<1>1. ASSUME NEW d \in Devices PROVE frames[d] \subseteq {"queued", "handled"}
  BY DEF FlagInv
<1>2. ASSUME NEW d \in Devices, PullFile(d) PROVE FlagInv'
  BY <1>2, FlagSet DEF PullFile, frameVars, countVars
<1>3. ASSUME NEW d \in Devices, PullEnds(d) PROVE FlagInv'
  <2>1. frames[d] \ {"handled"} \in SUBSET {"queued", "handled"}
    BY <1>1
  <2> QED
    BY <1>3, <2>1, FlagSet DEF PullEnds
<1>4. ASSUME NEW d \in Devices, Receive(d) \/ Handle(d) PROVE FlagInv'
  <2>1. /\ frames[d] \cup {"queued"} \in SUBSET {"queued", "handled"}
        /\ {"handled"} \in SUBSET {"queued", "handled"}
    BY <1>1
  <2> QED
    BY <1>4, <2>1, FlagSet DEF Receive, Handle, countVars
<1>5. ASSUME NEW d \in Devices, RowStep(d) PROVE FlagInv'
  <2>1. UNCHANGED <<ready, frames, givenUp, faults>>
    BY <1>5 DEF RowStep, PushStep, Begin, PushRead, PushWrite, PushConfirm, PushEnds, PushAll,
       Fetch, Stage, Destroy, Lookup, Create, Reconcile, SetStatus, frameVars, countVars
  <2>2. UNCHANGED news \/ news' = [e \in Devices |-> TRUE]
    BY <1>5 DEF RowStep, PushStep, Begin, PushRead, PushWrite, PushConfirm, PushEnds, PushAll,
       Fetch, Stage, Destroy, Lookup, Create, Reconcile, SetStatus, frameVars, ServeFile
  <2>3. UNCHANGED pull \/ Refresh(d)
    BY <1>5 DEF RowStep, PushStep, Begin, PushRead, PushWrite, PushConfirm, PushEnds, PushAll,
       Fetch, Stage, Destroy, Lookup, Create, Reconcile, SetStatus
  <2> QED
    BY <2>1, <2>2, <2>3, FlagSet
<1>6. ASSUME NEW d \in Devices, FaultStep(d) PROVE FlagInv'
  <2>1. /\ UNCHANGED ready \/ ready' = [ready EXCEPT ![d] = FALSE]
        /\ \/ UNCHANGED news \/ news' = [e \in Devices |-> TRUE]
           \/ news' = [news EXCEPT ![d] = FALSE]
        /\ UNCHANGED givenUp \/ givenUp' = givenUp \cup {"refused"}
        /\ Fault
    BY <1>6 DEF FaultStep, PullFails, FrameLost, PushFails, DestroyFails, CreateFails, WorkerDies,
       frameVars, ServeFile
  <2>2. \/ UNCHANGED pull \/ Discover(d) \/ Refresh(d) \/ pull' = [pull EXCEPT ![d] = NoPull]
    BY <1>6 DEF FaultStep, PullFails, FrameLost, PushFails, DestroyFails, CreateFails, WorkerDies
  <2>3. \/ UNCHANGED frames
        \/ \E F \in SUBSET {"queued", "handled"} : frames' = [frames EXCEPT ![d] = F]
    <3>1. CASE PullFails(d)
      <4> DEFINE F == IF "handled" \in frames[d] THEN {"queued"} ELSE frames[d]
      <4>1. frames' = [frames EXCEPT ![d] = F] /\ F \in SUBSET {"queued", "handled"}
        BY <1>1, <3>1 DEF PullFails
      <4> QED
        BY <4>1
    <3>2. CASE WorkerDies(d)
      BY <3>2 DEF WorkerDies
    <3> QED
      BY <1>6, <3>1, <3>2 DEF FaultStep, FrameLost, PushFails, DestroyFails, CreateFails, frameVars
  <2> QED
    BY <2>1, <2>2, <2>3, FlagSet
<1>7. ASSUME NEW d \in Devices, NEW kind \in Kinds, Ask(d, kind) PROVE FlagInv'
  BY <1>7, FlagSet DEF Ask, frameVars
<1>8. ASSUME Edit PROVE FlagInv'
  BY <1>8 DEF Edit, frameVars, FlagInv
<1>9. CASE UNCHANGED vars
  BY <1>9 DEF vars, frameVars, countVars, FlagInv
<1> QED
  BY <1>2, <1>3, <1>4, <1>5, <1>6, <1>7, <1>8, <1>9 DEF Next, Step, PullStep

\* The rest of the types at the start.
LEMMA InitRest == Init => RestInv
<1> SUFFICES ASSUME Init PROVE RestInv
  OBVIOUS
<1>1. <<>> \in Seq(Kinds)
  OBVIOUS
<1>2. QueueInv /\ BusyInv
  BY <1>1 DEF Init, QueueInv, BusyInv, Busy
<1>3. FlagInv /\ deleting \subseteq Devices
  BY DEF Init, FlagInv, NoPull
<1> QED
  BY <1>2, <1>3 DEF RestInv

\* All steps leave the rest of the types what they may be.
LEMMA RestKept == RestInv /\ TrashInv /\ [Next]_vars => RestInv'
<1>1. deleting \subseteq Devices /\ [Next]_vars => deleting' \subseteq Devices
  BY DEF Next, Remember, vars
<1> QED
  BY <1>1, LaneRest, FlagKept DEF RestInv

\* The parts of the invariants make up the type invariant.
LEMMA RestTypes == TrashInv /\ RowInv /\ RestInv => TypeOK
<1> SUFFICES ASSUME TrashInv, RowInv, RestInv PROVE TypeOK
  OBVIOUS
<1>1. ASSUME NEW d \in Devices
      PROVE  /\ docs[d] \in FilesType /\ known[d] \in FilesType
             /\ dirty[d] \subseteq Files /\ listed[d] \in Records \cup {None}
             /\ rows[d] \in Seq(Kinds) /\ waiting[d] \subseteq Range(rows[d])
             /\ target[d] \in Ids /\ {ready[d], news[d]} \subseteq BOOLEAN
             /\ frames[d] \subseteq {"queued", "handled"} /\ pull[d].pc \in {"idle", "reading"}
  BY DEF TrashInv, DocsInv, RowInv, RestInv, QueueInv, FlagInv
<1>2. ASSUME NEW d \in Devices
      PROVE  lane[d] \in [kind : Kinds \cup {"none"}, pc : Pcs, card : Cards,
               entry : Records \cup {None}, todo : SUBSET Files, sent : SUBSET Records,
               destroys : BOOLEAN, cardFresh : BOOLEAN, fileFresh : BOOLEAN,
               tries : 0..2, rounds : 0..2]
  <2>1. IsLane(lane[d]) /\ lane[d].kind \in AnyKind
    BY RowFacts DEF RowInv, LanePc
  <2> QED
    BY <2>1 DEF IsLane, AnyKind
<1>3. ASSUME NEW d \in Devices
      PROVE  DOMAIN pull[d].found \subseteq Files /\ Range(pull[d].found) \subseteq SUBSET Records
  <2>1. PullGood(pull[d], remote) /\ remote \in FilesType
    BY DEF TrashInv, PullInv, ServerInv
  <2> QED
    BY <2>1 DEF PullGood, FilesType, Range
<1>4. /\ cards \subseteq Cards /\ remote \in FilesType /\ asks \in 0..MaxAsks
      /\ givenUp \subseteq {"purged", "refused"} /\ faults \in 0..MaxMishaps
      /\ deleting \subseteq Devices
  BY DEF TrashInv, ServerInv, RestInv, FlagInv
<1> QED
  BY <1>1, <1>2, <1>3, <1>4 DEF TypeOK, FilesType, Pcs

(***************************************************************************)
(* The contact is kept, but behind a restore of another device.            *)
(***************************************************************************)
\* Two records of which neither wins are the same.
LEMMA WinsTotal ==
  ASSUME NEW r \in Records, NEW q \in Records, ~Wins(r, q), ~Wins(q, r)
  PROVE  r = q
<1>1. \A x \in Records : x.at \in Nat /\ x.card.id \in Nat /\ x.card.ver \in Nat
  BY TrashAssumption DEF Records, Cards, Ids
<1>2. \A x \in Records : x.status \in {"trashed", "restored", "purged"}
  BY DEF Records
<1>3. r.at = q.at /\ Rank(r) = Rank(q) /\ r.card.id = q.card.id /\ r.card.ver = q.card.ver
  <2>1. \A x \in Records : Rank(x) \in {0, 1, 2}
    BY DEF Rank
  <2> QED
    BY <1>1, <2>1 DEF Wins
<1>4. r.status = q.status
  BY <1>2, <1>3 DEF Rank
<1>5. r.card = q.card
  BY <1>3 DEF Records, Cards
<1> QED
  BY <1>3, <1>4, <1>5 DEF Records

\* A snapshot that is the latest of more records was the latest of those it was among.
LEMMA LatestWas ==
  ASSUME NEW D \in FilesType, NEW E \in FilesType, Headed(All(D)), Headed(All(E)),
         Grows(D, E), Active(Top(E)), Top(E) \in All(D)
  PROVE  Top(D) = Top(E)
<1>1. All(D) \subseteq All(E) /\ All(E) \subseteq Records
  BY DEF Grows, All, FilesType
<1>2. /\ Top(D) \in All(D) /\ \A q \in All(D) : ~Wins(q, Top(D))
      /\ \A q \in All(E) : ~Wins(q, Top(E))
  BY <1>1, TopHead
<1> QED
  BY <1>1, <1>2, WinsTotal

\* A queue that loses a row, or gets it back, has no row it had not.
LEMMA QueueShrinks ==
  ASSUME NEW S, NEW s \in Seq(S), NEW k \in S
  PROVE  /\ Range(Drop(s, k)) \subseteq Range(s)
         /\ Range(<<k>> \o Drop(s, k)) \subseteq Range(s) \cup {k}
<1>1. Drop(s, k) \in Seq(S) /\ Range(Drop(s, k)) \subseteq Range(s)
  <2>1. CASE k \notin Range(s)
    BY <2>1 DEF Drop
  <2>2. CASE k \in Range(s)
    <3> DEFINE i == CHOOSE j \in DOMAIN s : s[j] = k
               a == SubSeq(s, 1, i - 1)
               b == SubSeq(s, i + 1, Len(s))
    <3>1. i \in 1..Len(s)
      BY <2>2 DEF Range
    <3>2. Drop(s, k) = a \o b
      BY <2>2 DEF Drop
    <3> HIDE DEF i
    <3>3. /\ a \in Seq(S) /\ Len(a) = i - 1 /\ \A j \in 1..i - 1 : a[j] = s[j]
          /\ b \in Seq(S) /\ Len(b) = Len(s) - i
          /\ \A j \in 1..Len(s) - i : b[j] = s[i + j]
      BY <3>1
    <3> HIDE DEF a, b
    <3>4. DOMAIN (a \o b) = 1..Len(s) - 1 /\ a \o b \in Seq(S)
      BY <3>1, <3>3
    <3>5. ASSUME NEW j \in 1..Len(s) - 1 PROVE \E m \in 1..Len(s) : (a \o b)[j] = s[m]
      <4>1. CASE j < i
        <5>1. j \in 1..i - 1 /\ j \in 1..Len(s)
          BY <3>1, <4>1
        <5>2. (a \o b)[j] = a[j]
          BY <3>1, <3>3, <5>1
        <5> QED
          BY <3>3, <5>1, <5>2
      <4>2. CASE j >= i
        <5>1. (a \o b)[j] = b[j - (i - 1)] /\ j - (i - 1) \in 1..Len(s) - i
          BY <3>1, <3>3, <4>2
        <5>2. (a \o b)[j] = s[i + (j - (i - 1))]
          BY <3>3, <5>1
        <5>3. i + (j - (i - 1)) = j + 1 /\ j + 1 \in 1..Len(s)
          BY <3>1
        <5> QED
          BY <5>2, <5>3
      <4>3. i \in Int /\ j \in Int
        BY <3>1
      <4>4. j < i \/ j >= i
        BY <4>3
      <4> QED
        BY <4>1, <4>2, <4>4
    <3> DEFINE c == a \o b
    <3>6. /\ DOMAIN c = 1..Len(s) - 1 /\ DOMAIN s = 1..Len(s)
          /\ \A j \in DOMAIN c : \E m \in DOMAIN s : c[j] = s[m]
      <4>1. DOMAIN c = 1..Len(s) - 1 /\ DOMAIN s = 1..Len(s)
        BY <3>4
      <4>2. \A j \in 1..Len(s) - 1 : \E m \in 1..Len(s) : c[j] = s[m]
        BY <3>5
      <4> HIDE DEF c
      <4> QED
        BY <4>1, <4>2
    <3> HIDE DEF c
    <3>7. Range(c) \subseteq Range(s)
      BY <3>6 DEF Range
    <3> QED
      BY <3>2, <3>4, <3>7 DEF c
  <2> QED
    BY <2>1, <2>2
<1> DEFINE t == Drop(s, k)
           u == <<k>> \o t
<1> HIDE DEF t
<1>2. t \in Seq(S) /\ Range(t) \subseteq Range(s)
  BY <1>1 DEF t
<1>3. /\ DOMAIN u = 1..Len(t) + 1 /\ u[1] = k
      /\ \A i \in 2..Len(t) + 1 : u[i] = t[i - 1] /\ i - 1 \in 1..Len(t)
      /\ DOMAIN t = 1..Len(t) /\ Len(t) \in Nat
  BY <1>2
<1> HIDE DEF u
<1>4. \A i \in 1..Len(t) + 1 : i = 1 \/ i \in 2..Len(t) + 1
  BY <1>3
<1>5. Range(u) \subseteq Range(t) \cup {k}
  BY <1>3, <1>4 DEF Range
<1> QED
  BY <1>2, <1>5 DEF t, u

\* How the row of e goes on as m: what it pushes stays, and what it stages is the
\* latest; a refused delete is given up, and what is to be marked is a card or no
\* longer in the trash.
Latest(e, r) == r \in Records /\ \A q \in All(docs'[e]) : ~Wins(q, r)
Earned(e, kind) ==
  \/ kind = "delete" /\ givenUp' # {} /\ lane[e].pc = "destroy"
  \/ /\ kind # "delete"
     /\ cards' # {} \/ (~Active(listed[e]) /\ docs'[e] = docs[e])
Goes(e, m) ==
  /\ m.kind \in {lane[e].kind, "none"} \cup Range(rows[e])
  /\ \/ m.pc \in {"idle", "gate", "start", "stage", "create", "reconcile"}
     \/ Alike(lane[e], m)
     \/ /\ lane[e].pc \in Pushing /\ m.pc \in Pushing
        /\ m.entry = lane[e].entry /\ m.destroys = lane[e].destroys
     \/ m.pc = "mark" /\ Earned(e, m.kind)
     \/ m.pc = "push" /\ (m.destroys => lane[e].pc = "stage" /\ Latest(e, m.entry))

\* The rows that are queued: those there were, a push, and what is asked for.
Asked(e, k) ==
  k = "purge" => givenUp' # {}
Queued(e) ==
  \A k \in Range(rows'[e]) : k \in Range(rows[e]) \cup {lane[e].kind, "push"} \/ Asked(e, k)

\* Who records what: a delete a snapshot, a restore that a card is back, and the
\* rest that the contact is given up.
MayRecord(e, r) ==
  \/ Active(r) /\ lane[e].pc = "stage"
  \/ /\ r.status = "restored" /\ UNCHANGED cards
     /\ lane[e].kind = "restore" /\ lane[e].pc = "mark" /\ Active(Top(docs[e]))
  \/ /\ r.status = "purged"
     /\ givenUp' # {} \/ lane[e].kind = "purge" \/ (lane[e].kind = "delete" /\ lane[e].pc = "mark")
Notes(e) ==
  \/ /\ \A f \in Files : docs'[e][f] \subseteq docs[e][f] \cup remote[f]
     /\ listed'[e] = listed[e] \/ listed'[e] = Top(docs'[e])
  \/ \E f \in Files, r \in Records :
       /\ docs'[e] = [docs[e] EXCEPT ![f] = docs[e][f] \cup {r}] /\ MayRecord(e, r)
       /\ listed'[e] = Top(docs'[e])

\* The last card goes only with a destroy.
LastCard ==
  cards # {} /\ cards' = {} =>
    UNCHANGED <<remote, docs>> /\ \E e \in Devices : lane[e].pc = "destroy"

Ways ==
  /\ \A e \in Devices : Goes(e, lane'[e]) /\ Queued(e) /\ Notes(e)
  /\ givenUp \subseteq givenUp' /\ LastCard

\* The rows when the row of d goes on as l.
LEMMA AllGo ==
  ASSUME TrashInv, NEW d \in Devices, NEW l, Goes(d, l),
         \/ lane' = [lane EXCEPT ![d] = l]
         \/ lane' = [NoFileFresh EXCEPT ![d] = l]
         \/ lane' = [NoCardFresh EXCEPT ![d] = l]
  PROVE  \A e \in Devices : Goes(e, lane'[e])
<1>1. lane'[d] = l /\ \A e \in Devices \ {d} : Alike(lane[e], lane'[e])
  BY LaneSet
<1>2. ASSUME NEW e \in Devices \ {d} PROVE Goes(e, lane'[e])
  BY <1>1 DEF Goes, Alike
<1> QED
  BY <1>1, <1>2

\* A row that is left alone, let through, put back or ended, or pushes on.
LEMMA PlainGo ==
  ASSUME TrashInv, NEW d \in Devices,
         \/ UNCHANGED lane \/ Passed(d)
         \/ Finish(lane, d) \/ Finish(NoFileFresh, d) \/ Finish(NoCardFresh, d)
         \/ Retry(lane, d) \/ Retry(NoFileFresh, d) \/ Retry(NoCardFresh, d)
         \/ lane[d].pc \in Pushing /\ (Again(d) \/ Go(d, "destroy"))
  PROVE  \A e \in Devices : Goes(e, lane'[e])
<1>1. IsLane(lane[d])
  BY RowFacts
<1>2. Goes(d, NoLane) /\ Goes(d, lane[d])
  BY DEF Goes, NoLane, Alike
<1>3. CASE UNCHANGED lane
  <2>1. lane' = [lane EXCEPT ![d] = lane[d]]
    BY <1>3, LaneForms
  <2> QED
    BY <1>2, <2>1, AllGo
<1>4. CASE Passed(d)
  <2> DEFINE l == IF lane[d].pc = "gate" THEN [lane[d] EXCEPT !.pc = "start"] ELSE lane[d]
  <2>1. Goes(d, l)
    BY <1>1, <1>2 DEF Goes, IsLane
  <2>2. lane' = [lane EXCEPT ![d] = l]
    BY <1>4, LaneForms
  <2> HIDE DEF l
  <2> QED
    BY <2>1, <2>2, AllGo
<1>5. CASE \/ Finish(lane, d) \/ Finish(NoFileFresh, d) \/ Finish(NoCardFresh, d)
           \/ Retry(lane, d) \/ Retry(NoFileFresh, d) \/ Retry(NoCardFresh, d)
  BY <1>2, <1>5, LaneForms, AllGo
<1>6. CASE lane[d].pc \in Pushing /\ Again(d)
  <2>1. CASE lane[d].tries < 2
    <3> DEFINE l == [lane[d] EXCEPT !.pc = "push", !.tries = lane[d].tries + 1]
    <3>1. lane' = [lane EXCEPT ![d] = l]
      BY <1>6, <2>1 DEF Again
    <3>2. Goes(d, l)
      BY <1>1, <1>6 DEF Goes, IsLane, Pushing
    <3> HIDE DEF l
    <3> QED
      BY <3>1, <3>2, AllGo
  <2>2. CASE ~(lane[d].tries < 2)
    BY <1>5, <1>6, <2>2 DEF Again
  <2> QED
    BY <2>1, <2>2
<1>7. CASE lane[d].pc \in Pushing /\ Go(d, "destroy")
  <2> DEFINE l == [lane[d] EXCEPT !.pc = "destroy"]
  <2>1. lane' = [lane EXCEPT ![d] = l]
    BY <1>7, LaneForms
  <2>2. Goes(d, l)
    BY <1>1, <1>7 DEF Goes, IsLane, Pushing
  <2> HIDE DEF l
  <2> QED
    BY <2>1, <2>2, AllGo
<1> QED
  BY <1>3, <1>4, <1>5, <1>6, <1>7

\* A row that goes on to push files, or to mark, or with another card.
LEMMA OtherGo ==
  ASSUME TrashInv, NEW d \in Devices
  PROVE  /\ \A entry, files : \A destroys \in BOOLEAN :
              Push(d, entry, files, destroys)
                /\ (destroys => lane[d].pc = "stage" /\ Latest(d, entry))
                => \A e \in Devices : Goes(e, lane'[e])
         /\ Earned(d, lane[d].kind) /\ Go(d, "mark")
              => \A e \in Devices : Goes(e, lane'[e])
         /\ \A pc \in {"create", "reconcile"} : \A c :
              lane' = [lane EXCEPT ![d] = [lane[d] EXCEPT !.pc = pc, !.card = c]]
                => \A e \in Devices : Goes(e, lane'[e])
<1>1. IsLane(lane[d])
  BY RowFacts
<1>2. ASSUME NEW entry, NEW files, NEW destroys \in BOOLEAN,
             Push(d, entry, files, destroys),
             destroys => lane[d].pc = "stage" /\ Latest(d, entry)
      PROVE  \A e \in Devices : Goes(e, lane'[e])
  <2> DEFINE l == [lane[d] EXCEPT !.pc = "push", !.entry = entry, !.todo = files,
                                  !.destroys = destroys, !.tries = 0]
  <2>1. lane' = [lane EXCEPT ![d] = l]
    BY <1>2 DEF Push
  <2>2. Goes(d, l)
    <3>1. l.kind = lane[d].kind /\ l.pc = "push" /\ l.entry = entry /\ l.destroys = destroys
      BY <1>1 DEF IsLane
    <3> HIDE DEF l
    <3> QED
      BY <1>2, <3>1 DEF Goes
  <2> HIDE DEF l
  <2> QED
    BY <2>1, <2>2, AllGo
<1>3. ASSUME Earned(d, lane[d].kind), Go(d, "mark")
      PROVE  \A e \in Devices : Goes(e, lane'[e])
  <2> DEFINE l == [lane[d] EXCEPT !.pc = "mark"]
  <2>1. lane' = [lane EXCEPT ![d] = l]
    BY <1>3, LaneForms
  <2>2. Goes(d, l)
    <3>1. l.kind = lane[d].kind /\ l.pc = "mark"
      BY <1>1 DEF IsLane
    <3> HIDE DEF l
    <3> QED
      BY <1>3, <3>1 DEF Goes
  <2> HIDE DEF l
  <2> QED
    BY <2>1, <2>2, AllGo
<1>4. ASSUME NEW pc \in {"create", "reconcile"}, NEW c,
             lane' = [lane EXCEPT ![d] = [lane[d] EXCEPT !.pc = pc, !.card = c]]
      PROVE  \A e \in Devices : Goes(e, lane'[e])
  <2> DEFINE l == [lane[d] EXCEPT !.pc = pc, !.card = c]
  <2>1. Goes(d, l)
    BY <1>1 DEF Goes, IsLane
  <2>2. lane' = [lane EXCEPT ![d] = l]
    BY <1>4
  <2> HIDE DEF l
  <2> QED
    BY <2>1, <2>2, AllGo
<1> QED
  BY <1>2, <1>3, <1>4

\* Nothing is recorded or listed.
LEMMA NotesStill ==
  ASSUME UNCHANGED docs, UNCHANGED listed
  PROVE  \A e \in Devices : Notes(e)
BY DEF Notes

\* The list of d is made anew.
LEMMA NotesList ==
  ASSUME TrashInv, NEW d \in Devices, UNCHANGED docs, listed' = [listed EXCEPT ![d] = Top(docs[d])]
  PROVE  \A e \in Devices : Notes(e)
<1>1. \A e \in Devices : listed'[e] = IF e = d THEN Top(docs[d]) ELSE listed[e]
  BY DEF TrashInv, DocsInv
<1> QED
  BY <1>1 DEF Notes

\* A file is merged that is or was on the server.
LEMMA NotesMerge ==
  ASSUME TrashInv, NEW d \in Devices, NEW f \in Files, NEW seen \in SUBSET remote[f],
         MergeFile(d, f, seen), UNCHANGED listed
  PROVE  \A e \in Devices : Notes(e)
<1>1. docs \in [Devices -> FilesType]
  BY DEF TrashInv, DocsInv
<1>2. docs' = [docs EXCEPT ![d] = [docs[d] EXCEPT ![f] = docs[d][f] \cup seen]]
  BY DEF MergeFile
<1>3. docs'[d] = [docs[d] EXCEPT ![f] = docs[d][f] \cup seen]
      /\ \A e \in Devices \ {d} : docs'[e] = docs[e]
  BY <1>1, <1>2
<1>4. \A g \in Files : docs'[d][g] \subseteq docs[d][g] \cup remote[g]
  BY <1>1, <1>3 DEF FilesType
<1> QED
  BY <1>3, <1>4 DEF Notes

\* A record is appended that d may record.
LEMMA NotesAppend ==
  ASSUME TrashInv, NEW d \in Devices, NEW kind \in {"snapshot", "tombstone"},
         NEW r \in Records, AppendRecord(d, kind, r), MayRecord(d, r)
  PROVE  \A e \in Devices : Notes(e)
<1> DEFINE f == <<d, kind>>
           new == [docs[d] EXCEPT ![f] = docs[d][f] \cup {r}]
<1>1. docs \in [Devices -> FilesType] /\ f \in Files /\ listed \in [Devices -> Records \cup {None}]
  BY DEF TrashInv, DocsInv, Files
<1>2. docs' = [docs EXCEPT ![d] = new] /\ listed' = [listed EXCEPT ![d] = Top(new)]
  BY DEF AppendRecord
<1>3. docs[d] \in FilesType
  BY <1>1
<1> HIDE DEF f
<1> HIDE DEF new
<1>4. /\ docs'[d] = new /\ listed'[d] = Top(new)
      /\ \A e \in Devices \ {d} : docs'[e] = docs[e] /\ listed'[e] = listed[e]
  BY <1>1, <1>2
<1>5. Notes(d)
  <2>1. docs'[d] = [docs[d] EXCEPT ![f] = docs[d][f] \cup {r}] /\ listed'[d] = Top(docs'[d])
    BY <1>4 DEF new
  <2> QED
    BY <1>1, <2>1 DEF Notes
<1>6. ASSUME NEW e \in Devices \ {d} PROVE Notes(e)
  <2>1. docs'[e] = docs[e] /\ listed'[e] = listed[e]
    BY <1>4
  <2> QED
    BY <2>1 DEF Notes
<1> QED
  BY <1>5, <1>6

\* A tombstone of the latest record.
LEMMA NotesTombstone ==
  ASSUME TrashInv, NEW d \in Devices, NEW status \in {"restored", "purged"},
         NEW now \in 1..MaxClock, Active(Top(docs[d])),
         AppendRecord(d, "tombstone", Tombstone(Top(docs[d]), status, now)),
         \/ status = "purged" /\ (givenUp' # {} \/ lane[d].kind = "purge"
                                  \/ (lane[d].kind = "delete" /\ lane[d].pc = "mark"))
         \/ /\ status = "restored" /\ UNCHANGED cards
            /\ lane[d].kind = "restore" /\ lane[d].pc = "mark"
  PROVE  \A e \in Devices : Notes(e)
<1> DEFINE r == Tombstone(Top(docs[d]), status, now)
<1>1. r \in Records
  BY TombstoneTyped
<1>2. r.status = status
  <2>1. Top(docs[d]) \in Records
    BY RowFacts, ActiveIsRecord
  <2> QED
    BY <2>1 DEF Tombstone, Records
<1>3. AppendRecord(d, "tombstone", r)
  OBVIOUS
<1> HIDE DEF r
<1>4. MayRecord(d, r)
  BY <1>2 DEF MayRecord
<1> QED
  BY <1>1, <1>3, <1>4, NotesAppend

\* What that means for all the files of e together.
LEMMA NotesAll ==
  ASSUME TrashInv, NEW e \in Devices, Notes(e)
  PROVE  \/ /\ All(docs'[e]) \subseteq All(docs[e]) \cup All(remote)
            /\ listed'[e] = listed[e] \/ listed'[e] = Top(docs'[e])
         \/ \E r \in Records : /\ All(docs'[e]) = All(docs[e]) \cup {r} /\ MayRecord(e, r)
                               /\ listed'[e] = Top(docs'[e])
<1>1. CASE /\ \A f \in Files : docs'[e][f] \subseteq docs[e][f] \cup remote[f]
           /\ listed'[e] = listed[e] \/ listed'[e] = Top(docs'[e])
  BY <1>1 DEF All
<1>2. ASSUME NEW f \in Files, NEW r \in Records,
             docs'[e] = [docs[e] EXCEPT ![f] = docs[e][f] \cup {r}], MayRecord(e, r),
             listed'[e] = Top(docs'[e])
      PROVE  \E q \in Records : /\ All(docs'[e]) = All(docs[e]) \cup {q} /\ MayRecord(e, q)
                                /\ listed'[e] = Top(docs'[e])
  <2>1. docs[e] \in FilesType
    BY RowFacts
  <2> DEFINE new == [docs[e] EXCEPT ![f] = docs[e][f] \cup {r}]
  <2>2. All(new) = All(docs[e]) \cup {r}
    BY <2>1, AllGrows
  <2>3. docs'[e] = new
    BY <1>2
  <2> HIDE DEF new
  <2>4. All(docs'[e]) = All(docs[e]) \cup {r}
    BY <2>2, <2>3
  <2> QED
    BY <1>2, <2>4
<1> QED
  BY <1>1, <1>2 DEF Notes

\* The queues that a step at d leaves.
LEMMA QueuesLeft ==
  ASSUME RowInv, NEW d \in Devices,
         \/ UNCHANGED rows \/ EnsurePush(d) \/ \E l : Retry(l, d)
         \/ rows' = [rows EXCEPT ![d] = <<lane[d].kind>> \o Drop(rows[d], lane[d].kind)]
         \/ \E k \in AnyKind : rows' = [rows EXCEPT ![d] = Drop(rows[d], k)]
         \/ \E k \in AnyKind : rows' = [rows EXCEPT ![d] = Append(rows[d], k)] /\ Asked(d, k)
  PROVE  \A e \in Devices : Queued(e)
<1>1. rows \in [Devices -> Seq(AnyKind)] /\ lane[d].kind \in AnyKind /\ "push" \in AnyKind
  BY DEF RowInv, LanePc, AnyKind, Kinds
<1>2. ASSUME NEW q, rows' = [rows EXCEPT ![d] = q],
             \A k \in Range(q) : k \in Range(rows[d]) \cup {lane[d].kind, "push"} \/ Asked(d, k)
      PROVE  \A e \in Devices : Queued(e)
  <2>1. \A e \in Devices : rows'[e] = IF e = d THEN q ELSE rows[e]
    BY <1>1, <1>2
  <2> QED
    BY <1>2, <2>1 DEF Queued
<1>3. CASE UNCHANGED rows
  BY <1>3 DEF Queued
<1>4. CASE EnsurePush(d)
  <2>1. rows' = [rows EXCEPT ![d] = WithPush(rows[d])]
    BY <1>4 DEF EnsurePush
  <2>2. Range(WithPush(rows[d])) = Range(rows[d]) \cup {"push"}
    BY <1>1, WithPushKeeps
  <2> QED
    BY <1>2, <2>1, <2>2
<1>5. CASE \/ \E l : Retry(l, d)
           \/ rows' = [rows EXCEPT ![d] = <<lane[d].kind>> \o Drop(rows[d], lane[d].kind)]
  <2> DEFINE q == <<lane[d].kind>> \o Drop(rows[d], lane[d].kind)
  <2>1. rows' = [rows EXCEPT ![d] = q]
    BY <1>5 DEF Retry, PutBack
  <2>2. Range(q) \subseteq Range(rows[d]) \cup {lane[d].kind}
    BY <1>1, QueueShrinks
  <2> HIDE DEF q
  <2> QED
    BY <1>2, <2>1, <2>2
<1>6. ASSUME NEW k \in AnyKind, rows' = [rows EXCEPT ![d] = Drop(rows[d], k)]
      PROVE  \A e \in Devices : Queued(e)
  <2>1. Range(Drop(rows[d], k)) \subseteq Range(rows[d])
    BY <1>1, QueueShrinks
  <2> QED
    BY <1>2, <1>6, <2>1
<1>7. ASSUME NEW k \in AnyKind, rows' = [rows EXCEPT ![d] = Append(rows[d], k)], Asked(d, k)
      PROVE  \A e \in Devices : Queued(e)
  <2>1. Range(Append(rows[d], k)) = Range(rows[d]) \cup {k}
    BY <1>1, AppendKeeps
  <2> QED
    BY <1>2, <1>7, <2>1
<1> QED
  BY <1>3, <1>4, <1>5, <1>6, <1>7

\* Asking, beginning, being told, breaking off and the end of a worker.
LEMMA WaysQuiet ==
  ASSUME TrashInv, RowInv, NEW d \in Devices,
         \/ \E kind \in Kinds : Ask(d, kind)
         \/ Begin(d) \/ Receive(d) \/ Handle(d) \/ FrameLost(d) \/ PullFails(d) \/ WorkerDies(d)
  PROVE  Ways
<1>1. /\ UNCHANGED docs /\ UNCHANGED listed /\ UNCHANGED cards
      /\ rows \in [Devices -> Seq(AnyKind)]
  BY DEF Ask, Begin, Receive, Handle, FrameLost, PullFails, WorkerDies, serverVars, docVars, RowInv
<1>2. (\A e \in Devices : Notes(e)) /\ LastCard
  BY <1>1, NotesStill DEF LastCard
<1>3. givenUp \subseteq givenUp'
  BY DEF Ask, Begin, Receive, Handle, FrameLost, PullFails, WorkerDies, countVars
<1>4. ASSUME NEW kind \in Kinds, Ask(d, kind) PROVE Ways
  <2>1. rows' = [rows EXCEPT ![d] = Append(rows[d], kind)] /\ UNCHANGED lane
    BY <1>4 DEF Ask
  <2>2. Asked(d, kind)
    BY <1>4 DEF Ask, Asked
  <2>3. kind \in AnyKind
    BY DEF AnyKind
  <2>4. \A e \in Devices : Queued(e)
    BY <2>1, <2>2, <2>3, QueuesLeft
  <2>5. \A e \in Devices : Goes(e, lane'[e])
    BY <2>1, PlainGo
  <2> QED
    BY <1>2, <1>3, <2>4, <2>5 DEF Ways
<1>5. CASE Begin(d)
  <2>1. PICK i \in 1..Len(rows[d]) :
          /\ rows' = [rows EXCEPT ![d] = Drop(rows[d], rows[d][i])]
          /\ lane' = [lane EXCEPT ![d] = [NoLane EXCEPT !.kind = rows[d][i],
                        !.pc = IF Open(d, rows[d][i]) THEN "start" ELSE "gate"]]
    BY <1>5 DEF Begin
  <2> DEFINE k == rows[d][i]
             l == [NoLane EXCEPT !.kind = k, !.pc = IF Open(d, k) THEN "start" ELSE "gate"]
  <2>2. k \in AnyKind /\ k \in Range(rows[d])
    BY <1>1 DEF Range
  <2>3. Goes(d, l)
    <3>1. l.kind = k /\ l.pc \in {"start", "gate"}
      BY DEF NoLane
    <3> HIDE DEF l, k
    <3> QED
      BY <2>2, <3>1 DEF Goes
  <2>4. lane' = [lane EXCEPT ![d] = l] /\ rows' = [rows EXCEPT ![d] = Drop(rows[d], k)]
    BY <2>1
  <2> HIDE DEF l, k
  <2> QED
    BY <1>2, <1>3, <2>2, <2>3, <2>4, AllGo, QueuesLeft DEF Ways
<1>6. CASE Receive(d) \/ Handle(d) \/ FrameLost(d)
  <2>1. UNCHANGED lane /\ UNCHANGED rows
    BY <1>6 DEF Receive, Handle, FrameLost, rowVars
  <2> QED
    BY <1>2, <1>3, <2>1, PlainGo, QueuesLeft DEF Ways
<1>7. CASE PullFails(d)
  <2>1. Retry(lane, d) \/ (UNCHANGED lane /\ UNCHANGED rows)
    BY <1>7 DEF PullFails, rowVars
  <2> QED
    BY <1>2, <1>3, <2>1, PlainGo, QueuesLeft DEF Ways
<1>8. CASE WorkerDies(d)
  <2>1. Finish(lane, d) /\ (UNCHANGED rows \/ PutBack(d))
    BY <1>8 DEF WorkerDies
  <2>2. PutBack(d) => rows' = [rows EXCEPT ![d] = <<lane[d].kind>> \o Drop(rows[d], lane[d].kind)]
    BY DEF PutBack
  <2> QED
    BY <1>2, <1>3, <2>1, <2>2, PlainGo, QueuesLeft DEF Ways
<1> QED
  BY <1>4, <1>5, <1>6, <1>7, <1>8

\* A refresh.
LEMMA WaysPull ==
  ASSUME TrashInv, RowInv, NEW d \in Devices, PullFile(d) \/ PullEnds(d)
  PROVE  Ways
<1>1. UNCHANGED cards /\ LastCard
  BY DEF PullFile, PullEnds, serverVars, LastCard
<1>2. CASE PullFile(d)
  <2> DEFINE f == CHOOSE g \in Unread(d) : TRUE
  <2>1. f \in DOMAIN pull[d].found /\ MergeFile(d, f, pull[d].found[f]) /\ UNCHANGED listed
    BY <1>2 DEF PullFile, Unread
  <2> HIDE DEF f
  <2>2. f \in Files /\ pull[d].found[f] \in SUBSET remote[f]
    BY <2>1, SeenFacts
  <2>3. UNCHANGED lane /\ UNCHANGED rows /\ UNCHANGED givenUp
    BY <1>2 DEF PullFile, rowVars, countVars
  <2> QED
    BY <1>1, <2>1, <2>2, <2>3, NotesMerge, PlainGo, QueuesLeft DEF Ways
<1>3. CASE PullEnds(d)
  <2>1. Passed(d) /\ (UNCHANGED rows \/ EnsurePush(d))
    BY <1>3 DEF PullEnds, Repair, rowVars
  <2>2. CASE /\ listed' = [listed EXCEPT ![d] = Top(docs[d])]
             /\ UNCHANGED <<docs, dirty, known, asks, givenUp>>
    BY <1>1, <2>1, <2>2, NotesList, PlainGo, QueuesLeft DEF Ways
  <2>3. CASE /\ Active(Top(docs[d])) /\ givenUp' = givenUp \cup {"purged"}
             /\ \E now \in 1..MaxClock :
                  AppendRecord(d, "tombstone", Tombstone(Top(docs[d]), "purged", now))
    <3>1. \A e \in Devices : Notes(e)
      BY <2>3, NotesTombstone
    <3> QED
      BY <1>1, <2>1, <2>3, <3>1, PlainGo, QueuesLeft DEF Ways
  <2> QED
    BY <1>3, <2>2, <2>3 DEF PullEnds
<1> QED
  BY <1>2, <1>3

\* A row that pushes.
LEMMA WaysPush ==
  ASSUME TrashInv, RowInv, NEW d \in Devices,
         PushRead(d) \/ PushWrite(d) \/ PushConfirm(d) \/ PushEnds(d) \/ PushAll(d)
  PROVE  Ways
<1>1. /\ UNCHANGED cards /\ UNCHANGED listed /\ UNCHANGED givenUp
      /\ givenUp \subseteq givenUp' /\ LastCard
  BY DEF PushRead, PushWrite, PushConfirm, PushEnds, PushAll, serverVars, docVars, countVars,
     ServeFile, LastCard
<1>2. IsLane(lane[d])
  BY RowFacts
<1>3. CASE PushRead(d)
  <2> DEFINE l == IF File(d) \in dirty[d]
                  THEN [lane[d] EXCEPT !.pc = "write", !.fileFresh = TRUE, !.sent = docs'[d][File(d)]]
                  ELSE [lane[d] EXCEPT !.todo = lane[d].todo \ {File(d)}]
  <2>1. /\ lane' = [lane EXCEPT ![d] = l] /\ UNCHANGED rows
        /\ lane[d].pc = "push" /\ lane[d].todo # {}
    BY <1>3 DEF PushRead, rowVars
  <2>2. Goes(d, l)
    <3>1. /\ l.kind = lane[d].kind /\ l.pc \in {"push", "write"} /\ l.entry = lane[d].entry
          /\ l.destroys = lane[d].destroys
      BY <1>2, <2>1 DEF IsLane
    <3> HIDE DEF l
    <3> QED
      BY <2>1, <3>1 DEF Goes, Pushing
  <2> HIDE DEF l
  <2>3. File(d) \in Files
    BY <1>2, <2>1 DEF File, IsLane
  <2>4. \A e \in Devices : Notes(e)
    <3>1. CASE MergeFile(d, File(d), remote[File(d)])
      BY <1>1, <2>3, <3>1, NotesMerge
    <3>2. CASE UNCHANGED docs
      BY <1>1, <3>2, NotesStill
    <3> QED
      BY <1>3, <3>1, <3>2 DEF PushRead
  <2> QED
    BY <1>1, <2>1, <2>2, <2>4, AllGo, QueuesLeft DEF Ways
<1>4. CASE PushWrite(d) \/ PushConfirm(d) \/ PushEnds(d) \/ PushAll(d)
  <2>1. UNCHANGED docs
    BY <1>4 DEF PushWrite, PushConfirm, PushEnds, PushAll, docVars
  <2>2. \A e \in Devices : Notes(e)
    BY <1>1, <2>1, NotesStill
  <2>3. CASE Again(d) /\ lane[d].pc \in Pushing
    <3>1. UNCHANGED rows \/ Retry(lane, d)
      BY <2>3 DEF Again, rowVars
    <3> QED
      BY <1>1, <2>2, <2>3, <3>1, PlainGo, QueuesLeft DEF Ways
  <2>4. CASE PushWrite(d) /\ Fresh(d)
    <3> DEFINE l == [NoFileFresh[d] EXCEPT !.pc = "confirm"]
    <3>1. lane' = [NoFileFresh EXCEPT ![d] = l] /\ UNCHANGED rows /\ lane[d].pc = "write"
      BY <2>4 DEF PushWrite, rowVars
    <3>2. Goes(d, l)
      <4>1. /\ l.kind = lane[d].kind /\ l.pc = "confirm" /\ l.entry = lane[d].entry
            /\ l.destroys = lane[d].destroys
        BY <1>2 DEF IsLane, NoFileFresh
      <4> HIDE DEF l
      <4> QED
        BY <3>1, <4>1 DEF Goes, Pushing
    <3> HIDE DEF l
    <3> QED
      BY <1>1, <2>2, <3>1, <3>2, AllGo, QueuesLeft DEF Ways
  <2>5. CASE PushConfirm(d) /\ Uploaded(d, File(d))
    <3> DEFINE l == [lane[d] EXCEPT !.pc = "push", !.sent = {},
                                    !.todo = lane[d].todo \ {File(d)}, !.tries = 0]
    <3>1. lane' = [lane EXCEPT ![d] = l] /\ UNCHANGED rows /\ lane[d].pc = "confirm"
      BY <2>5 DEF PushConfirm, rowVars
    <3>2. Goes(d, l)
      <4>1. /\ l.kind = lane[d].kind /\ l.pc = "push" /\ l.entry = lane[d].entry
            /\ l.destroys = lane[d].destroys
        BY <1>2 DEF IsLane
      <4> HIDE DEF l
      <4> QED
        BY <3>1, <4>1 DEF Goes, Pushing
    <3> HIDE DEF l
    <3> QED
      BY <1>1, <2>2, <3>1, <3>2, AllGo, QueuesLeft DEF Ways
  <2>6. CASE PushEnds(d)
    <3>1. /\ UNCHANGED rows /\ lane[d].pc \in Pushing
          /\ Go(d, "destroy") \/ Finish(lane, d)
      BY <2>6 DEF PushEnds, rowVars, Pushing
    <3> QED
      BY <1>1, <2>2, <3>1, PlainGo, QueuesLeft DEF Ways
  <2>7. CASE PushAll(d)
    <3>1. UNCHANGED rows /\ Push(d, None, dirty[d], FALSE)
      BY <2>7 DEF PushAll, rowVars
    <3>2. \A e \in Devices : Goes(e, lane'[e])
      BY <3>1, OtherGo
    <3> QED
      BY <1>1, <2>2, <3>1, <3>2, QueuesLeft DEF Ways
  <2> QED
    BY <1>4, <2>3, <2>4, <2>5, <2>6, <2>7 DEF PushWrite, PushConfirm, Pushing
<1> QED
  BY <1>3, <1>4

\* A push that fails.
LEMMA WaysPushFails ==
  ASSUME TrashInv, RowInv, NEW d \in Devices, PushFails(d)
  PROVE  Ways
<1>1. UNCHANGED cards /\ givenUp \subseteq givenUp' /\ LastCard
  BY DEF PushFails, ServeFile, serverVars, LastCard
<1>2. CASE /\ Retry(lane, d) \/ Retry(NoFileFresh, d)
           /\ UNCHANGED docVars
  <2>1. UNCHANGED docs /\ UNCHANGED listed
    BY <1>2 DEF docVars
  <2> QED
    BY <1>1, <1>2, <2>1, NotesStill, PlainGo, QueuesLeft DEF Ways
<1>3. CASE /\ Rollback(d) /\ Finish(lane, d) /\ UNCHANGED rowVars
           /\ givenUp' = givenUp \cup {"refused"}
  <2>1. CASE UNCHANGED docVars
    <3>1. UNCHANGED docs /\ UNCHANGED listed
      BY <2>1 DEF docVars
    <3> QED
      BY <1>1, <1>3, <3>1, NotesStill, PlainGo, QueuesLeft DEF Ways, rowVars
  <2>2. CASE /\ lane[d].destroys /\ Top(docs[d]) = lane[d].entry
             /\ \E now \in 1..MaxClock :
                  AppendRecord(d, "tombstone", Tombstone(Top(docs[d]), "purged", now))
    <3>1. lane[d].pc \in Pushing
      BY DEF PushFails, Pushing
    <3>2. Active(Top(docs[d]))
      BY <2>2, <3>1, RowFacts DEF LaneGood, Snapshot
    <3>3. \A e \in Devices : Notes(e)
      BY <1>3, <2>2, <3>2, NotesTombstone
    <3> QED
      BY <1>1, <1>3, <3>3, PlainGo, QueuesLeft DEF Ways, rowVars
  <2> QED
    BY <1>3, <2>1, <2>2 DEF Rollback
<1> QED
  BY <1>2, <1>3 DEF PushFails

\* A delete takes up a card.
LEMMA WaysFetch ==
  ASSUME TrashInv, RowInv, NEW d \in Devices, Fetch(d)
  PROVE  Ways
<1>1. /\ UNCHANGED docs /\ UNCHANGED listed /\ UNCHANGED cards /\ UNCHANGED rows
      /\ givenUp \subseteq givenUp' /\ LastCard
  BY DEF Fetch, serverVars, docVars, rowVars, countVars, LastCard
<1>2. CASE Finish(lane, d)
  BY <1>1, <1>2, NotesStill, PlainGo, QueuesLeft DEF Ways
<1>3. ASSUME NEW c, NEW r,
             lane' = [lane EXCEPT ![d] = [@ EXCEPT
               !.pc = "stage", !.card = c, !.cardFresh = TRUE, !.entry = r]]
      PROVE  Ways
  <2> DEFINE l == [lane[d] EXCEPT !.pc = "stage", !.card = c, !.cardFresh = TRUE, !.entry = r]
  <2>1. lane' = [lane EXCEPT ![d] = l] /\ Goes(d, l)
    BY <1>3, RowFacts DEF IsLane, Goes
  <2> HIDE DEF l
  <2> QED
    BY <1>1, <2>1, NotesStill, AllGo, QueuesLeft DEF Ways
<1> QED
  BY <1>2, <1>3 DEF Fetch

\* A delete stages its snapshot, which then is the latest record.
LEMMA WaysStage ==
  ASSUME TrashInv, RowInv, HeadInv, NEW d \in Devices, Stage(d)
  PROVE  Ways
<1> DEFINE top == Top(docs[d])
           new == [lane[d].entry EXCEPT !.at = IF top = None THEN @ ELSE Stamp(@, top)]
<1>1. /\ UNCHANGED cards /\ UNCHANGED rows /\ givenUp \subseteq givenUp' /\ LastCard
      /\ lane[d].kind = "delete" /\ lane[d].pc = "stage"
  BY DEF Stage, serverVars, rowVars, countVars, LastCard, At
<1>2. /\ docs[d] \in FilesType /\ Headed(All(docs[d])) /\ top \in Records \cup {None}
      /\ lane[d].entry \in Records /\ Active(lane[d].entry)
  BY <1>1, RowFacts DEF HeadInv, LaneGood, Snapshot
<1>3. CASE Finish(lane, d) /\ UNCHANGED docVars
  BY <1>1, <1>3, NotesStill, PlainGo, QueuesLeft DEF Ways, docVars
<1>4. CASE /\ top = lane[d].entry /\ Push(d, top, Holders(d, top), TRUE)
           /\ listed' = [listed EXCEPT ![d] = top] /\ UNCHANGED docs
  <2>1. Latest(d, top)
    <3>1. top # None /\ top \in Records
      BY <1>2, <1>4 DEF Records, None
    <3>2. \A q \in All(docs[d]) : ~Wins(q, top)
      BY <1>2, <3>1, TopHead
    <3> HIDE DEF top
    <3> QED
      BY <1>4, <3>1, <3>2 DEF Latest
  <2>2. \A e \in Devices : Notes(e)
    BY <1>4, NotesList
  <2>3. \A e \in Devices : Goes(e, lane'[e])
    BY <1>1, <1>4, <2>1, OtherGo
  <2> QED
    BY <1>1, <2>2, <2>3, QueuesLeft DEF Ways
<1>5. CASE AppendRecord(d, "snapshot", new) /\ Push(d, new, {<<d, "snapshot">>}, TRUE)
  <2>1. new \in Records /\ new.status = lane[d].entry.status /\ (top = None \/ new.at > top.at)
    <3>1. CASE top = None
      <4>1. new = lane[d].entry
        BY <1>2, <3>1 DEF Records
      <4> QED
        BY <1>2, <3>1, <4>1
    <3>2. CASE top # None
      <4>1. top.at \in Nat \ {0} /\ lane[d].entry.at \in Nat \ {0}
        BY <1>2, <3>2 DEF Records
      <4>2. Stamp(lane[d].entry.at, top) \in Nat \ {0} /\ Stamp(lane[d].entry.at, top) > top.at
        BY <4>1 DEF Stamp
      <4> HIDE DEF top
      <4> QED
        BY <1>2, <3>2, <4>2 DEF Records
    <3> QED
      BY <3>1, <3>2
  <2> HIDE DEF new
  <2>2. MayRecord(d, new)
    BY <1>1, <1>2, <2>1 DEF MayRecord, Active
  <2>3. \A e \in Devices : Notes(e)
    BY <1>5, <2>1, <2>2, NotesAppend
  <2>4. Latest(d, new)
    <3> DEFINE f == <<d, "snapshot">>
               E == [docs[d] EXCEPT ![f] = docs[d][f] \cup {new}]
    <3>1. f \in Files
      BY DEF Files
    <3>2. docs' = [docs EXCEPT ![d] = E]
      BY <1>5 DEF AppendRecord
    <3>3. docs \in [Devices -> FilesType]
      BY DEF TrashInv, DocsInv
    <3> HIDE DEF f
    <3>4. All(E) = All(docs[d]) \cup {new}
      BY <1>2, <3>1, AllGrows
    <3>5. Top(E) = new
      BY <1>2, <2>1, <3>1, TopNew
    <3>6. E \in FilesType
      BY <1>2, <2>1, <3>1 DEF FilesType
    <3>7. Headed(All(E))
      <4>1. All(docs[d]) \in SUBSET Records /\ {new} \in SUBSET Records
        BY <1>2, <2>1 DEF All, FilesType
      <4> QED
        BY <1>2, <2>1, <3>4, <4>1, HeadedOne, HeadedUnion
    <3> HIDE DEF E
    <3>8. \A q \in All(E) : ~Wins(q, new)
      BY <3>4, <3>5, <3>6, <3>7, TopHead
    <3>9. docs'[d] = E
      BY <3>2, <3>3
    <3> QED
      BY <2>1, <3>8, <3>9 DEF Latest
  <2>5. \A e \in Devices : Goes(e, lane'[e])
    BY <1>1, <1>5, <2>4, OtherGo
  <2> QED
    BY <1>1, <2>3, <2>5, QueuesLeft DEF Ways
<1> QED
  BY <1>3, <1>4, <1>5 DEF Stage

\* A delete destroys its card, fetches again or is refused.
LEMMA WaysDestroy ==
  ASSUME TrashInv, RowInv, NEW d \in Devices, Destroy(d) \/ DestroyFails(d)
  PROVE  Ways
<1>1. /\ UNCHANGED docs /\ UNCHANGED listed /\ UNCHANGED remote /\ lane[d].pc = "destroy"
      /\ givenUp \subseteq givenUp'
  BY DEF Destroy, DestroyFails, docVars, ServeDestroy, serverVars, countVars
<1>2. LastCard /\ \A e \in Devices : Notes(e)
  BY <1>1, NotesStill DEF LastCard
<1>3. lane[d].kind = "delete" /\ IsLane(lane[d])
  <2>1. LanePc(lane[d], target[d]) /\ LaneGood(lane[d], docs[d], remote, cards)
    BY RowFacts DEF RowInv
  <2> QED
    BY <1>1, <2>1, RowFacts DEF LanePc, LaneGood, Pushing
<1>4. UNCHANGED rows \/ \E l : Retry(l, d)
  BY DEF Destroy, DestroyFails, rowVars
<1>5. \A e \in Devices : Queued(e)
  BY <1>4, QueuesLeft
<1>6. CASE Finish(NoCardFresh, d) \/ Retry(lane, d) \/ Retry(NoCardFresh, d)
  BY <1>1, <1>2, <1>5, <1>6, PlainGo DEF Ways
<1>7. CASE lane' = [lane EXCEPT ![d] = [NoLane EXCEPT !.kind = "delete", !.pc = "start",
                                                      !.rounds = lane[d].rounds + 1]]
  <2> DEFINE l == [NoLane EXCEPT !.kind = "delete", !.pc = "start", !.rounds = lane[d].rounds + 1]
  <2>1. lane' = [lane EXCEPT ![d] = l] /\ Goes(d, l)
    BY <1>3, <1>7 DEF NoLane, Goes
  <2> HIDE DEF l
  <2> QED
    BY <1>1, <1>2, <1>5, <2>1, AllGo DEF Ways
<1>8. CASE Go(d, "mark") /\ givenUp' = givenUp \cup {"refused"}
  <2>1. Earned(d, lane[d].kind)
    BY <1>1, <1>3, <1>8 DEF Earned
  <2> QED
    BY <1>1, <1>2, <1>5, <1>8, <2>1, OtherGo DEF Ways
<1> QED
  BY <1>6, <1>7, <1>8 DEF Destroy, DestroyFails

\* A restore.
LEMMA WaysRestore ==
  ASSUME TrashInv, RowInv, NEW d \in Devices,
         Lookup(d) \/ Create(d) \/ CreateFails(d) \/ Reconcile(d)
  PROVE  Ways
<1>1. /\ UNCHANGED docs /\ UNCHANGED listed /\ givenUp \subseteq givenUp'
      /\ cards \subseteq cards' /\ IsLane(lane[d])
  BY RowFacts DEF Lookup, Create, CreateFails, Reconcile, docVars, ServeCreate, serverVars, countVars
<1>2. LastCard /\ \A e \in Devices : Notes(e)
  BY <1>1, NotesStill DEF LastCard
<1>3. UNCHANGED rows \/ \E l : Retry(l, d)
  BY DEF Lookup, Create, CreateFails, Reconcile, rowVars
<1>4. \A e \in Devices : Queued(e)
  BY <1>3, QueuesLeft
<1>5. CASE Lookup(d)
  <2>1. lane[d].kind = "restore"
    BY <1>5 DEF Lookup, At
  <2>2. CASE ~Active(listed[d]) /\ Go(d, "mark")
    <3>1. docs'[d] = docs[d] /\ Earned(d, lane[d].kind)
      BY <1>1, <2>1, <2>2 DEF Earned
    <3> QED
      BY <1>1, <1>2, <1>4, <2>2, <3>1, OtherGo DEF Ways
  <2>3. CASE Finish(lane, d)
    BY <1>1, <1>2, <1>4, <2>3, PlainGo DEF Ways
  <2>4. ASSUME NEW pc \in {"create", "reconcile"}, NEW c,
               lane' = [lane EXCEPT ![d] = [@ EXCEPT !.pc = pc, !.card = c]]
        PROVE  Ways
    <3>1. \A e \in Devices : Goes(e, lane'[e])
      BY <2>4, OtherGo
    <3> QED
      BY <1>1, <1>2, <1>4, <3>1 DEF Ways
  <2> QED
    BY <1>5, <2>2, <2>3, <2>4 DEF Lookup
<1>6. CASE Create(d)
  <2> DEFINE l == [NoCardFresh[d] EXCEPT !.pc = "reconcile", !.card = Created(d)]
  <2>1. lane' = [NoCardFresh EXCEPT ![d] = l]
    BY <1>6 DEF Create
  <2>2. Goes(d, l)
    BY <1>1 DEF Goes, IsLane, NoCardFresh
  <2> HIDE DEF l
  <2> QED
    BY <1>1, <1>2, <1>4, <2>1, <2>2, AllGo DEF Ways
<1>7. CASE CreateFails(d)
  <2>1. Retry(lane, d) \/ Retry(NoCardFresh, d) \/ Finish(lane, d)
    BY <1>7 DEF CreateFails
  <2> QED
    BY <1>1, <1>2, <1>4, <2>1, PlainGo DEF Ways
<1>8. CASE Reconcile(d)
  <2>1. CASE ReadBack(d) /\ Go(d, "mark")
    <3>1. lane[d].kind # "delete"
      BY <1>8 DEF Reconcile, RowInv, LanePc
    <3>2. Earned(d, lane[d].kind)
      BY <1>1, <2>1, <3>1 DEF Earned, ReadBack
    <3> QED
      BY <1>1, <1>2, <1>4, <2>1, <3>2, OtherGo DEF Ways
  <2>2. CASE Retry(lane, d)
    BY <1>1, <1>2, <1>4, <2>2, PlainGo DEF Ways
  <2> QED
    BY <1>8, <2>1, <2>2 DEF Reconcile
<1> QED
  BY <1>5, <1>6, <1>7, <1>8

\* What a restore, a purge or a refused delete records.
LEMMA WaysSetStatus ==
  ASSUME TrashInv, RowInv, BusyInv, NEW d \in Devices, SetStatus(d)
  PROVE  Ways
<1> DEFINE top == Top(docs[d])
           status == IF lane[d].kind = "restore" THEN "restored" ELSE "purged"
<1>1. /\ UNCHANGED cards /\ UNCHANGED givenUp /\ givenUp \subseteq givenUp' /\ LastCard
      /\ lane[d].pc = "mark" \/ (lane[d].kind = "purge" /\ lane[d].pc = "start")
  BY DEF SetStatus, serverVars, countVars, LastCard, At
<1>2. lane[d].kind \in {"delete", "restore", "purge"}
  <2>1. lane[d].kind \in Kinds
    BY <1>1, Running
  <2>2. LanePc(lane[d], target[d])
    BY DEF RowInv
  <2> QED
    BY <1>1, <2>1, <2>2 DEF LanePc, Kinds
<1>3. UNCHANGED rows \/ EnsurePush(d)
  BY DEF SetStatus, rowVars
<1>4. \A e \in Devices : Queued(e)
  BY <1>3, QueuesLeft
<1>5. CASE Active(top)
  <2>1. PICK now \in 1..MaxClock : AppendRecord(d, "tombstone", Tombstone(top, status, now))
    BY <1>5 DEF SetStatus
  <2>2. status \in {"restored", "purged"}
    OBVIOUS
  <2>3. \/ status = "purged" /\ (lane[d].kind = "purge"
                                  \/ (lane[d].kind = "delete" /\ lane[d].pc = "mark"))
        \/ status = "restored" /\ lane[d].kind = "restore" /\ lane[d].pc = "mark"
    BY <1>1, <1>2
  <2> HIDE DEF status
  <2>4. \A e \in Devices : Notes(e)
    BY <1>1, <1>5, <2>1, <2>2, <2>3, NotesTombstone
  <2>5. Push(d, None, {<<d, "tombstone">>}, FALSE)
    BY <1>5 DEF SetStatus
  <2>6. \A e \in Devices : Goes(e, lane'[e])
    BY <2>5, OtherGo
  <2> QED
    BY <1>1, <1>4, <2>4, <2>6 DEF Ways
<1>6. CASE ~Active(top)
  <2>1. listed' = [listed EXCEPT ![d] = Top(docs[d])] /\ UNCHANGED docs /\ Finish(lane, d)
    BY <1>6 DEF SetStatus
  <2> QED
    BY <1>1, <1>4, <2>1, NotesList, PlainGo DEF Ways
<1> QED
  BY <1>5, <1>6

\* Every step.
LEMMA StepWays ==
  ASSUME TrashInv, RowInv, HeadInv, BusyInv, [Next]_vars
  PROVE  Ways
<1>1. ASSUME NEW d \in Devices, PullStep(d) PROVE Ways
  BY <1>1, WaysPull, WaysQuiet DEF PullStep
<1>2. ASSUME NEW d \in Devices, RowStep(d) PROVE Ways
  BY <1>2, WaysQuiet, WaysPush, WaysFetch, WaysStage, WaysDestroy, WaysRestore, WaysSetStatus
     DEF RowStep, PushStep
<1>3. ASSUME NEW d \in Devices, FaultStep(d) PROVE Ways
  BY <1>3, WaysQuiet, WaysPushFails, WaysDestroy, WaysRestore DEF FaultStep
<1>4. ASSUME NEW d \in Devices, NEW kind \in Kinds, Ask(d, kind) PROVE Ways
  BY <1>4, WaysQuiet
<1>5. CASE Edit
  <2>1. /\ lane' = NoCardFresh /\ UNCHANGED rows /\ UNCHANGED docs /\ UNCHANGED listed
        /\ UNCHANGED givenUp /\ cards' # {}
    BY <1>5 DEF Edit, rowVars, docVars
  <2>2. ASSUME NEW e \in Devices PROVE Goes(e, lane'[e])
    <3>1. lane'[e] = [lane[e] EXCEPT !.cardFresh = FALSE] /\ IsLane(lane[e])
      BY <2>1, RowFacts DEF NoCardFresh
    <3>2. Alike(lane[e], lane'[e])
      BY <3>1 DEF Alike, IsLane
    <3> QED
      BY <3>2 DEF Goes, Alike
  <2>3. (\A e \in Devices : Notes(e) /\ Queued(e)) /\ LastCard
    BY <2>1 DEF Notes, Queued, LastCard
  <2> QED
    BY <2>1, <2>2, <2>3 DEF Ways
<1>6. CASE UNCHANGED vars
  <2>1. /\ UNCHANGED lane /\ UNCHANGED rows /\ UNCHANGED docs /\ UNCHANGED listed
        /\ UNCHANGED givenUp /\ UNCHANGED cards
    BY <1>6 DEF vars, rowVars, docVars, serverVars, countVars
  <2> QED
    BY <2>1 DEF Ways, Goes, Alike, Notes, Queued, LastCard
<1> QED
  BY <1>1, <1>2, <1>3, <1>4, <1>5, <1>6 DEF Next, Step

\* Who is deleting, and that only what was given up is marked so; behind the last
\* card there is a snapshot on the server.
Deletes(l) ==
  \/ l.pc = "stage"
  \/ l.pc \in Pushing /\ l.destroys
  \/ l.kind = "delete" /\ l.pc = "mark"
Spared(S) == \A r \in S : r.status = "purged" => givenUp # {}
Given ==
  /\ \A d \in Devices :
       /\ Deletes(lane[d]) => d \in deleting
       /\ HasRow(d, "purge") \/ At(d, "delete", "mark") => givenUp # {}
       /\ Spared(All(docs[d]))
  /\ Spared(All(remote))
  /\ cards = {} => \E r \in All(remote) : Active(r)

\* No device but h was deleting: it has all snapshots there are, and its list is up
\* to date with them.
Vouched(h, S) == \A r \in S : Active(r) => r \in All(docs[h])
Sole(h) ==
  /\ \A d \in Devices : Vouched(h, All(docs[d]))
  /\ Vouched(h, All(remote))
  /\ Active(Top(docs[h])) => listed[h] = Top(docs[h])

\* No restore of h is younger than r.
Unrestored(h, r) ==
  \A f \in Files : f[1] = h => \A q \in docs[h][f] : q.status = "restored" => ~Wins(q, r)

\* What a restore of h is about to mark is a card or no longer in the trash; what its
\* delete pushes is younger than any restore of h; and so is a snapshot of what is gone.
Held(h) ==
  /\ lane[h].pc = "mark" /\ lane[h].kind # "delete" => cards # {} \/ ~Active(Top(docs[h]))
  /\ lane[h].pc \in Pushing /\ lane[h].destroys => Unrestored(h, lane[h].entry)
  /\ cards = {} => \E r \in All(remote) : Active(r) /\ Unrestored(h, r)

KeptInv == Given /\ \A h \in Devices : deleting \subseteq {h} => Sole(h) /\ Held(h)

\* Whoever deletes is remembered.
LEMMA DeletersKept ==
  ASSUME TrashInv, Ways, Given, [Next]_vars
  PROVE  /\ deleting \subseteq deleting'
         /\ \A d \in Devices : Deletes(lane'[d]) => d \in deleting'
<1>1. deleting \subseteq deleting'
  BY DEF Next, Remember, vars
<1>2. ASSUME NEW d \in Devices, lane'[d].pc = "stage" PROVE d \in deleting'
  <2>1. CASE Next
    BY <1>2, <2>1 DEF Next, Remember
  <2>2. CASE UNCHANGED vars
    BY <1>2, <2>2 DEF vars, Given, Deletes
  <2> QED
    BY <2>1, <2>2
<1>3. ASSUME NEW d \in Devices, Deletes(lane'[d]), lane'[d].pc # "stage" PROVE Deletes(lane[d])
  <2>1. Goes(d, lane'[d])
    BY DEF Ways
  <2>2. lane[d].pc = "destroy" => lane[d].destroys
    BY RowFacts DEF LaneGood
  <2>3. CASE Alike(lane[d], lane'[d])
    BY <1>3, <2>3 DEF Alike, Deletes
  <2>4. CASE /\ lane[d].pc \in Pushing /\ lane'[d].pc \in Pushing
             /\ lane'[d].destroys = lane[d].destroys
    <3>1. lane'[d].pc # "mark"
      BY <2>4 DEF Pushing
    <3> QED
      BY <1>3, <2>4, <3>1 DEF Deletes
  <2>5. CASE lane'[d].pc = "mark" /\ Earned(d, lane'[d].kind)
    <3>1. lane'[d].pc \notin Pushing
      BY <2>5 DEF Pushing
    <3>2. lane[d].pc = "destroy"
      BY <1>3, <2>5, <3>1 DEF Deletes, Earned
    <3> QED
      BY <2>2, <3>2 DEF Deletes, Pushing
  <2>6. CASE lane'[d].pc = "push" /\ (lane'[d].destroys => lane[d].pc = "stage")
    BY <1>3, <2>6 DEF Deletes
  <2>7. CASE lane'[d].pc \in {"idle", "gate", "start", "stage", "create", "reconcile"}
    BY <1>3, <2>7 DEF Deletes, Pushing
  <2> QED
    BY <2>1, <2>3, <2>4, <2>5, <2>6, <2>7 DEF Goes
<1> QED
  BY <1>1, <1>2, <1>3 DEF Given

\* A purge is asked for, and a delete is marked that was refused.
LEMMA MarksKept ==
  ASSUME Ways, Given, NEW d \in Devices, (HasRow(d, "purge") \/ At(d, "delete", "mark"))'
  PROVE  givenUp' # {}
<1>1. givenUp # {} => givenUp' # {}
  BY DEF Ways
<1>2. ASSUME HasRow(d, "purge")' PROVE givenUp' # {}
  <2>1. HasRow(d, "purge") \/ Asked(d, "purge")
    BY <1>2 DEF Ways, Queued, Goes, HasRow
  <2> QED
    BY <1>1, <2>1 DEF Given, Asked
<1>3. ASSUME At(d, "delete", "mark")' PROVE givenUp' # {}
  <2>1. lane'[d].kind = "delete" /\ lane'[d].pc = "mark"
    BY <1>3 DEF At
  <2>2. Alike(lane[d], lane'[d]) \/ Earned(d, lane'[d].kind)
    BY <2>1 DEF Ways, Goes, Pushing
  <2>3. Alike(lane[d], lane'[d]) => At(d, "delete", "mark")
    BY <2>1 DEF Alike, At
  <2> QED
    BY <1>1, <2>1, <2>2, <2>3 DEF Given, Earned
<1> QED
  BY <1>2, <1>3

\* The records of a file on the server were there, or on the device that owns it.
LEMMA ServerFrom ==
  ASSUME Facts, OwnInv, NEW r \in All(remote')
  PROVE  r \in All(remote) \/ \E d \in Devices : r \in All(docs[d])
<1>1. PICK f \in Files : r \in remote'[f]
  BY DEF All
<1>2. r \in remote[f] \/ r \in docs[f[1]][f]
  BY <1>1 DEF Facts, RemoteStep, OwnInv
<1>3. f[1] \in Devices
  BY DEF Files
<1> QED
  BY <1>2, <1>3 DEF All

\* Only what was given up is marked so.
LEMMA SparedKept ==
  ASSUME TrashInv, Facts, Ways, OwnInv, Given
  PROVE  /\ \A d \in Devices : Spared(All(docs[d]))'
         /\ Spared(All(remote))'
<1>1. givenUp # {} => givenUp' # {}
  BY DEF Ways
<1>2. ASSUME NEW d \in Devices, NEW r \in All(docs'[d]), r.status = "purged"
      PROVE  givenUp' # {}
  <2>1. CASE r \in All(docs[d]) \/ r \in All(remote)
    BY <1>1, <1>2, <2>1 DEF Given, Spared
  <2>2. CASE MayRecord(d, r)
    <3>1. \/ givenUp' # {} \/ lane[d].kind = "purge"
          \/ lane[d].kind = "delete" /\ lane[d].pc = "mark"
      BY <1>2, <2>2 DEF MayRecord, Active
    <3> QED
      BY <1>1, <3>1 DEF Given, HasRow, At
  <2>3. Notes(d)
    BY DEF Ways
  <2> QED
    BY <1>2, <2>1, <2>2, <2>3, NotesAll
<1>3. ASSUME NEW r \in All(remote'), r.status = "purged" PROVE givenUp' # {}
  BY <1>1, <1>3, ServerFrom DEF Given, Spared
<1> QED
  BY <1>2, <1>3 DEF Spared

\* The row that destroys carries a snapshot that is on the server.
LEMMA DestroyCarries ==
  ASSUME TrashInv, Given, NEW e \in Devices, lane[e].pc = "destroy"
  PROVE  /\ lane[e].destroys /\ e \in deleting
         /\ lane[e].entry \in All(remote) /\ Active(lane[e].entry)
<1>1. LaneGood(lane[e], docs[e], remote, cards)
  BY RowFacts
<1>2. lane[e].destroys /\ lane[e].todo = {}
  BY <1>1 DEF LaneGood
<1>3. Snapshot(lane[e]) /\ Carried(lane[e], docs[e], remote)
  BY <1>1, <1>2 DEF LaneGood, Pushing
<1>4. Deletes(lane[e])
  BY <1>2 DEF Deletes, Pushing
<1> QED
  BY <1>2, <1>3, <1>4 DEF Snapshot, Carried, All, Given

\* Behind the last card its snapshot is on the server.
LEMMA GoneGiven ==
  ASSUME TrashInv, Facts, Ways, Given, cards' = {}
  PROVE  \E r \in All(remote') : Active(r)
<1>1. All(remote) \subseteq All(remote')
  BY RemoteGrows DEF Facts, Grows, All
<1>2. CASE cards = {}
  BY <1>1, <1>2 DEF Given
<1>3. CASE cards # {}
  <2>1. PICK e \in Devices : lane[e].pc = "destroy"
    BY <1>3 DEF Ways, LastCard
  <2> QED
    BY <1>1, <2>1, DestroyCarries
<1> QED
  BY <1>2, <1>3

\* The snapshots are h's.
LEMMA RecordsSole ==
  ASSUME TrashInv, Facts, Ways, OwnInv, Given,
         NEW h \in Devices, deleting \subseteq {h}, Sole(h)
  PROVE  /\ \A d \in Devices : Vouched(h, All(docs[d]))'
         /\ Vouched(h, All(remote))'
<1>1. All(docs[h]) \subseteq All(docs'[h])
  BY DocsGrow DEF Facts, Grows, All
<1>2. ASSUME NEW d \in Devices, NEW r \in All(docs'[d]), Active(r)
      PROVE  r \in All(docs'[h])
  <2>1. CASE r \in All(docs[d]) \/ r \in All(remote)
    BY <1>1, <1>2, <2>1 DEF Sole, Vouched
  <2>2. CASE MayRecord(d, r)
    <3>1. lane[d].pc = "stage"
      BY <1>2, <2>2 DEF MayRecord, Active
    <3>2. d = h
      BY <3>1 DEF Given, Deletes
    <3> QED
      BY <1>2, <3>2
  <2>3. Notes(d)
    BY DEF Ways
  <2> QED
    BY <1>2, <2>1, <2>2, <2>3, NotesAll
<1>3. ASSUME NEW r \in All(remote'), Active(r) PROVE r \in All(docs'[h])
  BY <1>1, <1>3, ServerFrom DEF Sole, Vouched
<1> QED
  BY <1>2, <1>3 DEF Vouched

\* A snapshot is the latest record of h only if h recorded it, and then it is listed.
LEMMA ListSole ==
  ASSUME TrashInv, TrashInv', HeadInv, HeadInv', Facts, Ways, NEW h \in Devices, Sole(h)
  PROVE  /\ Active(Top(docs'[h])) => listed'[h] = Top(docs'[h])
         /\ /\ All(docs'[h]) \subseteq All(docs[h]) \cup All(remote)
            /\ Active(Top(docs'[h]))
            => Top(docs[h]) = Top(docs'[h])
<1>1. /\ docs[h] \in FilesType /\ docs'[h] \in FilesType
      /\ Headed(All(docs[h])) /\ Headed(All(docs'[h]))
  BY DEF TrashInv, DocsInv, HeadInv
<1>2. Grows(docs[h], docs'[h])
  BY DocsGrow DEF Facts
<1>3. ASSUME All(docs'[h]) \subseteq All(docs[h]) \cup All(remote), Active(Top(docs'[h]))
      PROVE  Top(docs[h]) = Top(docs'[h])
  <2>1. Top(docs'[h]) \in All(docs'[h])
    BY <1>1, <1>3, ActiveIsRecord DEF All
  <2>2. Top(docs'[h]) \in All(docs[h])
    BY <1>3, <2>1 DEF Sole, Vouched
  <2> QED
    BY <1>1, <1>2, <1>3, <2>2, LatestWas
<1>4. ASSUME All(docs'[h]) \subseteq All(docs[h]) \cup All(remote), listed'[h] = listed[h],
             Active(Top(docs'[h]))
      PROVE  listed'[h] = Top(docs'[h])
  BY <1>3, <1>4 DEF Sole
<1>5. Notes(h)
  BY DEF Ways
<1>6. Active(Top(docs'[h])) => listed'[h] = Top(docs'[h])
  BY <1>4, <1>5, NotesAll
<1> QED
  BY <1>3, <1>6

\* The mark of a restore follows a card that is there, or what is no longer in the
\* trash.
LEMMA HeldMark ==
  ASSUME TrashInv, TrashInv', HeadInv, HeadInv', RowInv, Facts, Ways, Given,
         NEW h \in Devices, deleting \subseteq {h}, Sole(h), Held(h),
         lane'[h].pc = "mark", lane'[h].kind # "delete"
  PROVE  cards' # {} \/ ~Active(Top(docs'[h]))
<1>1. Goes(h, lane'[h]) /\ Notes(h) /\ LastCard
  BY DEF Ways
<1>2. CASE Alike(lane[h], lane'[h])
  <2>1. lane[h].pc = "mark" /\ lane[h].kind # "delete"
    BY <1>2 DEF Alike
  <2>2. ASSUME cards # {} PROVE cards' # {}
    <3>1. ASSUME NEW e \in Devices, lane[e].pc = "destroy" PROVE FALSE
      <4>1. e = h
        BY <3>1, DestroyCarries
      <4> QED
        BY <2>1, <3>1, <4>1
    <3> QED
      BY <1>1, <2>2, <3>1 DEF LastCard
  <2>3. ASSUME ~Active(Top(docs[h])), Active(Top(docs'[h])) PROVE FALSE
    <3>1. ~(All(docs'[h]) \subseteq All(docs[h]) \cup All(remote))
      BY <2>3, ListSole
    <3>2. docs'[h] # docs[h]
      BY <2>3
    <3>3. ~Merged(h)
      <4> SUFFICES ASSUME Merged(h) PROVE FALSE
        OBVIOUS
      <4>1. PICK f \in Files : \E seen \in SUBSET remote[f] :
               docs'[h] = [docs[h] EXCEPT ![f] = docs[h][f] \cup seen]
        BY MergedOnly
      <4>2. PICK seen \in SUBSET remote[f] :
               docs'[h] = [docs[h] EXCEPT ![f] = docs[h][f] \cup seen]
        BY <4>1
      <4>3. docs[h] \in FilesType
        BY RowFacts
      <4>4. All(docs'[h]) = All(docs[h]) \cup seen
        BY <4>2, <4>3, AllGrows
      <4>5. seen \subseteq All(remote)
        BY DEF All
      <4> QED
        BY <3>1, <4>4, <4>5
    <3>4. Recorded(h)
      BY <3>2, <3>3 DEF Facts, DocsStep
    <3> QED
      BY <2>1, <2>3, <3>4 DEF Recorded, About
  <2> QED
    BY <2>1, <2>2, <2>3 DEF Held
<1>3. CASE Earned(h, lane'[h].kind)
  <2>1. cards' # {} \/ (~Active(listed[h]) /\ docs'[h] = docs[h])
    BY <1>3 DEF Earned
  <2>2. Active(Top(docs[h])) => Active(listed[h])
    BY DEF Sole
  <2> QED
    BY <2>1, <2>2
<1> QED
  BY <1>1, <1>2, <1>3 DEF Goes, Pushing

\* A restore that h records marks a card that is there.
LEMMA RestoredNow ==
  ASSUME TrashInv, Facts, Ways, OwnInv, NEW h \in Devices, Held(h),
         NEW f \in Files, f[1] = h,
         NEW q \in docs'[h][f], q.status = "restored", q \notin docs[h][f]
  PROVE  lane[h].pc = "mark" /\ cards' # {}
<1>1. q \notin remote[f] /\ docs[h] \in FilesType
  BY RowFacts DEF OwnInv
<1>2. Notes(h)
  BY DEF Ways
<1>3. PICK g \in Files, r \in Records :
        docs'[h] = [docs[h] EXCEPT ![g] = docs[h][g] \cup {r}] /\ MayRecord(h, r)
  BY <1>1, <1>2 DEF Notes
<1>4. q = r
  BY <1>1, <1>3 DEF FilesType
<1>5. /\ UNCHANGED cards /\ lane[h].kind = "restore" /\ lane[h].pc = "mark"
      /\ Active(Top(docs[h]))
  BY <1>3, <1>4 DEF MayRecord, Active
<1> QED
  BY <1>5 DEF Held

\* What a delete pushes is younger than any restore of its device.
LEMMA HeldPush ==
  ASSUME TrashInv, Facts, Ways, OwnInv, NEW h \in Devices, Held(h),
         lane'[h].pc \in Pushing, lane'[h].destroys
  PROVE  Unrestored(h, lane[h].entry)'
<1>1. Goes(h, lane'[h])
  BY DEF Ways
<1>2. CASE /\ lane[h].pc \in Pushing /\ lane[h].destroys
           /\ lane'[h].entry = lane[h].entry
  <2>1. lane[h].pc # "mark"
    BY <1>2 DEF Pushing
  <2>2. Unrestored(h, lane[h].entry)
    BY <1>2 DEF Held
  <2>3. ASSUME NEW f \in Files, f[1] = h, NEW q \in docs'[h][f], q.status = "restored"
        PROVE  q \in docs[h][f]
    BY <2>1, <2>3, RestoredNow
  <2>4. \A f \in Files : f[1] = h =>
          \A q \in docs'[h][f] : q.status = "restored" => ~Wins(q, lane'[h].entry)
    BY <1>2, <2>2, <2>3 DEF Unrestored
  <2> QED
    BY <2>4 DEF Unrestored
<1>3. CASE Latest(h, lane'[h].entry)
  <2>1. \A f \in Files : \A q \in docs'[h][f] : ~Wins(q, lane'[h].entry)
    BY <1>3 DEF Latest, All
  <2> QED
    BY <2>1 DEF Unrestored
<1>4. \/ /\ lane[h].pc \in Pushing /\ lane[h].destroys
         /\ lane'[h].entry = lane[h].entry
      \/ Latest(h, lane'[h].entry)
  BY <1>1 DEF Goes, Alike, Pushing
<1> QED
  BY <1>2, <1>3, <1>4

\* Behind the last card its snapshot is on the server, younger than any restore of h.
LEMMA HeldGone ==
  ASSUME TrashInv, Facts, Ways, OwnInv, Given,
         NEW h \in Devices, deleting \subseteq {h}, Held(h), cards' = {}
  PROVE  \E r \in All(remote') : Active(r) /\ Unrestored(h, r)'
<1>1. All(remote) \subseteq All(remote')
  BY RemoteGrows DEF Facts, Grows, All
<1>2. ASSUME NEW f \in Files, f[1] = h, NEW q \in docs'[h][f], q.status = "restored"
      PROVE  q \in docs[h][f]
  BY <1>2, RestoredNow
<1>3. \A r : Unrestored(h, r) => Unrestored(h, r)'
  BY <1>2 DEF Unrestored
<1>4. \E r \in All(remote) : Active(r) /\ Unrestored(h, r)
  <2>1. CASE cards = {}
    BY <2>1 DEF Held
  <2>2. CASE cards # {}
    <3>1. PICK e \in Devices : lane[e].pc = "destroy"
      BY <2>2 DEF Ways, LastCard
    <3>2. /\ lane[e].destroys /\ e = h
          /\ lane[e].entry \in All(remote) /\ Active(lane[e].entry)
      BY <3>1, DestroyCarries
    <3>3. Unrestored(h, lane[e].entry)
      BY <3>1, <3>2 DEF Held, Pushing
    <3> QED
      BY <3>2, <3>3
  <2> QED
    BY <2>1, <2>2
<1> QED
  BY <1>1, <1>3, <1>4

\* The files of the server together have a latest record.
Topped == Headed(All(remote))

\* One file is written at a time.
LEMMA OneWrite ==
  ASSUME TrashInv, [Next]_vars
  PROVE  \/ UNCHANGED remote
         \/ \E d \in Devices : /\ lane[d].pc = "write" /\ lane[d].fileFresh
                               /\ remote' = [remote EXCEPT ![Chosen(lane[d])] = lane[d].sent]
<1> DEFINE Written == \E d \in Devices :
             /\ lane[d].pc = "write" /\ lane[d].fileFresh
             /\ remote' = [remote EXCEPT ![Chosen(lane[d])] = lane[d].sent]
<1>1. ASSUME NEW d \in Devices, PushWrite(d) \/ PushFails(d) PROVE UNCHANGED remote \/ Written
  BY <1>1 DEF PushWrite, PushFails, ServeFile, Fresh, File, Chosen, serverVars
<1>2. ASSUME NEW d \in Devices, PullStep(d) \/ Begin(d) \/ PushRead(d) \/ PushConfirm(d)
                                \/ PushEnds(d) \/ PushAll(d)
      PROVE  UNCHANGED remote
  BY <1>2 DEF PullStep, PullFile, PullEnds, Receive, Handle, Begin, PushRead, PushConfirm,
     PushEnds, PushAll, serverVars
<1>3. ASSUME NEW d \in Devices,
             Fetch(d) \/ Stage(d) \/ Destroy(d) \/ Lookup(d) \/ Create(d) \/ Reconcile(d)
             \/ SetStatus(d)
      PROVE  UNCHANGED remote
  BY <1>3 DEF Fetch, Stage, Destroy, Lookup, Create, Reconcile, SetStatus, ServeDestroy,
     ServeCreate, serverVars
<1>4. ASSUME NEW d \in Devices,
             PullFails(d) \/ FrameLost(d) \/ DestroyFails(d) \/ CreateFails(d) \/ WorkerDies(d)
      PROVE  UNCHANGED remote
  BY <1>4 DEF PullFails, FrameLost, DestroyFails, CreateFails, WorkerDies, ServeDestroy,
     ServeCreate, serverVars
<1>5. Edit \/ UNCHANGED vars => UNCHANGED remote
  BY DEF Edit, vars, serverVars
<1>6. ASSUME NEW d \in Devices, NEW kind \in Kinds, Ask(d, kind) PROVE UNCHANGED remote
  BY <1>6 DEF Ask, serverVars
<1> HIDE DEF Written
<1>7. UNCHANGED remote \/ Written
  BY <1>1, <1>2, <1>3, <1>4, <1>5, <1>6 DEF Next, Step, RowStep, PushStep, FaultStep
<1> QED
  BY <1>7 DEF Written

\* What is written is a read that is still good, with what the device had.
LEMMA ToppedKept ==
  ASSUME TrashInv, HeadInv, Topped, [Next]_vars
  PROVE  Topped'
<1>1. CASE UNCHANGED remote
  BY <1>1 DEF Topped
<1>2. ASSUME NEW d \in Devices, lane[d].pc = "write", lane[d].fileFresh,
             remote' = [remote EXCEPT ![Chosen(lane[d])] = lane[d].sent]
      PROVE  Topped'
  <2> DEFINE f == Chosen(lane[d])
             S == lane[d].sent
  <2>1. f \in Files /\ S \in SUBSET Records /\ remote[f] \subseteq S /\ Headed(S)
    BY <1>2, SeenFacts DEF HeadInv
  <2>2. remote \in FilesType /\ All(remote) \in SUBSET Records
    BY RowFacts DEF FilesType, All
  <2>3. remote' = [remote EXCEPT ![f] = S]
    BY <1>2
  <2> HIDE DEF f, S
  <2>4. S = remote[f] \cup S
    BY <2>1
  <2>5. remote' = [remote EXCEPT ![f] = remote[f] \cup S]
    BY <2>3, <2>4
  <2>6. All([remote EXCEPT ![f] = remote[f] \cup S]) = All(remote) \cup S
    BY <2>1, <2>2, AllGrows
  <2>7. All(remote') = All(remote) \cup S
    BY <2>5, <2>6
  <2> QED
    BY <2>1, <2>2, <2>7, HeadedUnion DEF Topped
<1> QED
  BY <1>1, <1>2, OneWrite

\* All steps.
LEMMA KeptStays ==
  ASSUME TrashInv, TrashInv', HeadInv, HeadInv', OwnInv, RowInv, BusyInv, KeptInv, [Next]_vars
  PROVE  KeptInv'
<1>1. Facts /\ Ways /\ Given
  BY StepFacts, StepWays DEF KeptInv
<1>2. Given'
  <2>1. \A d \in Devices : Deletes(lane'[d]) => d \in deleting'
    BY <1>1, DeletersKept
  <2>2. \A d \in Devices : (HasRow(d, "purge") \/ At(d, "delete", "mark"))' => givenUp' # {}
    BY <1>1, MarksKept
  <2>3. (\A d \in Devices : Spared(All(docs[d]))') /\ Spared(All(remote))'
    BY <1>1, SparedKept
  <2>4. cards' = {} => \E r \in All(remote') : Active(r)
    BY <1>1, GoneGiven
  <2> QED
    BY <2>1, <2>2, <2>3, <2>4 DEF Given
<1>3. ASSUME NEW h \in Devices, deleting' \subseteq {h} PROVE Sole(h)' /\ Held(h)'
  <2>1. deleting \subseteq {h}
    BY <1>1, <1>3, DeletersKept
  <2>2. Sole(h) /\ Held(h)
    BY <2>1 DEF KeptInv
  <2>3. Sole(h)'
    BY <1>1, <2>1, <2>2, RecordsSole, ListSole DEF Sole
  <2>4. Held(h)'
    <3>1. lane'[h].pc = "mark" /\ lane'[h].kind # "delete"
            => cards' # {} \/ ~Active(Top(docs'[h]))
      BY <1>1, <2>1, <2>2, HeldMark
    <3>2. lane'[h].pc \in Pushing /\ lane'[h].destroys => Unrestored(h, lane[h].entry)'
      BY <1>1, <2>2, HeldPush
    <3>3. cards' = {} => \E r \in All(remote') : Active(r) /\ Unrestored(h, r)'
      BY <1>1, <2>1, <2>2, HeldGone
    <3> QED
      BY <3>1, <3>2, <3>3 DEF Held
  <2> QED
    BY <2>3, <2>4
<1> QED
  BY <1>2, <1>3 DEF KeptInv

\* At the start the contact is a card, or everybody has the snapshot of it that is on
\* the server.
LEMMA InitKept ==
  ASSUME Init
  PROVE  KeptInv /\ Topped
<1>1. PICK files \in Begun :
        /\ cards = IF files = Empty THEN {First} ELSE {}
        /\ remote = files
        /\ docs = [d \in Devices |-> files]
        /\ listed = [d \in Devices |-> Top(files)]
  BY DEF Init
<1>2. lane = [d \in Devices |-> NoLane] /\ rows = [d \in Devices |-> <<>>]
  BY DEF Init
<1>3. \/ files = Empty /\ All(files) = {}
      \/ \E r \in Records : All(files) = {r} /\ Active(r)
  <2>1. CASE files = Empty
    BY <2>1 DEF All, Empty
  <2>2. CASE files # Empty
    <3> DEFINE r == [status |-> "trashed", at |-> 1, card |-> First]
    <3>1. PICK d \in Deleters : files = [Empty EXCEPT ![<<d, "snapshot">>] = {r}]
      BY <2>2 DEF Begun
    <3>2. <<d, "snapshot">> \in Files
      BY <3>1, TrashAssumption DEF Files
    <3>3. r \in Records /\ Active(r)
      BY TrashAssumption DEF Records, Cards, Ids, First, Active
    <3> HIDE DEF r
    <3>4. All(files) = {r}
      BY <3>1, <3>2 DEF Empty, All
    <3> QED
      BY <3>3, <3>4
  <2> QED
    BY <2>1, <2>2
<1>4. Range(<<>>) = {} /\ NoLane.kind = "none" /\ NoLane.pc = "idle"
  BY NoLanePc DEF Range
<1>5. \A d \in Devices : ~HasRow(d, "purge") /\ lane[d].pc = "idle"
  BY <1>2, <1>4 DEF HasRow
<1>6. \A r \in All(files) : r.status = "trashed"
  BY <1>3 DEF Active
<1>7. cards = {} => All(files) # {}
  BY <1>1, <1>3
<1>8. Given
  <2>1. \A d \in Devices : ~Deletes(lane[d]) /\ ~At(d, "delete", "mark")
    BY <1>5 DEF Deletes, At, Pushing
  <2>2. (\A d \in Devices : Spared(All(docs[d]))) /\ Spared(All(remote))
    BY <1>1, <1>6 DEF Spared
  <2> QED
    BY <1>1, <1>5, <1>6, <1>7, <2>1, <2>2 DEF Given, Active
<1>9. ASSUME NEW h \in Devices PROVE Sole(h) /\ Held(h)
  <2>1. Sole(h)
    BY <1>1 DEF Sole, Vouched
  <2>2. \A f \in Files : \A q \in docs[h][f] : q.status = "trashed"
    BY <1>1, <1>6 DEF All
  <2>3. \A r : Unrestored(h, r)
    BY <2>2 DEF Unrestored
  <2> QED
    BY <1>1, <1>5, <1>6, <1>7, <2>1, <2>3 DEF Held, Pushing, Active
<1>10. Topped
  BY <1>1, <1>3, HeadedOne DEF Topped, Headed
<1> QED
  BY <1>8, <1>9, <1>10 DEF KeptInv

\* The latest record on the server of a contact that is no card: a restore is one of
\* a device beside which another was deleting.
LEMMA KeptIs ==
  ASSUME TrashInv, Topped, OwnInv, deleting \subseteq Devices, KeptInv
  PROVE  ContactKept
<1> SUFFICES ASSUME cards = {}
             PROVE  \/ Active(Top(remote))
                    \/ givenUp # {} /\ Top(remote).status = "purged"
                    \/ RestoredAcross
  BY DEF ContactKept
<1>1. All(remote) # {}
  BY DEF KeptInv, Given
<1>2. remote \in FilesType /\ All(remote) \subseteq Records
  <2>1. remote \in FilesType
    BY DEF TrashInv, ServerInv
  <2> QED
    BY <2>1 DEF FilesType, All
<1>3. Top(remote) \in All(remote) /\ \A q \in All(remote) : ~Wins(q, Top(remote))
  BY <1>1, <1>2, TopHead DEF Topped
<1>4. Top(remote).status \in {"trashed", "restored", "purged"}
  BY <1>2, <1>3 DEF Records
<1>5. CASE Top(remote).status = "purged"
  BY <1>3, <1>5 DEF KeptInv, Given, Spared
<1>6. CASE Top(remote).status = "restored" /\ ~RestoredAcross
  <2>1. PICK f \in Files : Top(remote) \in remote[f]
    BY <1>3 DEF All
  <2> DEFINE e == f[1]
  <2>2. e \in Devices
    BY DEF Files
  <2>3. deleting \subseteq {e}
    BY <1>6, <2>1 DEF RestoredAcross
  <2>4. PICK r \in All(remote) : Active(r) /\ Unrestored(e, r)
    BY <2>2, <2>3 DEF KeptInv, Held
  <2>5. Top(remote) \in docs[e][f]
    BY <2>1, <2>2 DEF OwnInv
  <2>6. ~Wins(Top(remote), r) /\ ~Wins(r, Top(remote))
    BY <1>3, <1>6, <2>4, <2>5 DEF Unrestored
  <2>7. Top(remote) = r
    BY <1>2, <1>3, <2>4, <2>6, WinsTotal
  <2> QED
    BY <2>4, <2>7
<1> QED
  BY <1>4, <1>5, <1>6 DEF Active

(***************************************************************************)
(* The theorems.                                                           *)
(***************************************************************************)
\* Files on the server only grow, clean files are on the server, and a row that
\* pushes to destroy its card carries the snapshot of just this card.
THEOREM TrashInvariant == Spec => []TrashInv
<1>1. TrashInv /\ Next => TrashInv'
  <2> SUFFICES ASSUME TrashInv, Next PROVE TrashInv'
    OBVIOUS
  <2>1. ASSUME NEW d \in Devices, PullStep(d) PROVE TrashInv'
    <3>1. ASSUME NEW kind \in Kinds, Receive(d) \/ Handle(d) PROVE TrashInv'
      BY <3>1, AskStep
    <3> QED
      BY <2>1, <3>1, PullFileStep, PullEndsStep DEF PullStep, Kinds
  <2>2. ASSUME NEW d \in Devices, RowStep(d) PROVE TrashInv'
    BY <2>2, BeginStep, PushReadStep, PushWriteStep, PushConfirmStep, PushEndsStep,
       PushAllStep, FetchStep, StageStep, DestroyStep, LookupStep, CreateStep,
       ReconcileStep, SetStatusStep DEF RowStep, PushStep
  <2>3. ASSUME NEW d \in Devices, FaultStep(d) PROVE TrashInv'
    <3>1. FrameLost(d) => TrashInv'
      BY AskStep DEF Kinds
    <3> QED
      BY <2>3, <3>1, PullFailsStep, PushFailsStep, DestroyStep, CreateStep, DeathStep
         DEF FaultStep
  <2>4. ASSUME NEW d \in Devices, NEW kind \in Kinds, Ask(d, kind) PROVE TrashInv'
    BY <2>4, AskStep
  <2> QED
    BY <2>1, <2>2, <2>3, <2>4, EditStep DEF Next, Step
<1> QED
  BY <1>1, InitTrash, TrashStutter, PTL DEF Spec

\* No record is lost by being taken for uploaded: a clean file has no record the
\* server has not.
THEOREM CleanUploaded == Spec => []CleanIsUploaded
<1>1. TrashInv => CleanIsUploaded
  BY DEF TrashInv, DocsInv
<1> QED
  BY <1>1, TrashInvariant, PTL

\* A card is destroyed only with a snapshot of just this card on the server.
THEOREM CopyBeforeDestroy == Spec => CopyFirst
<1> DEFINE Copied == \A c \in cards : (\A e \in cards' : e.id # c.id) =>
                       \E r \in All(remote) : Active(r) /\ r.card = c
<1>1. ASSUME TrashInv, NEW d \in Devices, lane[d].pc = "destroy", Same(d), ServeDestroy(d)
      PROVE  Copied
  <2> SUFFICES ASSUME NEW c \in cards, \A e \in cards' : e.id # c.id
               PROVE  \E r \in All(remote) : Active(r) /\ r.card = c
    OBVIOUS
  <2>1. c.id = lane[d].card.id
    BY <1>1 DEF ServeDestroy
  <2>2. LaneGood(lane[d], docs[d], remote, cards) /\ lane[d].pc = "destroy" /\ lane[d].cardFresh
    BY <1>1, RowFacts DEF Same
  <2>3. c = lane[d].card /\ Snapshot(lane[d]) /\ \E f \in Files : lane[d].entry \in remote[f]
    BY <2>1, <2>2 DEF LaneGood, Pushing, Carried
  <2> QED
    BY <2>3 DEF Snapshot, All
<1>2. ASSUME \A c \in cards : \E e \in cards' : e.id = c.id PROVE Copied
  BY <1>2
<1>3. ASSUME TrashInv, NEW d \in Devices, Destroy(d) \/ DestroyFails(d) PROVE Copied
  <2>1. CASE ServeDestroy(d) /\ Same(d)
    BY <1>1, <1>3, <2>1 DEF Destroy, DestroyFails
  <2>2. CASE UNCHANGED serverVars
    BY <2>2 DEF serverVars
  <2> QED
    BY <1>3, <2>1, <2>2 DEF Destroy, DestroyFails
<1>4. ASSUME NEW d \in Devices, Create(d) \/ CreateFails(d) PROVE Copied
  BY <1>2, <1>4 DEF Create, CreateFails, ServeCreate, serverVars
<1>5. ASSUME TrashInv, Edit PROVE Copied
  <2>1. PICK c \in cards : cards' = (cards \ {c}) \cup {[c EXCEPT !.ver = asks']}
    BY <1>5 DEF Edit
  <2>2. c \in Cards
    BY <1>5 DEF TrashInv, ServerInv
  <2>3. [c EXCEPT !.ver = asks'].id = c.id
    BY <2>2 DEF Cards
  <2> QED
    BY <1>2, <2>1, <2>3
<1>6. ASSUME NEW d \in Devices, PullStep(d) \/ PushStep(d) PROVE UNCHANGED cards
  BY <1>6 DEF PullStep, PushStep, PullFile, PullEnds, Receive, Handle, PushRead, PushWrite,
     PushConfirm, PushEnds, PushAll, ServeFile, serverVars
<1>7. ASSUME NEW d \in Devices,
             Begin(d) \/ Fetch(d) \/ Stage(d) \/ Lookup(d) \/ Reconcile(d) \/ SetStatus(d)
      PROVE  UNCHANGED cards
  BY <1>7 DEF Begin, Fetch, Stage, Lookup, Reconcile, SetStatus, serverVars
<1>8. ASSUME NEW d \in Devices,
             PullFails(d) \/ FrameLost(d) \/ PushFails(d) \/ WorkerDies(d)
      PROVE  UNCHANGED cards
  BY <1>8 DEF PullFails, FrameLost, PushFails, WorkerDies, ServeFile, serverVars
<1>9. ASSUME NEW d \in Devices, NEW kind \in Kinds, Ask(d, kind) PROVE UNCHANGED cards
  BY <1>9 DEF Ask, serverVars
<1>10. TrashInv /\ [Next]_vars => Copied
  <2> SUFFICES ASSUME TrashInv, [Next]_vars PROVE Copied
    OBVIOUS
  <2>1. CASE UNCHANGED cards
    BY <2>1
  <2>2. UNCHANGED vars => UNCHANGED cards
    BY DEF vars, serverVars
  <2> HIDE DEF Copied
  <2> QED
    BY <1>3, <1>4, <1>5, <1>6, <1>7, <1>8, <1>9, <2>1, <2>2
       DEF Next, Step, RowStep, FaultStep
<1> QED
  BY <1>10, TrashInvariant, PTL DEF Spec, CopyFirst

\* Every record is on the server, or there is a push, a delete or a refresh to bring
\* it there, but behind a refusal or for a card that is gone.
THEOREM RecordsOwed == Spec => []UploadOwed
<1>1. TrashInv /\ UploadInv => UploadOwed
  <2> SUFFICES ASSUME TrashInv, UploadInv, NEW d \in Devices, dirty[d] # {}
               PROVE  PushComes(d)
    BY DEF UploadOwed, TrashInv, DocsInv
  <2>1. CASE ~Quiet(d)
    BY <2>1 DEF Quiet, PushComes, HasRow, RefreshComes
  <2>2. CASE lane[d].kind = "push"
    BY <2>2 DEF PushComes, HasRow
  <2>3. CASE Staged(d)
    BY <2>3 DEF Staged, PushComes
  <2> QED
    BY <2>1, <2>2, <2>3 DEF UploadInv, Owed
<1>2. Spec => []TrashInv
  BY TrashInvariant
<1>3. UploadInv /\ TrashInv /\ TrashInv' /\ [Next]_vars => UploadInv'
  BY UploadKept
<1> QED
  BY <1>1, <1>2, <1>3, InitUpload, PTL DEF Spec

\* Every reachable state is well typed: a row that waits for its retry is in its queue,
\* and no row asks the server more often than its rounds allow.
THEOREM TypeCorrect == Spec => []TypeOK
<1>1. Spec => []TrashInv
  BY TrashInvariant
<1>2. UploadInv /\ TrashInv /\ TrashInv' /\ [Next]_vars => UploadInv'
  BY UploadKept
<1>3. RestInv /\ TrashInv /\ [Next]_vars => RestInv'
  BY RestKept
<1>4. TrashInv /\ UploadInv /\ RestInv => TypeOK
  BY RestTypes DEF UploadInv
<1> QED
  BY <1>1, <1>2, <1>3, <1>4, InitUpload, InitRest, PTL DEF Spec

\* A contact that is no card is an entry of the trash or was given up, whoever deletes,
\* restores, purges, edits or interrupts; or it was restored on a device beside which
\* another was deleting.
THEOREM ContactNotLost == Spec => []ContactKept
<1>1. Spec => []TrashInv
  BY TrashInvariant
<1>2. UploadInv /\ TrashInv /\ TrashInv' /\ [Next]_vars => UploadInv'
  BY UploadKept
<1>3. RestInv /\ TrashInv /\ [Next]_vars => RestInv'
  BY RestKept
<1>4. Init => KeptInv /\ Topped
  BY InitKept
<1>5. /\ TrashInv /\ TrashInv' /\ UploadInv /\ UploadInv' /\ RestInv
      /\ KeptInv /\ Topped /\ [Next]_vars
      => KeptInv' /\ Topped'
  BY KeptStays, ToppedKept DEF UploadInv, RestInv
<1>6. TrashInv /\ UploadInv /\ RestInv /\ Topped /\ KeptInv => ContactKept
  BY KeptIs DEF UploadInv, RestInv
<1> QED
  BY <1>1, <1>2, <1>3, <1>4, <1>5, <1>6, InitUpload, InitRest, PTL DEF Spec

=============================================================================
