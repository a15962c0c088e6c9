--------------------------- MODULE SettingsProofs ---------------------------
(***************************************************************************)
(* Proofs about SettingsDocument, for any number of devices, settings,     *)
(* edits and faults.                                                       *)
(*                                                                         *)
(* A push writes what it merged several awaits ago.  Two facts make that   *)
(* harmless.  As long as its read is fresh, what it saw is what the server *)
(* has, so that the merged document takes nothing back; and what any push  *)
(* or pull has seen the server holds, or better, so that an entry which is *)
(* newer than the server's was edited here, after the push had merged,     *)
(* and has queued a row of its own.                                        *)
(***************************************************************************)
EXTENDS SettingsDocument, TLAPS

(***************************************************************************)
(* The invariant.                                                          *)
(***************************************************************************)
\* A push whose read is fresh has seen what the server has.
FreshIsCurrent ==
  \A d \in Devices :
    push[d].fresh /\ push[d].pc \in {"merge", "write"}
      => push[d].seen = [current |-> current, legacy |-> legacy]

\* The server holds for every key what s has seen, or a later entry.
HeldSince(s) ==
  \A k \in Keys : Stamp(s.current, k) <= Held(k) /\ Stamp(s.legacy, k) <= Held(k)

SeenIsHeld ==
  \A d \in Devices : HeldSince(push[d].seen) /\ HeldSince(pull[d].seen)

\* A document about to be written has merged what its push has seen.
MergedCovers ==
  \A d \in Devices : push[d].pc = "write" => \A k \in Keys :
    /\ push[d].doc[k].stamp >= Stamp(push[d].seen.current, k)
    /\ push[d].doc[k].stamp >= Stamp(push[d].seen.legacy, k)

Inv == TypeOK /\ FreshIsCurrent /\ SeenIsHeld /\ MergedCovers /\ NoEditLost

(***************************************************************************)
(* Documents.                                                              *)
(***************************************************************************)
\* Entries carry a natural number.
LEMMA EntryStamp == \A e \in Entries : e.stamp \in Nat
BY SettingsAssumption DEF Entries, None

\* So does every entry of a file.
LEMMA FileStamp ==
  ASSUME NEW f \in Files, NEW k \in Keys
  PROVE  Stamp(f, k) \in Nat
BY EntryStamp DEF Files, Docs, Stamp

\* Merging a file gives a document whose stamps are the greater ones of the two.
LEMMA MergeFileRight ==
  ASSUME NEW l \in Docs, NEW f \in Files
  PROVE  /\ MergeFile(l, f) \in Docs
         /\ \A k \in Keys :
              /\ MergeFile(l, f)[k].stamp >= l[k].stamp
              /\ MergeFile(l, f)[k].stamp >= Stamp(f, k)
              /\ MergeFile(l, f)[k].stamp \in {l[k].stamp, Stamp(f, k)}
<1>1. CASE f = Missing
  BY <1>1, EntryStamp, SettingsAssumption DEF MergeFile, Docs, Stamp
<1>2. CASE f # Missing
  <2>1. f \in Docs
    BY <1>2 DEF Files
  <2>2. \A k \in Keys : l[k] \in Entries /\ f[k] \in Entries
    BY <2>1 DEF Docs
  <2>3. Merge(l, f) \in Docs
    BY <2>2 DEF Merge, Docs
  <2>4. ASSUME NEW k \in Keys
        PROVE  /\ Merge(l, f)[k].stamp >= l[k].stamp
               /\ Merge(l, f)[k].stamp >= f[k].stamp
               /\ Merge(l, f)[k].stamp \in {l[k].stamp, f[k].stamp}
    <3>1. Merge(l, f)[k] = IF f[k] # None /\ f[k].stamp >= l[k].stamp
                           THEN f[k] ELSE l[k]
      BY DEF Merge
    <3>2. l[k].stamp \in Nat /\ f[k].stamp \in Nat
      BY <2>2, EntryStamp
    <3>3. f[k] = None => f[k].stamp = 0
      BY DEF None
    <3> QED
      BY <3>1, <3>2, <3>3
  <2> QED
    BY <1>2, <2>3, <2>4 DEF MergeFile, Stamp
<1> QED
  BY <1>1, <1>2

\* The same of the merge of both places.
LEMMA MergeSeenRight ==
  ASSUME NEW l \in Docs, NEW s \in Sight
  PROVE  /\ MergeSeen(l, s) \in Docs
         /\ \A k \in Keys :
              /\ MergeSeen(l, s)[k].stamp >= l[k].stamp
              /\ MergeSeen(l, s)[k].stamp >= Stamp(s.current, k)
              /\ MergeSeen(l, s)[k].stamp >= Stamp(s.legacy, k)
              /\ MergeSeen(l, s)[k].stamp \in
                   {l[k].stamp, Stamp(s.current, k), Stamp(s.legacy, k)}
<1> DEFINE first == MergeFile(l, s.legacy)
<1>1. s.legacy \in Files /\ s.current \in Files
  BY DEF Sight
<1>2. first \in Docs
  BY <1>1, MergeFileRight
<1>3. MergeSeen(l, s) = MergeFile(first, s.current)
  BY DEF MergeSeen
<1>4. ASSUME NEW k \in Keys
      PROVE  /\ first[k].stamp >= l[k].stamp
             /\ first[k].stamp >= Stamp(s.legacy, k)
             /\ first[k].stamp \in {l[k].stamp, Stamp(s.legacy, k)}
  BY <1>1, MergeFileRight
<1>5. ASSUME NEW k \in Keys
      PROVE  /\ l[k].stamp \in Nat /\ first[k].stamp \in Nat
             /\ Stamp(s.current, k) \in Nat /\ Stamp(s.legacy, k) \in Nat
  BY <1>1, <1>2, EntryStamp, FileStamp DEF Docs
<1> HIDE DEF first
<1>6. /\ MergeFile(first, s.current) \in Docs
      /\ \A k \in Keys :
           /\ MergeFile(first, s.current)[k].stamp >= first[k].stamp
           /\ MergeFile(first, s.current)[k].stamp >= Stamp(s.current, k)
           /\ MergeFile(first, s.current)[k].stamp \in
                {first[k].stamp, Stamp(s.current, k)}
  BY <1>1, <1>2, MergeFileRight
<1>7. ASSUME NEW k \in Keys
      PROVE  /\ MergeSeen(l, s)[k].stamp >= l[k].stamp
             /\ MergeSeen(l, s)[k].stamp >= Stamp(s.current, k)
             /\ MergeSeen(l, s)[k].stamp >= Stamp(s.legacy, k)
             /\ MergeSeen(l, s)[k].stamp \in
                  {l[k].stamp, Stamp(s.current, k), Stamp(s.legacy, k)}
  BY <1>3, <1>4, <1>5, <1>6
<1> QED
  BY <1>3, <1>6, <1>7

\* What nobody has stored is a document too.
LEMMA Constants ==
  /\ Empty \in Docs /\ Missing \in Files /\ Blind \in Sight
  /\ Docs \subseteq Files
BY DEF Empty, Docs, Entries, Files, Blind, Sight

(***************************************************************************)
(* Types.                                                                  *)
(***************************************************************************)
PushSet == [pc : {"idle", "read", "merge", "write"}, seen : Sight,
            fresh : BOOLEAN, doc : Docs, tries : 0..2]
PullSet == [pc : {"idle", "merge"}, seen : Sight]

\* The idle push and pull, and a push that reads again, are well typed.
LEMMA IdleTyped ==
  /\ NoPush \in PushSet /\ NoPull \in PullSet
  /\ \A n \in 0..2 : Reading(n) \in PushSet
BY Constants DEF NoPush, NoPull, Reading, PushSet, PullSet

\* A push that ends in failure leaves well-typed rows, and stays typed.
LEMMA FailedTyped ==
  ASSUME TypeOK, NEW d \in Devices, NEW p \in [Devices -> PushSet], Failed(p, d)
  PROVE  /\ push' \in [Devices -> PushSet]
         /\ queued' \in [Devices -> BOOLEAN] /\ parked' \in [Devices -> BOOLEAN]
BY IdleTyped DEF Failed, Done, Ensure, TypeOK

\* So does a push that tries again.
LEMMA AgainTyped ==
  ASSUME TypeOK, NEW d \in Devices, NEW p \in [Devices -> PushSet], Again(p, d)
  PROVE  /\ push' \in [Devices -> PushSet]
         /\ queued' \in [Devices -> BOOLEAN] /\ parked' \in [Devices -> BOOLEAN]
<1>1. CASE p[d].tries < 2
  <2>1. p[d].tries + 1 \in 0..2
    BY <1>1 DEF PushSet
  <2>2. Reading(p[d].tries + 1) \in PushSet
    BY <2>1, IdleTyped
  <2> QED
    BY <1>1, <2>2 DEF Again, TypeOK
<1>2. CASE ~(p[d].tries < 2)
  BY <1>2, FailedTyped DEF Again
<1> QED
  BY <1>1, <1>2

\* Outdating keeps the types, and everything but freshness.
LEMMA OutdateRight ==
  ASSUME NEW p \in [Devices -> PushSet]
  PROVE  /\ Outdate(p) \in [Devices -> PushSet]
         /\ \A e \in Devices :
              /\ Outdate(p)[e].pc = p[e].pc /\ Outdate(p)[e].seen = p[e].seen
              /\ Outdate(p)[e].doc = p[e].doc /\ Outdate(p)[e].tries = p[e].tries
              /\ ~Outdate(p)[e].fresh
BY DEF Outdate, PushSet

\* What the server serves are files.
LEMMA ServeTyped ==
  ASSUME TypeOK, NEW d \in Devices, Serve(d)
  PROVE  current' \in Files /\ legacy' \in Files /\ due' \in [Devices -> BOOLEAN]
<1>1. push[d].doc \in Files
  BY Constants DEF TypeOK
<1> QED
  BY <1>1, Constants DEF Serve, Set, TypeOK

\* TypeOK in terms of the sets above.
LEMMA TypeParts ==
  TypeOK <=>
    /\ current \in Files /\ legacy \in Files
    /\ doc \in [Devices -> Docs]
    /\ queued \in [Devices -> BOOLEAN] /\ parked \in [Devices -> BOOLEAN]
    /\ due \in [Devices -> BOOLEAN]
    /\ push \in [Devices -> PushSet] /\ pull \in [Devices -> PullSet]
    /\ edits \in 0..MaxEdits /\ faults \in 0..MaxFaults
BY DEF TypeOK, PushSet, PullSet

\* The same of the next state.
LEMMA TypePartsNext ==
  TypeOK' <=>
    /\ current' \in Files /\ legacy' \in Files
    /\ doc' \in [Devices -> Docs]
    /\ queued' \in [Devices -> BOOLEAN] /\ parked' \in [Devices -> BOOLEAN]
    /\ due' \in [Devices -> BOOLEAN]
    /\ push' \in [Devices -> PushSet] /\ pull' \in [Devices -> PullSet]
    /\ edits' \in 0..MaxEdits /\ faults' \in 0..MaxFaults
BY DEF TypeOK, PushSet, PullSet

\* The first state is well typed.
LEMMA TypeInit == Init => TypeOK
<1> SUFFICES ASSUME Init PROVE TypeOK
  OBVIOUS
<1>1. [k \in Keys |-> [stamp |-> 1, by |-> "old"]] \in Docs
  BY SettingsAssumption DEF Docs, Entries
<1>2. current \in Files /\ legacy \in Files
  BY <1>1, Constants DEF Init
<1>3. edits \in 0..MaxEdits /\ faults \in 0..MaxFaults
  BY SettingsAssumption DEF Init
<1>4. push \in [Devices -> PushSet] /\ pull \in [Devices -> PullSet]
  BY IdleTyped DEF Init
<1> QED
  BY <1>2, <1>3, <1>4, Constants, TypeParts DEF Init

\* A fault is counted within its bound.
LEMMA FaultTyped == TypeOK /\ Fault => faults' \in 0..MaxFaults
BY SettingsAssumption DEF TypeOK, Fault

\* Every step keeps the types.
LEMMA TypeNext == TypeOK /\ [Next]_vars => TypeOK'
<1> SUFFICES ASSUME TypeOK, [Next]_vars PROVE TypeOK'
  OBVIOUS
<1> USE TypeParts
<1>1. ASSUME NEW d \in Devices, Edit(d) PROVE TypeOK'
  <2>1. PICK k \in Keys, now \in 1..MaxStamp :
          LET stamp == IF now > doc[d][k].stamp THEN now ELSE doc[d][k].stamp + 1 IN
          /\ stamp <= MaxStamp
          /\ doc' = [doc EXCEPT ![d][k] = [stamp |-> stamp, by |-> d]]
    BY <1>1 DEF Edit
  <2> DEFINE stamp == IF now > doc[d][k].stamp THEN now ELSE doc[d][k].stamp + 1
             entry == [stamp |-> stamp, by |-> d]
  <2>2. doc[d] \in Docs /\ doc[d][k].stamp \in Nat
    BY EntryStamp DEF Docs
  <2>3. stamp \in 1..MaxStamp
    BY <2>1, <2>2, SettingsAssumption
  <2>4. entry \in Entries
    BY <2>3 DEF Entries
  <2>5. doc' = [doc EXCEPT ![d] = [doc[d] EXCEPT ![k] = entry]]
    BY <2>1, <2>2
  <2> HIDE DEF entry
  <2>6. [doc[d] EXCEPT ![k] = entry] \in Docs
    BY <2>2, <2>4 DEF Docs
  <2>7. doc' \in [Devices -> Docs]
    BY <2>5, <2>6
  <2>8. edits' \in 0..MaxEdits
    BY <1>1, SettingsAssumption DEF Edit
  <2> QED
    BY <1>1, <2>7, <2>8, TypePartsNext DEF Edit, Ensure, serverVars
<1>2. ASSUME NEW d \in Devices, Begin(d) PROVE TypeOK'
  <2>1. Reading(0) \in PushSet
    BY IdleTyped
  <2> QED
    BY <1>2, <2>1, TypePartsNext DEF Begin, serverVars
<1>3. ASSUME NEW d \in Devices, Read(d) PROVE TypeOK'
  <2> DEFINE after == [push[d] EXCEPT !.pc = "merge", !.fresh = TRUE,
                         !.seen = [current |-> current, legacy |-> legacy]]
  <2>1. push[d] \in PushSet /\ [current |-> current, legacy |-> legacy] \in Sight
    BY DEF Sight
  <2>2. after \in PushSet
    BY <2>1 DEF PushSet
  <2>3. push' = [push EXCEPT ![d] = after]
    BY <1>3 DEF Read
  <2> HIDE DEF after
  <2> QED
    BY <1>3, <2>2, <2>3, TypePartsNext DEF Read, serverVars, dbVars
<1>4. ASSUME NEW d \in Devices, MergeRead(d) PROVE TypeOK'
  <2> DEFINE merged == MergeSeen(doc[d], push[d].seen)
             after == [push[d] EXCEPT !.pc = "write", !.doc = merged]
  <2>1. push[d] \in PushSet /\ doc[d] \in Docs /\ push[d].seen \in Sight
    BY DEF PushSet
  <2>2. merged \in Docs
    BY <2>1, MergeSeenRight
  <2>3. doc' = [doc EXCEPT ![d] = merged]
    BY <1>4 DEF MergeRead
  <2>4. push' = [push EXCEPT ![d] = NoPush] \/ push' = [push EXCEPT ![d] = after]
    BY <1>4 DEF MergeRead, Done
  <2> HIDE DEF merged
  <2>5. after \in PushSet
    BY <2>1, <2>2 DEF PushSet
  <2> HIDE DEF after
  <2>6. push' \in [Devices -> PushSet]
    BY <2>4, <2>5, IdleTyped
  <2>7. doc' \in [Devices -> Docs]
    BY <2>2, <2>3
  <2> QED
    BY <1>4, <2>6, <2>7, TypePartsNext DEF MergeRead, serverVars
<1>5. ASSUME NEW d \in Devices, Write(d) PROVE TypeOK'
  <2>1. Outdate(push) \in [Devices -> PushSet]
    BY OutdateRight
  <2>2. CASE ~Fresh(d)
    BY <1>5, <2>2, AgainTyped, TypePartsNext DEF Write, serverVars
  <2>3. CASE Fresh(d)
    <3>1. current' \in Files /\ legacy' \in Files /\ due' \in [Devices -> BOOLEAN]
      BY <1>5, <2>3, ServeTyped DEF Write
    <3>2. /\ push' \in [Devices -> PushSet]
          /\ queued' \in [Devices -> BOOLEAN] /\ parked' \in [Devices -> BOOLEAN]
      BY <1>5, <2>1, <2>3, AgainTyped, IdleTyped DEF Write, Done
    <3> QED
      BY <1>5, <3>1, <3>2, TypePartsNext DEF Write
  <2> QED
    BY <2>2, <2>3
<1>6. ASSUME NEW d \in Devices, CallFails(d) PROVE TypeOK'
  <2>1. Outdate(push) \in [Devices -> PushSet]
    BY OutdateRight
  <2>2. /\ push' \in [Devices -> PushSet]
        /\ queued' \in [Devices -> BOOLEAN] /\ parked' \in [Devices -> BOOLEAN]
    BY <1>6, <2>1, FailedTyped DEF CallFails
  <2>3. current' \in Files /\ legacy' \in Files /\ due' \in [Devices -> BOOLEAN]
    BY <1>6, ServeTyped DEF CallFails, serverVars
  <2>4. faults' \in 0..MaxFaults
    BY <1>6, FaultTyped DEF CallFails
  <2> QED
    BY <1>6, <2>2, <2>3, <2>4, TypePartsNext DEF CallFails
<1>7. ASSUME NEW d \in Devices, PullRead(d) PROVE TypeOK'
  <2> DEFINE after == [pc |-> "merge", seen |-> [current |-> current, legacy |-> legacy]]
  <2>1. after \in PullSet
    BY DEF PullSet, Sight
  <2>2. pull' = [pull EXCEPT ![d] = after]
    BY <1>7 DEF PullRead
  <2> HIDE DEF after
  <2> QED
    BY <1>7, <2>1, <2>2, TypePartsNext DEF PullRead, serverVars, dbVars
<1>8. ASSUME NEW d \in Devices, PullMerge(d) PROVE TypeOK'
  <2> DEFINE merged == MergeSeen(doc[d], pull[d].seen)
  <2>1. doc[d] \in Docs /\ pull[d].seen \in Sight
    BY DEF PullSet
  <2>2. merged \in Docs
    BY <2>1, MergeSeenRight
  <2>3. doc' = [doc EXCEPT ![d] = merged]
    BY <1>8 DEF PullMerge
  <2> HIDE DEF merged
  <2>4. doc' \in [Devices -> Docs]
    BY <2>2, <2>3
  <2>5. pull' \in [Devices -> PullSet] /\ queued' \in [Devices -> BOOLEAN]
    BY <1>8, IdleTyped DEF PullMerge, Ensure
  <2> QED
    BY <1>8, <2>4, <2>5, TypePartsNext DEF PullMerge, serverVars
<1>9. ASSUME NEW d \in Devices, PullFails(d) PROVE TypeOK'
  BY <1>9, FaultTyped, TypePartsNext DEF PullFails, serverVars, dbVars
<1>10. ASSUME NEW d \in Devices, WorkerDies(d) PROVE TypeOK'
  <2>1. push' \in [Devices -> PushSet] /\ pull' \in [Devices -> PullSet]
    BY <1>10, IdleTyped DEF WorkerDies
  <2>2. queued' \in [Devices -> BOOLEAN] /\ due' \in [Devices -> BOOLEAN]
    BY <1>10 DEF WorkerDies
  <2> QED
    BY <1>10, <2>1, <2>2, FaultTyped, TypePartsNext DEF WorkerDies, serverVars
<1>11. CASE UNCHANGED vars
  BY <1>11, TypePartsNext DEF vars, serverVars, dbVars
<1> QED
  BY <1>1, <1>2, <1>3, <1>4, <1>5, <1>6, <1>7, <1>8, <1>9, <1>10, <1>11
     DEF Next, PushStep, PullStep

\* Every reachable state of the settings is well typed.
THEOREM TypeCorrect == Spec => []TypeOK
<1>1. Init => TypeOK
  BY TypeInit
<1>2. TypeOK /\ [Next]_vars => TypeOK'
  BY TypeNext
<1> QED
  BY <1>1, <1>2, PTL DEF Spec

(***************************************************************************)
(* The server takes nothing back.                                          *)
(***************************************************************************)
\* A document is a file that exists: it has a key.
LEMMA DocIsFile == \A f \in Docs : f # Missing
<1> SUFFICES ASSUME NEW f \in Docs, f = Missing PROVE FALSE
  OBVIOUS
<1>1. PICK k : k \in Keys
  BY SettingsAssumption
<1>2. DOMAIN f = Keys
  BY DEF Docs
<1>3. DOMAIN Missing = {}
  BY DEF Missing
<1> QED
  BY <1>1, <1>2, <1>3

\* A write that is fresh leaves entries at least as late as what was there, and,
\* unless it migrates the file, its own.
LEMMA ServeHolds ==
  ASSUME TypeOK, FreshIsCurrent, MergedCovers, NEW d \in Devices,
         push[d].pc = "write", Fresh(d), Serve(d), NEW k \in Keys
  PROVE  /\ Held(k)' >= Held(k)
         /\ ~Migrates(d) => Held(k)' = push[d].doc[k].stamp
<1>1. push[d].seen.current = current /\ push[d].seen.legacy = legacy
  BY DEF FreshIsCurrent, Fresh
<1>2. /\ Stamp(current, k) \in Nat /\ Stamp(legacy, k) \in Nat
      /\ Stamp(Missing, k) = 0
  BY FileStamp DEF TypeOK, Stamp
<1>3. CASE Migrates(d)
  <2>1. current = Missing /\ current' = legacy /\ legacy' = Missing
    BY <1>1, <1>3 DEF Migrates, Serve, Set
  <2>2. Stamp(current, k) = 0 /\ Stamp(current', k) = Stamp(legacy, k) /\ Stamp(legacy', k) = 0
    BY <1>2, <2>1
  <2> QED
    BY <1>2, <1>3, <2>2 DEF Held, Stamp
<1>4. CASE ~Migrates(d)
  <2>1. current' = push[d].doc /\ legacy' = Missing
    BY <1>4 DEF Serve, Set
  <2>2. push[d].doc \in Docs /\ push[d].doc # Missing /\ push[d].doc[k].stamp \in Nat
    BY TypeParts, DocIsFile, EntryStamp DEF PushSet, Docs
  <2>3. push[d].doc[k].stamp >= Stamp(current, k) /\ push[d].doc[k].stamp >= Stamp(legacy, k)
    BY <1>1 DEF MergedCovers
  <2>4. Stamp(current', k) = push[d].doc[k].stamp /\ Stamp(legacy', k) = 0
    BY <2>1, <2>2 DEF Stamp
  <2> QED
    BY <1>2, <2>2, <2>3, <2>4 DEF Held, Stamp
<1> QED
  BY <1>3, <1>4

\* Held is the greater one of two natural numbers.
LEMMA HeldRight ==
  ASSUME TypeOK, NEW k \in Keys
  PROVE  /\ Held(k) \in Nat
         /\ Stamp(current, k) \in Nat /\ Stamp(current, k) <= Held(k)
         /\ Stamp(legacy, k) \in Nat /\ Stamp(legacy, k) <= Held(k)
<1>1. Stamp(current, k) \in Nat /\ Stamp(legacy, k) \in Nat
  BY FileStamp DEF TypeOK
<1> QED
  BY <1>1 DEF Held

\* No step takes back what the server held.
LEMMA HeldGrows ==
  ASSUME TypeOK, FreshIsCurrent, MergedCovers, [Next]_vars, NEW k \in Keys
  PROVE  Held(k)' >= Held(k)
<1>1. UNCHANGED serverVars => Held(k)' >= Held(k)
  BY HeldRight DEF serverVars, Held, Stamp
<1>2. ASSUME NEW d \in Devices, Write(d) PROVE Held(k)' >= Held(k)
  BY <1>1, <1>2, ServeHolds DEF Write
<1>3. ASSUME NEW d \in Devices, CallFails(d) PROVE Held(k)' >= Held(k)
  BY <1>1, <1>3, ServeHolds DEF CallFails, serverVars
<1>4. UNCHANGED serverVars \/ \E d \in Devices : Write(d) \/ CallFails(d)
  BY DEF Next, PushStep, PullStep, Begin, Read, MergeRead, Edit, PullRead, PullMerge,
     PullFails, WorkerDies, vars
<1> QED
  BY <1>1, <1>2, <1>3, <1>4

(***************************************************************************)
(* What pushes and pulls know.                                             *)
(***************************************************************************)
\* What a step does to the push of a device: nothing, or it outdates it, or it
\* moves it on.
LEMMA PushMoves ==
  ASSUME TypeOK, [Next]_vars, NEW e \in Devices
  PROVE  \/ push'[e] = push[e] /\ UNCHANGED serverVars
         \/ push'[e].pc \in {"idle", "read"} /\ push'[e].seen = Blind
         \/ /\ push'[e].seen = [current |-> current, legacy |-> legacy]
            /\ push'[e].pc = "merge" /\ UNCHANGED serverVars
         \/ /\ push'[e].pc = "write" /\ push[e].pc = "merge"
            /\ push'[e].seen = push[e].seen /\ push'[e].fresh = push[e].fresh
            /\ push'[e].doc = MergeSeen(doc[e], push[e].seen)
            /\ UNCHANGED serverVars
         \/ /\ push'[e].pc = push[e].pc /\ push'[e].seen = push[e].seen
            /\ push'[e].doc = push[e].doc /\ ~push'[e].fresh
<1> DEFINE same == push'[e] = push[e] /\ UNCHANGED serverVars
           fresh == push'[e].pc \in {"idle", "read"} /\ push'[e].seen = Blind
           outdated == /\ push'[e].pc = push[e].pc /\ push'[e].seen = push[e].seen
                       /\ push'[e].doc = push[e].doc /\ ~push'[e].fresh
<1>1. push \in [Devices -> PushSet] /\ Outdate(push) \in [Devices -> PushSet]
  BY TypeParts, OutdateRight
<1>2. ASSUME NEW d \in Devices, NEW p \in [Devices -> PushSet],
             Again(p, d) \/ Failed(p, d) \/ Done(p, d)
      PROVE  IF e = d THEN push'[e].pc \in {"idle", "read"} /\ push'[e].seen = Blind
                      ELSE push'[e] = p[e]
  BY <1>2 DEF Again, Failed, Done, Reading, NoPush
<1>3. ASSUME NEW d \in Devices, Begin(d) PROVE same \/ fresh
  BY <1>1, <1>3 DEF Begin, Reading
<1>4. ASSUME NEW d \in Devices, Read(d)
      PROVE  \/ same
             \/ /\ push'[e].seen = [current |-> current, legacy |-> legacy]
                /\ push'[e].pc = "merge" /\ UNCHANGED serverVars
  <2>1. push[d] \in PushSet
    BY <1>1
  <2> QED
    BY <1>1, <1>4, <2>1 DEF Read, PushSet
<1>5. ASSUME NEW d \in Devices, MergeRead(d)
      PROVE  \/ same \/ fresh
             \/ /\ push'[e].pc = "write" /\ push[e].pc = "merge"
                /\ push'[e].seen = push[e].seen /\ push'[e].fresh = push[e].fresh
                /\ push'[e].doc = MergeSeen(doc[e], push[e].seen)
                /\ UNCHANGED serverVars
  <2> DEFINE merged == MergeSeen(doc[d], push[d].seen)
             after == [push[d] EXCEPT !.pc = "write", !.doc = merged]
  <2>1. push[d] \in PushSet
    BY <1>1
  <2>2. /\ push[d].pc = "merge" /\ UNCHANGED serverVars
        /\ Done(push, d) \/ push' = [push EXCEPT ![d] = after]
    BY <1>5 DEF MergeRead
  <2> HIDE DEF merged
  <2>3. /\ after.pc = "write" /\ after.seen = push[d].seen
        /\ after.fresh = push[d].fresh /\ after.doc = merged
    BY <2>1 DEF PushSet
  <2> HIDE DEF after
  <2>4. CASE Done(push, d)
    BY <1>1, <1>2, <2>2, <2>4
  <2>5. CASE push' = [push EXCEPT ![d] = after]
    BY <1>1, <2>2, <2>3, <2>5 DEF merged
  <2> QED
    BY <2>2, <2>4, <2>5
<1>6. ASSUME NEW d \in Devices, Write(d) \/ CallFails(d) PROVE same \/ fresh \/ outdated
  <2>1. \/ UNCHANGED serverVars /\ (Again(push, d) \/ Failed(push, d))
        \/ Again(Outdate(push), d) \/ Failed(Outdate(push), d) \/ Done(Outdate(push), d)
    BY <1>6 DEF Write, CallFails
  <2>2. CASE UNCHANGED serverVars /\ (Again(push, d) \/ Failed(push, d))
    BY <1>1, <1>2, <2>2
  <2>3. CASE Again(Outdate(push), d) \/ Failed(Outdate(push), d) \/ Done(Outdate(push), d)
    BY <1>1, <1>2, <2>3, OutdateRight
  <2> QED
    BY <2>1, <2>2, <2>3
<1>7. ASSUME NEW d \in Devices, WorkerDies(d) PROVE same \/ fresh
  BY <1>1, <1>7 DEF WorkerDies, NoPush
<1>8. ASSUME NEW d \in Devices,
             Edit(d) \/ PullRead(d) \/ PullMerge(d) \/ PullFails(d)
      PROVE  same
  BY <1>8 DEF Edit, PullRead, PullMerge, PullFails
<1>9. CASE UNCHANGED vars
  BY <1>9 DEF vars
<1> QED
  BY <1>3, <1>4, <1>5, <1>6, <1>7, <1>8, <1>9 DEF Next, PushStep, PullStep

\* A pull has seen what it saw, or nothing, or what the server has.
LEMMA PullMoves ==
  ASSUME TypeOK, [Next]_vars, NEW e \in Devices
  PROVE  \/ pull'[e].seen = pull[e].seen
         \/ pull'[e].seen = Blind
         \/ pull'[e].seen = [current |-> current, legacy |-> legacy]
<1>1. ASSUME NEW d \in Devices, PullRead(d)
      PROVE  \/ pull'[e] = pull[e]
             \/ pull'[e].seen = [current |-> current, legacy |-> legacy]
  BY <1>1 DEF PullRead, TypeOK
<1>2. ASSUME NEW d \in Devices, PullMerge(d) \/ WorkerDies(d)
      PROVE  pull'[e] = pull[e] \/ pull'[e].seen = Blind
  BY <1>2 DEF PullMerge, WorkerDies, NoPull, TypeOK
<1>3. UNCHANGED pull \/ \E d \in Devices : PullRead(d) \/ PullMerge(d) \/ WorkerDies(d)
  BY DEF Next, PushStep, PullStep, Begin, Read, MergeRead, Write, Edit, CallFails,
     PullFails, vars
<1> QED
  BY <1>1, <1>2, <1>3

\* A fresh read stays what the server has.
LEMMA FreshNext == TypeOK /\ FreshIsCurrent /\ [Next]_vars => FreshIsCurrent'
<1> SUFFICES ASSUME TypeOK, FreshIsCurrent, [Next]_vars, NEW e \in Devices,
                    push'[e].fresh, push'[e].pc \in {"merge", "write"}
             PROVE  push'[e].seen = [current |-> current', legacy |-> legacy']
  BY DEF FreshIsCurrent
<1> QED
  BY PushMoves DEF FreshIsCurrent, serverVars

\* What was seen stays held.
LEMMA SeenNext ==
  TypeOK /\ FreshIsCurrent /\ MergedCovers /\ SeenIsHeld /\ [Next]_vars => SeenIsHeld'
<1> SUFFICES ASSUME TypeOK, FreshIsCurrent, MergedCovers, SeenIsHeld, [Next]_vars
             PROVE  SeenIsHeld'
  OBVIOUS
<1> DEFINE Then(s) ==
      \A k \in Keys : Stamp(s.current, k) <= Held(k)' /\ Stamp(s.legacy, k) <= Held(k)'
<1>1. ASSUME NEW s \in Sight, HeldSince(s) PROVE Then(s)
  <2> SUFFICES ASSUME NEW k \in Keys
               PROVE  Stamp(s.current, k) <= Held(k)' /\ Stamp(s.legacy, k) <= Held(k)'
    OBVIOUS
  <2>1. s.current \in Files /\ s.legacy \in Files
    BY DEF Sight
  <2>2. Stamp(s.current, k) \in Nat /\ Stamp(s.legacy, k) \in Nat
    BY <2>1, FileStamp
  <2>3. Stamp(s.current, k) <= Held(k) /\ Stamp(s.legacy, k) <= Held(k)
    BY <1>1 DEF HeldSince
  <2>4. Held(k) \in Nat /\ Held(k)' \in Nat
    <3>1. TypeOK'
      BY TypeNext
    <3>2. /\ Stamp(current', k) \in Nat /\ Stamp(legacy', k) \in Nat
      BY <3>1, TypePartsNext, FileStamp
    <3> QED
      BY <3>2, HeldRight DEF Held, Stamp
  <2> QED
    BY <2>2, <2>3, <2>4, HeldGrows
<1>2. /\ HeldSince(Blind) /\ Blind \in Sight
      /\ HeldSince([current |-> current, legacy |-> legacy])
      /\ [current |-> current, legacy |-> legacy] \in Sight
  BY HeldRight, Constants DEF HeldSince, Blind, Stamp, Sight, TypeOK
<1>5. \A s \in Sight : HeldSince(s) => Then(s)
  BY <1>1
<1> HIDE DEF Then
<1>3. ASSUME NEW e \in Devices PROVE Then(push'[e].seen)
  <2>1. push[e].seen \in Sight /\ HeldSince(push[e].seen)
    BY DEF SeenIsHeld, TypeOK
  <2>2. push'[e].seen \in {push[e].seen, Blind, [current |-> current, legacy |-> legacy]}
    BY PushMoves
  <2> QED
    BY <1>5, <1>2, <2>1, <2>2
<1>4. ASSUME NEW e \in Devices PROVE Then(pull'[e].seen)
  <2>1. pull[e].seen \in Sight /\ HeldSince(pull[e].seen)
    BY DEF SeenIsHeld, TypeOK
  <2> QED
    BY <1>5, <1>2, <2>1, PullMoves
<1> QED
  BY <1>3, <1>4 DEF SeenIsHeld, HeldSince, Stamp, Then

\* What is about to be written covers what was seen.
LEMMA CoversNext == TypeOK /\ MergedCovers /\ [Next]_vars => MergedCovers'
<1> SUFFICES ASSUME TypeOK, MergedCovers, [Next]_vars, NEW e \in Devices,
                    push'[e].pc = "write", NEW k \in Keys
             PROVE  /\ push'[e].doc[k].stamp >= Stamp(push'[e].seen.current, k)
                    /\ push'[e].doc[k].stamp >= Stamp(push'[e].seen.legacy, k)
  BY DEF MergedCovers, Stamp
<1>1. doc[e] \in Docs /\ push[e].seen \in Sight
  BY DEF TypeOK
<1> QED
  BY <1>1, PushMoves, MergeSeenRight DEF MergedCovers

(***************************************************************************)
(* Edits.                                                                  *)
(***************************************************************************)
\* Every step of a device keeps its debt: what is newer than the server's entry is
\* carried by a push, or a row in conflict says that it is not.
LEMMA EditNext == Inv /\ [Next]_vars => NoEditLost'
<1> SUFFICES ASSUME Inv, [Next]_vars, NEW e \in Devices, NEW k \in Keys,
                    doc'[e][k].stamp > Held(k)'
             PROVE  Carried(e, k)' \/ parked'[e]
  BY DEF NoEditLost
<1> DEFINE owed == doc[e][k].stamp > Held(k)
           kept == queued'[e] \/ parked'[e] \/ push'[e].pc = "read"
<1>1. /\ TypeOK /\ Held(k) \in Nat /\ Held(k)' \in Nat /\ Held(k)' >= Held(k)
      /\ doc[e] \in Docs /\ doc[e][k].stamp \in Nat
      /\ push \in [Devices -> PushSet] /\ queued \in [Devices -> BOOLEAN]
      /\ parked \in [Devices -> BOOLEAN] /\ push[e].doc[k].stamp \in Nat
  <2>1. TypeOK /\ TypeOK'
    BY TypeNext DEF Inv
  <2>2. Held(k) \in Nat /\ Held(k)' \in Nat
    <3>1. Stamp(current', k) \in Nat /\ Stamp(legacy', k) \in Nat
      BY <2>1, TypePartsNext, FileStamp
    <3> QED
      BY <2>1, <3>1, HeldRight DEF Held, Stamp
  <2>3. push[e].doc \in Docs /\ doc[e] \in Docs
    BY <2>1 DEF TypeOK
  <2>4. push[e].doc[k].stamp \in Nat /\ doc[e][k].stamp \in Nat
    BY <2>3, EntryStamp DEF Docs
  <2> QED
    BY <2>1, <2>2, <2>3, <2>4, HeldGrows, TypeParts DEF Inv
<1>2. owed => Carried(e, k) \/ parked[e]
  BY DEF Inv, NoEditLost
<1>3. kept => Carried(e, k)' \/ parked'[e]
  BY DEF Carried
<1>4. ASSUME doc'[e] = doc[e], push'[e] = push[e], queued[e] => queued'[e],
             parked'[e] = parked[e]
      PROVE  Carried(e, k)' \/ parked'[e]
  BY <1>1, <1>2, <1>4 DEF Carried
<1>5. ASSUME NEW d \in Devices, Edit(d) PROVE Carried(e, k)' \/ parked'[e]
  <2>1. e = d => queued'[e]
    BY <1>1, <1>5 DEF Edit, Ensure
  <2>2. e # d => doc'[e] = doc[e]
    BY <1>1, <1>5 DEF Edit, TypeOK
  <2>3. push'[e] = push[e] /\ parked'[e] = parked[e] /\ (queued[e] => queued'[e])
    BY <1>1, <1>5 DEF Edit, Ensure
  <2> QED
    BY <1>3, <1>4, <2>1, <2>2, <2>3
<1>6. ASSUME NEW d \in Devices, Begin(d) PROVE Carried(e, k)' \/ parked'[e]
  <2>1. e = d => kept
    BY <1>1, <1>6 DEF Begin, Reading
  <2>2. e # d => /\ doc'[e] = doc[e] /\ push'[e] = push[e]
                 /\ queued'[e] = queued[e] /\ parked'[e] = parked[e]
    BY <1>1, <1>6 DEF Begin
  <2> QED
    BY <1>3, <1>4, <2>1, <2>2
<1>7. ASSUME NEW d \in Devices, Read(d) PROVE Carried(e, k)' \/ parked'[e]
  <2>1. e = d => push'[e].pc = "merge"
    <3>1. push[d] \in PushSet
      BY <1>1
    <3> QED
      BY <1>1, <1>7, <3>1 DEF Read, PushSet
  <2>2. /\ doc'[e] = doc[e] /\ e # d => push'[e] = push[e]
        /\ queued'[e] = queued[e] /\ parked'[e] = parked[e]
    BY <1>1, <1>7 DEF Read, dbVars
  <2> QED
    BY <1>4, <1>7, <2>1, <2>2 DEF Carried, Read, dbVars
<1>8. ASSUME NEW d \in Devices, MergeRead(d) PROVE Carried(e, k)' \/ parked'[e]
  <2> DEFINE merged == MergeSeen(doc[d], push[d].seen)
             after == [push[d] EXCEPT !.pc = "write", !.doc = merged]
  <2>1. push[d] \in PushSet /\ doc[d] \in Docs /\ doc' = [doc EXCEPT ![d] = merged]
    BY <1>1, <1>8 DEF MergeRead, TypeOK
  <2>2. CASE e # d
    BY <1>1, <1>4, <1>8, <2>1, <2>2 DEF MergeRead, Done, TypeOK
  <2>3. CASE e = d /\ merged = Empty
    <3>1. doc'[e][k].stamp = 0
      BY <1>1, <2>1, <2>3 DEF Empty, None, TypeOK
    <3> QED
      BY <1>1, <3>1
  <2>4. CASE e = d /\ merged # Empty
    <3>1. push' = [push EXCEPT ![d] = after]
      BY <1>8, <2>4 DEF MergeRead
    <3>2. doc'[e] = merged /\ merged[k].stamp \in Nat
      <4>1. merged \in Docs
        BY <2>1, MergeSeenRight DEF PushSet
      <4> HIDE DEF merged
      <4> QED
        BY <1>1, <2>1, <2>4, <4>1, EntryStamp DEF Docs, TypeOK
    <3> HIDE DEF merged
    <3>3. after.pc = "write" /\ after.doc = merged
      BY <2>1 DEF PushSet
    <3> HIDE DEF after
    <3> QED
      BY <1>1, <2>4, <3>1, <3>2, <3>3 DEF Carried
  <2> QED
    BY <2>2, <2>3, <2>4
<1>9. ASSUME NEW d \in Devices, Write(d) \/ CallFails(d) PROVE Carried(e, k)' \/ parked'[e]
  <2>1. doc'[e] = doc[e] /\ owed
    BY <1>1, <1>9 DEF Write, CallFails
  <2>2. Outdate(push) \in [Devices -> PushSet]
    BY <1>1, OutdateRight
  <2>3. ASSUME NEW p \in [Devices -> PushSet], Again(p, d) \/ Failed(p, d)
        PROVE  IF e = d THEN kept
               ELSE /\ push'[e] = p[e]
                    /\ queued'[e] = queued[e] /\ parked'[e] = parked[e]
    <3>1. CASE Failed(p, d)
      BY <1>1, <3>1 DEF Failed, Done, Ensure
    <3>2. CASE Again(p, d) /\ p[d].tries < 2
      BY <1>1, <3>2 DEF Again, Reading
    <3> QED
      BY <2>3, <3>1, <3>2 DEF Again
  <2>4. CASE \E p \in {push, Outdate(push)} : Again(p, d) \/ Failed(p, d)
    <3>1. PICK p \in {push, Outdate(push)} : Again(p, d) \/ Failed(p, d)
      BY <2>4
    <3>2. /\ p \in [Devices -> PushSet]
          /\ p[e].pc = push[e].pc /\ p[e].doc = push[e].doc
      BY <1>1, <2>2, <3>1, OutdateRight
    <3>3. IF e = d THEN kept
          ELSE /\ push'[e] = p[e] /\ queued'[e] = queued[e] /\ parked'[e] = parked[e]
      BY <2>3, <3>1, <3>2
    <3> QED
      BY <1>2, <1>3, <2>1, <3>2, <3>3 DEF Carried
  <2>5. CASE Write(d) /\ Fresh(d) /\ ~Migrates(d)
    <3>1. /\ push[d].pc = "write" /\ Serve(d) /\ Done(Outdate(push), d)
          /\ UNCHANGED <<queued, parked>>
      BY <2>5 DEF Write
    <3>2. CASE e = d
      <4>1. Held(k)' = push[e].doc[k].stamp
        BY <1>1, <2>5, <3>1, <3>2, ServeHolds DEF Inv
      <4> QED
        BY <1>1, <1>2, <1>3, <2>1, <3>1, <3>2, <4>1 DEF Carried
    <3>3. CASE e # d
      <4>1. /\ push'[e].pc = push[e].pc /\ push'[e].doc = push[e].doc
        BY <1>1, <2>2, <3>1, <3>3, OutdateRight DEF Done
      <4> QED
        BY <1>2, <2>1, <3>1, <4>1 DEF Carried
    <3> QED
      BY <3>2, <3>3
  <2> QED
    BY <1>9, <2>4, <2>5 DEF Write, CallFails
<1>10. ASSUME NEW d \in Devices, PullMerge(d) PROVE Carried(e, k)' \/ parked'[e]
  <2> DEFINE merged == MergeSeen(doc[d], pull[d].seen)
  <2>1. /\ doc' = [doc EXCEPT ![d] = merged] /\ doc[d] \in Docs
        /\ pull[d].seen \in Sight
    BY <1>1, <1>10 DEF PullMerge, TypeOK
  <2>2. push'[e] = push[e] /\ parked'[e] = parked[e] /\ (queued[e] => queued'[e])
    BY <1>1, <1>10 DEF PullMerge, Ensure
  <2>3. CASE e # d
    BY <1>1, <1>4, <2>1, <2>2, <2>3 DEF TypeOK
  <2>4. CASE e = d
    <3>1. merged[k].stamp \in {doc[d][k].stamp, Stamp(pull[d].seen.current, k),
                               Stamp(pull[d].seen.legacy, k)}
      BY <2>1, MergeSeenRight
    <3>2. /\ Stamp(pull[d].seen.current, k) <= Held(k)
          /\ Stamp(pull[d].seen.legacy, k) <= Held(k)
      BY DEF Inv, SeenIsHeld, HeldSince
    <3>3. Stamp(pull[d].seen.current, k) \in Nat /\ Stamp(pull[d].seen.legacy, k) \in Nat
      BY <2>1, FileStamp DEF Sight
    <3>4. doc'[e] = merged
      BY <2>1, <2>4 DEF TypeOK, Inv
    <3> HIDE DEF merged
    <3>5. doc'[e][k].stamp = doc[e][k].stamp
      BY <1>1, <2>4, <3>1, <3>2, <3>3, <3>4
    <3> QED
      BY <1>1, <1>2, <2>2, <3>5 DEF Carried
  <2> QED
    BY <2>3, <2>4
<1>11. ASSUME NEW d \in Devices, WorkerDies(d) PROVE Carried(e, k)' \/ parked'[e]
  <2>1. /\ doc'[e] = doc[e] /\ parked'[e] = parked[e] /\ owed
    BY <1>1, <1>11 DEF WorkerDies
  <2>2. CASE e = d
    <3>1. queued'[e] = (queued[e] \/ push[e].pc # "idle")
      BY <1>1, <1>11, <2>2 DEF WorkerDies
    <3> QED
      BY <1>2, <1>3, <2>1, <3>1 DEF Carried
  <2>3. CASE e # d
    BY <1>1, <1>4, <1>11, <2>1, <2>3 DEF WorkerDies
  <2> QED
    BY <2>2, <2>3
<1>12. CASE UNCHANGED vars \/ \E d \in Devices : PullRead(d) \/ PullFails(d)
  BY <1>4, <1>12 DEF vars, dbVars, PullRead, PullFails
<1> QED
  BY <1>5, <1>6, <1>7, <1>8, <1>9, <1>10, <1>11, <1>12 DEF Next, PushStep, PullStep

(***************************************************************************)
(* The theorems.                                                           *)
(***************************************************************************)
\* The inductive invariant.
THEOREM SettingsInvariant == Spec => []Inv
<1>1. Init => Inv
  <2> SUFFICES ASSUME Init PROVE Inv
    OBVIOUS
  <2>1. TypeOK
    BY TypeInit
  <2>2. \A d \in Devices : push[d] = NoPush /\ pull[d] = NoPull /\ doc[d] = Empty
    BY DEF Init
  <2>3. FreshIsCurrent /\ MergedCovers
    BY <2>2 DEF FreshIsCurrent, MergedCovers, NoPush
  <2>4. SeenIsHeld
    BY <2>1, <2>2, HeldRight DEF SeenIsHeld, HeldSince, NoPush, NoPull, Blind, Stamp
  <2>5. NoEditLost
    BY <2>1, <2>2, HeldRight DEF NoEditLost, Empty, None
  <2> QED
    BY <2>1, <2>3, <2>4, <2>5 DEF Inv
<1>2. Inv /\ [Next]_vars => Inv'
  BY TypeNext, FreshNext, SeenNext, CoversNext, EditNext DEF Inv
<1> QED
  BY <1>1, <1>2, PTL DEF Spec

\* No edit is lost: it is on the server or beaten there, or a push will carry it,
\* or a row in conflict says that none will.
THEOREM EditsKept == Spec => []NoEditLost
<1>1. Inv => NoEditLost
  BY DEF Inv
<1> QED
  BY <1>1, SettingsInvariant, PTL

\* No write takes back what the server held, whoever wrote it and when.
THEOREM ServerKeeps == Spec => NothingTakenBack
<1>1. Inv /\ [Next]_vars => [\A k \in Keys : Held(k)' >= Held(k)]_vars
  BY HeldGrows DEF Inv
<1> QED
  BY <1>1, SettingsInvariant, PTL DEF Spec, NothingTakenBack
=============================================================================
