-------------------------- MODULE SettingsDocument --------------------------
(***************************************************************************)
(* The user settings: one JSON document per account, kept by every device  *)
(* in its own database and shared through a file on the server.            *)
(*                                                                         *)
(* An edit stamps its key and queues one push.  A push reads the file,     *)
(* merges it into the local document and writes the result on condition    *)
(* that no file changed since the read; a pull merges what it reads and    *)
(* queues a push when there is something to repair.  Both also migrate the *)
(* file from the place where older releases kept it.                       *)
(*                                                                         *)
(* A document is a function from keys to entries; an entry is the stamp    *)
(* and the device of the edit that wrote it, which together stand for the  *)
(* value.                                                                  *)
(***************************************************************************)
EXTENDS Naturals, FiniteSets

CONSTANTS
  Devices,    \* the devices of the user, each with a database and a worker
  Keys,       \* setting names
  MaxStamp,   \* bound on the clocks
  MaxEdits,   \* bound on the edits
  MaxFaults   \* bound on failed or lost calls and deaths of a worker

ASSUME SettingsAssumption ==
  /\ IsFiniteSet(Devices) /\ "old" \notin Devices /\ Keys # {}
  /\ MaxStamp \in Nat \ {0} /\ {MaxEdits, MaxFaults} \subseteq Nat

VARIABLES
  current,    \* the server: the document in its folder
  legacy,     \* the server: the document at the old place
  doc,        \* database of a device: user_settings
  queued,     \* database of a device: a pushSettings row is pending or in retry
  parked,     \* database of a device: a pushSettings row is in conflict
  push,       \* the push a device runs
  pull,       \* the pull a device runs
  due,        \* a device has been told of a change, or has started
  edits,      \* edits so far
  faults      \* faults so far

serverVars == <<current, legacy>>
dbVars == <<doc, queued, parked>>
vars == <<serverVars, dbVars, push, pull, due, edits, faults>>

None == [stamp |-> 0, by |-> "none"]
Entries == {None} \cup [stamp : 1..MaxStamp, by : Devices \cup {"old"}]
Missing == <<>>    \* no file, as against a file without entries
Docs == [Keys -> Entries]
Files == Docs \cup {Missing}
Empty == [k \in Keys |-> None]

Sight == [current : Files, legacy : Files]
Blind == [current |-> Missing, legacy |-> Missing]
NoPush == [pc |-> "idle", seen |-> Blind, fresh |-> FALSE, doc |-> Empty, tries |-> 0]
NoPull == [pc |-> "idle", seen |-> Blind]
Reading(n) ==
  [pc |-> "read", seen |-> Blind, fresh |-> FALSE, doc |-> Empty, tries |-> n]

TypeOK ==
  /\ current \in Files /\ legacy \in Files
  /\ doc \in [Devices -> Docs]
  /\ {queued, parked, due} \subseteq [Devices -> BOOLEAN]
  /\ push \in [Devices -> [pc : {"idle", "read", "merge", "write"}, seen : Sight,
                           fresh : BOOLEAN, doc : Docs, tries : 0..2]]
  /\ pull \in [Devices -> [pc : {"idle", "merge"}, seen : Sight]]
  /\ edits \in 0..MaxEdits /\ faults \in 0..MaxFaults

\* The old place may hold a document of an older release.
Init ==
  /\ current = Missing
  /\ legacy \in {Missing} \cup {[k \in Keys |-> [stamp |-> 1, by |-> "old"]]}
  /\ doc = [d \in Devices |-> Empty]
  /\ queued = [d \in Devices |-> FALSE] /\ parked = [d \in Devices |-> FALSE]
  /\ push = [d \in Devices |-> NoPush] /\ pull = [d \in Devices |-> NoPull]
  /\ due = [d \in Devices |-> TRUE]
  /\ edits = 0 /\ faults = 0

Fault == faults < MaxFaults /\ faults' = faults + 1

(***************************************************************************)
(* Documents.                                                              *)
(***************************************************************************)
\* Mutant: of two entries with one stamp the local one stays.
MergeLocal(l, r) == [k \in Keys |-> IF r[k].stamp > l[k].stamp THEN r[k] ELSE l[k]]

\* mergeSettingsDocuments: the later stamp wins, and the remote entry a tie.
Merge(l, r) == [k \in Keys |-> IF r[k] # None /\ r[k].stamp >= l[k].stamp
                               THEN r[k] ELSE l[k]]

LocalNewer(l, r) == \E k \in Keys : l[k].stamp > r[k].stamp

MergeFile(l, file) == IF file = Missing THEN l ELSE Merge(l, file)

\* The legacy document is merged first, then the current one.
MergeSeen(l, seen) == MergeFile(MergeFile(l, seen.legacy), seen.current)

(***************************************************************************)
(* The outbox row.                                                         *)
(***************************************************************************)
\* Mutant: an edit joins the push that is running.
EnsureJoins(d) == queued' = [queued EXCEPT ![d] = @ \/ push[d].pc = "idle"]

\* ensureSinglePushInTx: one row that no attempt has begun yet.
Ensure(d) == queued' = [queued EXCEPT ![d] = TRUE]

\* SETTINGS_APPLY_PATCH.  The clocks of the devices need not agree.
Edit(d) ==
  /\ edits < MaxEdits /\ edits' = edits + 1
  /\ \E k \in Keys, now \in 1..MaxStamp :
       LET stamp == IF now > doc[d][k].stamp THEN now ELSE doc[d][k].stamp + 1 IN
       /\ stamp <= MaxStamp
       /\ doc' = [doc EXCEPT ![d][k] = [stamp |-> stamp, by |-> d]]
  /\ Ensure(d)
  /\ UNCHANGED <<serverVars, parked, push, pull, due, faults>>

\* The settings lane: one push at a time.
Begin(d) ==
  /\ queued[d] /\ push[d].pc = "idle"
  /\ queued' = [queued EXCEPT ![d] = FALSE]
  /\ push' = [push EXCEPT ![d] = Reading(0)]
  /\ UNCHANGED <<serverVars, doc, parked, pull, due, edits, faults>>

\* The pushes as p has them, and d's over.
Done(p, d) == push' = [p EXCEPT ![d] = NoPush]

\* The attempt failed: the row waits for another one or, when it has none left,
\* is in conflict.
Failed(p, d) ==
  /\ Done(p, d)
  /\ \/ Ensure(d) /\ UNCHANGED parked
     \/ parked' = [parked EXCEPT ![d] = TRUE] /\ UNCHANGED queued

\* retryFileNodeWrite: a conflict is met by reading again, twice at most.
Again(p, d) ==
  IF p[d].tries < 2
  THEN /\ push' = [p EXCEPT ![d] = Reading(p[d].tries + 1)]
       /\ UNCHANGED <<queued, parked>>
  ELSE Failed(p, d)

(***************************************************************************)
(* Pushes.                                                                 *)
(***************************************************************************)
\* readSettingsLocations: both places, in one server state.
Read(d) ==
  /\ push[d].pc = "read"
  /\ push' = [push EXCEPT ![d] = [@ EXCEPT !.pc = "merge", !.fresh = TRUE,
                !.seen = [current |-> current, legacy |-> legacy]]]
  /\ UNCHANGED <<serverVars, dbVars, pull, due, edits, faults>>

\* SETTINGS_MERGE_REMOTE; a document that is nowhere and empty is not written.
MergeRead(d) ==
  LET merged == MergeSeen(doc[d], push[d].seen) IN
  /\ push[d].pc = "merge"
  /\ doc' = [doc EXCEPT ![d] = merged]
  /\ IF push[d].seen = Blind /\ merged = Empty
     THEN Done(push, d)
     ELSE push' = [push EXCEPT ![d] = [@ EXCEPT !.pc = "write", !.doc = merged]]
  /\ UNCHANGED <<serverVars, queued, parked, pull, due, edits, faults>>

\* Mutant: the write carries no condition.
FreshAlways(d) == TRUE

\* ifInState: no file was changed since the read.
Fresh(d) == push[d].fresh

\* The server serves a FileNode/set, and tells every device.
Set(d, cur, leg) ==
  /\ current' = cur /\ legacy' = leg
  /\ due' = [e \in Devices |-> TRUE]

\* What others have read is not the newest any more.
Outdate(p) == [e \in Devices |-> [p[e] EXCEPT !.fresh = FALSE]]

\* A file only at the old place is moved, and everything read again; otherwise
\* the merged document is written, and a file at the old place removed with it.
Migrates(d) == push[d].seen.legacy # Missing /\ push[d].seen.current = Missing

\* The server's part of the write.
Serve(d) ==
  IF Migrates(d) THEN Set(d, legacy, Missing) ELSE Set(d, push[d].doc, Missing)

Write(d) ==
  /\ push[d].pc = "write"
  /\ IF ~Fresh(d)
     THEN Again(push, d) /\ UNCHANGED <<serverVars, due>>
     ELSE /\ Serve(d)
          /\ IF Migrates(d) THEN Again(Outdate(push), d)
             ELSE Done(Outdate(push), d) /\ UNCHANGED <<queued, parked>>
  /\ UNCHANGED <<doc, pull, edits, faults>>

\* A call fails, or the write was served and its answer is lost.
CallFails(d) ==
  /\ push[d].pc \in {"read", "write"} /\ Fault
  /\ \/ Failed(push, d) /\ UNCHANGED <<serverVars, due>>
     \/ push[d].pc = "write" /\ Fresh(d) /\ Serve(d) /\ Failed(Outdate(push), d)
  /\ UNCHANGED <<doc, pull, edits>>

(***************************************************************************)
(* Pulls.                                                                  *)
(***************************************************************************)
PullRead(d) ==
  /\ due[d] /\ pull[d].pc = "idle"
  /\ due' = [due EXCEPT ![d] = FALSE]
  /\ pull' = [pull EXCEPT ![d] = [pc |-> "merge",
                seen |-> [current |-> current, legacy |-> legacy]]]
  /\ UNCHANGED <<serverVars, dbVars, push, edits, faults>>

\* Mutant: only what is newer here is repaired, not where the file is.
RepairNewer(d, merged, seen) == seen.current # Missing /\ LocalNewer(merged, seen.current)

\* Whether a push has something to repair.
Repair(d, merged, seen) ==
  \/ seen.current = Missing \/ seen.legacy # Missing
  \/ LocalNewer(merged, seen.current)

\* syncSettingsFromServer behind its read.  An empty document is not pushed.
PullMerge(d) ==
  LET merged == MergeSeen(doc[d], pull[d].seen) IN
  /\ pull[d].pc = "merge"
  /\ doc' = [doc EXCEPT ![d] = merged]
  /\ IF Repair(d, merged, pull[d].seen) /\ merged # Empty
     THEN Ensure(d) ELSE UNCHANGED queued
  /\ pull' = [pull EXCEPT ![d] = NoPull]
  /\ UNCHANGED <<serverVars, parked, push, due, edits, faults>>

\* A pull that fails is retried with its StateChange.
PullFails(d) ==
  /\ due[d] /\ pull[d].pc = "idle" /\ Fault
  /\ UNCHANGED <<serverVars, dbVars, push, pull, due, edits>>

\* The worker of a device dies; the next one recovers the row and pulls.
WorkerDies(d) ==
  /\ Fault
  /\ queued' = [queued EXCEPT ![d] = @ \/ push[d].pc # "idle"]
  /\ push' = [push EXCEPT ![d] = NoPush] /\ pull' = [pull EXCEPT ![d] = NoPull]
  /\ due' = [due EXCEPT ![d] = TRUE]
  /\ UNCHANGED <<serverVars, doc, parked, edits>>

PushStep(d) == Begin(d) \/ Read(d) \/ MergeRead(d) \/ Write(d)
PullStep(d) == PullRead(d) \/ PullMerge(d)

Next == \E d \in Devices :
  PushStep(d) \/ PullStep(d) \/ Edit(d) \/ CallFails(d) \/ PullFails(d) \/ WorkerDies(d)

Spec == Init /\ [][Next]_vars

\* Queued rows are run, awaited calls return, and a device hears of changes.
FairSpec ==
  Spec /\ \A d \in Devices : WF_vars(PushStep(d)) /\ WF_vars(PullStep(d))

(***************************************************************************)
(* Properties.                                                             *)
(***************************************************************************)
Stamp(file, k) == IF file = Missing THEN 0 ELSE file[k].stamp
Held(k) == IF Stamp(current, k) >= Stamp(legacy, k) THEN Stamp(current, k)
                                                     ELSE Stamp(legacy, k)

\* A push that will still write what a device has for a key.
Carried(d, k) ==
  \/ queued[d] \/ push[d].pc \in {"read", "merge"}
  \/ push[d].pc = "write" /\ push[d].doc[k].stamp >= doc[d][k].stamp

\* An edit is on the server, or beaten there, or a push will still carry it, or
\* a row in conflict shows that none will; also if it was made during a push.
NoEditLost ==
  \A d \in Devices, k \in Keys :
    doc[d][k].stamp > Held(k) => Carried(d, k) \/ parked[d]

\* No push takes back what the server held: neither the edit of another device
\* that came between its read and its write, nor the file that is migrated.
NothingTakenBack == [][\A k \in Keys : Held(k)' >= Held(k)]_vars

\* Once the edits end all devices come to have one document, the server's, unless
\* a row is in conflict.
Converge ==
  <>[](\/ \E d \in Devices : parked[d]
       \/ \A d \in Devices : doc[d] = IF current = Missing THEN Empty ELSE current)
=============================================================================
