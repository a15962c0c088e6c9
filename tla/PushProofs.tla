----------------------------- MODULE PushProofs -----------------------------
(***************************************************************************)
(* Proofs about PushChannel, for any types, any order of their syncs and   *)
(* any number of changes and faults.                                       *)
(*                                                                         *)
(* A frame that names a type is a debt.  It is carried by the bucket, then *)
(* by the pass, then perhaps by the retries, and dropped only when a read  *)
(* has been written that began after the frame.  A frame that comes during *)
(* the read finds the type in the pass and puts it into the bucket once    *)
(* more (ReadBehind); without that the end of the read would pay for what  *)
(* it has not seen.                                                        *)
(***************************************************************************)
EXTENDS PushChannel, TLAPS

(***************************************************************************)
(* The invariant.                                                          *)
(***************************************************************************)
\* Before the start nothing runs and nothing has been heard.
NewIsQuiet ==
  phase = "new" =>
    /\ link = "none" /\ ~timer /\ ~retry.timer /\ pass.pc = "idle"
    /\ \A r \in Runs : run[r].pc = "idle"
    /\ \A r \in Readers : reading[r] = NoRead
    /\ \A t \in Types : heard[t] = 0

\* Nobody is ahead of the server.
Behindhand ==
  /\ \A t \in Types : synced[t] <= Len(log) /\ heard[t] <= Len(log)
  /\ \A r \in Readers : reading[r].seen <= Len(log)

\* The reads of a locked type exclude each other and are not older than what is
\* stored.
LockHeld ==
  \A t \in Locked, r \in Readers : reading[r].type = t =>
    /\ reading[r].seen >= synced[t]
    /\ \A q \in Readers : reading[q].type = t => q = r

\* The pass reads what it still has to do, and has nothing to do between frames.
PassReads ==
  /\ reading["pass"] # NoRead => pass.pc = "syncing" /\ reading["pass"].type \in pass.todo
  /\ pass.pc # "syncing" => pass.todo = {} /\ pass.failed = {}

\* A frame that came behind the pass's read is in the bucket.
ReadBehind ==
  \A t \in Locked :
    reading["pass"].type = t /\ heard[t] > reading["pass"].seen => t \in pending.types

Inv ==
  /\ TypeOK /\ NewIsQuiet /\ StopLeavesNothing
  /\ Behindhand /\ LockHeld /\ PassReads /\ ReadBehind /\ NothingForgotten

(***************************************************************************)
(* Types.                                                                  *)
(***************************************************************************)
RunSet == [pc : {"idle", "starting", "opening", "reading"}, todo : SUBSET Types]
RetrySet == [frame : Frames, timer : BOOLEAN]
PassSet == [pc : {"idle", "taking", "syncing"}, todo : SUBSET Types,
            failed : SUBSET Types, frame : Frames]
ReadSet == {NoRead} \cup [type : Types, seen : 0..MaxChanges]
Places == 0..MaxChanges

ServerType == log \in Seq(Types) /\ Len(log) <= MaxChanges /\ told \in Places
DbType == synced \in [Types -> Places] /\ stored \in Places
LinkType ==
  /\ phase \in {"new", "started", "stopped"}
  /\ listening \in BOOLEAN /\ (listening => phase = "started")
  /\ link \in {"none", "connecting", "open"}
  /\ offer \in Places /\ lastPush \in Places /\ timer \in BOOLEAN
RunType == run \in [Runs -> RunSet]
FrameType == pending \in Frames /\ retry \in RetrySet /\ pass \in PassSet
ReadType == reading \in [Readers -> ReadSet]
GhostType == heard \in [Types -> Places] /\ missed \subseteq Types /\ onHttp \in BOOLEAN
FaultType == faults \in 0..MaxFaults

\* TypeOK is the conjunction of its parts.
LEMMA TypeParts ==
  TypeOK <=> /\ ServerType /\ DbType /\ LinkType /\ RunType
             /\ FrameType /\ ReadType /\ GhostType /\ FaultType
BY DEF TypeOK, ServerType, DbType, LinkType, RunType, FrameType, ReadType, GhostType,
   FaultType, RunSet, RetrySet, PassSet, ReadSet, Places

\* The same of the next state.
LEMMA TypePartsNext ==
  TypeOK' <=> /\ ServerType' /\ DbType' /\ LinkType' /\ RunType'
              /\ FrameType' /\ ReadType' /\ GhostType' /\ FaultType'
BY DEF TypeOK, ServerType, DbType, LinkType, RunType, FrameType, ReadType, GhostType,
   FaultType, RunSet, RetrySet, PassSet, ReadSet, Places

\* The idle values.
LEMMA Constants ==
  /\ 0 \in Places /\ NoFrame \in Frames /\ Idle \in RunSet /\ NoRetry \in RetrySet
  /\ NoPass \in PassSet /\ NoRead \in ReadSet
  /\ \A t \in Types : t # "none"
BY PushAssumption DEF Places, NoFrame, Frames, Idle, RunSet, NoRetry, RetrySet, NoPass,
   PassSet, NoRead, ReadSet

\* Merged frames name what either names.
LEMMA MergeRight ==
  ASSUME NEW f \in Frames, NEW g \in Frames
  PROVE  Merge(f, g) \in Frames /\ Merge(f, g).types = f.types \cup g.types
BY DEF Merge, Frames

\* A run is idle, opens, or reads.
LEMMA RunsTyped ==
  \A r \in Runs : Reading(r) \in RunSet /\ [pc |-> "opening", todo |-> {}] \in RunSet
BY PushAssumption DEF Reading, Behind, RunSet

\* An open leaves the socket and the runs well typed.
LEMMA OpenTyped ==
  ASSUME TypeOK, NEW r \in Runs, NEW push \in Places, Open(r, push)
  PROVE  /\ RunType' /\ offer' \in Places /\ link' \in {"none", "connecting", "open"}
         /\ link' \in {"connecting", "open"} /\ (link' = "open" => link = "open")
BY TypeParts, RunsTyped DEF Open, RunType, LinkType

\* So does a trigger of the pass.
LEMMA TriggerTyped ==
  ASSUME TypeOK, NEW f \in Frames, OnStateChange(f)
  PROVE  /\ FrameType' /\ retry' = NoRetry
         /\ pending'.types = pending.types \cup retry.frame.types \cup f.types
         /\ pass'.pc # "idle" /\ pass'.todo = pass.todo /\ pass'.failed = pass.failed
         /\ pass.pc # "idle" => pass' = pass
<1>1. pending \in Frames /\ retry.frame \in Frames /\ pass \in PassSet
  BY TypeParts DEF FrameType, RetrySet
<1>2. Merge(retry.frame, f) \in Frames
  BY <1>1, MergeRight
<1>3. Merge(pending, Merge(retry.frame, f)) \in Frames
  BY <1>1, <1>2, MergeRight
<1>4. pending'.types = pending.types \cup retry.frame.types \cup f.types
  BY <1>1, <1>2, MergeRight DEF OnStateChange
<1>5. /\ pass' \in PassSet /\ pass'.pc # "idle" /\ pass'.todo = pass.todo
      /\ pass'.failed = pass.failed /\ pass.pc # "idle" => pass' = pass
  BY <1>1 DEF OnStateChange, PassSet
<1> QED
  BY <1>3, <1>4, <1>5, Constants DEF OnStateChange, FrameType

\* What a read begins with, and what its end leaves.
LEMMA ReadTyped ==
  ASSUME TypeOK, NEW r \in Readers
  PROVE  /\ \A todo \in SUBSET Types : BeginRead(r, todo) => ReadType'
         /\ EndRead(r) => ReadType'
         /\ Len(log) \in Places
<1>1. Len(log) \in Places
  BY TypeParts, PushAssumption DEF ServerType, Places
<1> QED
  BY <1>1, TypeParts, Constants DEF BeginRead, EndRead, ReadType, ReadSet, Places

\* What a read stores.
LEMMA StoreTyped ==
  ASSUME TypeOK, NEW r \in Readers, Store(r) PROVE synced' \in [Types -> Places]
<1>1. reading[r].seen \in Places
  BY TypeParts, Constants DEF ReadType, ReadSet, Places, NoRead
<1> QED
  BY <1>1, TypeParts DEF Store, DbType

\* A fault is counted within its bound.
LEMMA FaultTyped == TypeOK /\ Fault => FaultType'
BY TypeParts, PushAssumption DEF FaultType, Fault

\* A read that fails.
LEMMA FailTyped ==
  ASSUME TypeOK, NEW r \in Readers, ReadFails(r)
  PROVE  ReadType' /\ FaultType' /\ reading[r].type \in Types
BY ReadTyped, FaultTyped, TypeParts DEF ReadFails, FaultType, ReadType, ReadSet

\* What a frame names are types.
LEMMA NamedTyped ==
  ASSUME TypeOK, NEW k \in (told + 1)..Len(log)
  PROVE  Named(told + 1, k) \subseteq Types /\ k \in Places
BY TypeParts, PushAssumption DEF Named, ServerType, Places

\* The first state is well typed.
LEMMA TypeInit == Init => TypeOK
<1> SUFFICES ASSUME Init PROVE TypeOK
  OBVIOUS
<1>1. DbType /\ LinkType /\ GhostType
  BY Constants DEF Init, DbType, LinkType, GhostType
<1>5. FaultType
  BY PushAssumption DEF Init, FaultType
<1>4. ServerType
  BY Constants, PushAssumption DEF Init, ServerType
<1>2. RunType /\ ReadType
  BY Constants DEF Init, RunType, ReadType
<1>3. FrameType
  BY Constants DEF Init, FrameType, NoRetry
<1> QED
  BY <1>1, <1>2, <1>3, <1>4, <1>5, TypeParts

\* Every step keeps the types.
LEMMA TypeNext == TypeOK /\ [Next]_vars => TypeOK'
<1> SUFFICES ASSUME TypeOK, [Next]_vars PROVE TypeOK'
  OBVIOUS
<1> USE TypeParts, TypePartsNext
<1>1. CASE Start
  <2>1. [pc |-> "starting", todo |-> AtStart] \in RunSet
    BY PushAssumption DEF RunSet
  <2>2. RunType'
    BY <1>1, <2>1 DEF Start, RunType
  <2> QED
    BY <1>1, <2>2 DEF Start, serverVars, dbVars, frameVars, ghostVars, ServerType, DbType,
       LinkType, FrameType, ReadType, GhostType, FaultType
<1>21. CASE BootOpens
  <2>1. RunType' /\ offer' \in Places /\ link' \in {"none", "connecting", "open"}
    <3>1. stored \in Places /\ "boot" \in Runs
      BY DEF DbType, Runs
    <3>2. CASE started
      BY <1>21, <3>1, <3>2, OpenTyped DEF BootOpens
    <3>3. CASE ~started
      BY <1>21, <3>3, Constants DEF BootOpens, RunType, LinkType
    <3> QED
      BY <3>2, <3>3
  <2> QED
    BY <1>21, <2>1 DEF BootOpens, serverVars, dbVars, frameVars, ghostVars, ServerType,
       DbType, LinkType, FrameType, ReadType, GhostType, FaultType
<1>2. CASE SocketOpens
  <2>1. RunType'
    BY <1>2, RunsTyped, Constants DEF SocketOpens, RunType
  <2>2. told' \in Places /\ lastPush' \in Places
    BY <1>2, ReadTyped DEF SocketOpens, Readers, ServerType, LinkType
  <2>3. LinkType' /\ GhostType'
    BY <1>2, <2>2 DEF SocketOpens, LinkType, GhostType, Listen, started
  <2> QED
    BY <1>2, <2>1, <2>2, <2>3 DEF SocketOpens, dbVars, frameVars, ServerType, DbType,
       FrameType, ReadType, FaultType
<1>3. CASE Reconnect
  <2>1. RunType' /\ offer' \in Places /\ link' \in {"none", "connecting", "open"}
    <3>1. PICK r \in Runs \ {"boot"} : Open(r, IF lastPush = 0 THEN stored ELSE lastPush)
      BY <1>3 DEF Reconnect
    <3>2. (IF lastPush = 0 THEN stored ELSE lastPush) \in Places
      BY DEF DbType, LinkType
    <3> QED
      BY <3>1, <3>2, OpenTyped
  <2> QED
    BY <1>3, <2>1 DEF Reconnect, serverVars, dbVars, frameVars, ghostVars, ServerType,
       DbType, LinkType, FrameType, ReadType, GhostType, FaultType
<1>4. CASE Take
  <2>1. FrameType'
    BY <1>4, Constants DEF Take, FrameType, PassSet, Frames
  <2> QED
    BY <1>4, <2>1 DEF Take, serverVars, dbVars, linkVars, ghostVars, ServerType, DbType,
       LinkType, RunType, ReadType, GhostType, FaultType
<1>5. CASE SyncBegin
  <2>1. ReadType'
    BY <1>5, ReadTyped DEF SyncBegin, Readers, FrameType, PassSet
  <2> QED
    BY <1>5, <2>1 DEF SyncBegin, serverVars, dbVars, linkVars, frameVars, ghostVars,
       ServerType, DbType, LinkType, RunType, FrameType, GhostType, FaultType
<1>6. CASE SyncEnd
  <2>1. ReadType' /\ DbType'
    BY <1>6, ReadTyped, StoreTyped DEF SyncEnd, Readers, DbType
  <2>2. FrameType'
    BY <1>6 DEF SyncEnd, FrameType, PassSet
  <2> QED
    BY <1>6, <2>1, <2>2 DEF SyncEnd, serverVars, linkVars, ghostVars,
       ServerType, LinkType, RunType, GhostType, FaultType
<1>7. CASE SyncFails
  <2>1. ReadType' /\ FaultType'
    BY <1>7, FailTyped DEF SyncFails, Readers
  <2>2. reading["pass"].type \in Types
    BY <1>7, FailTyped DEF SyncFails, Readers
  <2>3. FrameType'
    BY <1>7, <2>2 DEF SyncFails, FrameType, PassSet
  <2> QED
    BY <1>7, <2>1, <2>3 DEF SyncFails, serverVars, dbVars, linkVars, ghostVars,
       ServerType, DbType, LinkType, RunType, GhostType
<1>8. CASE PassEnds
  <2>1. retry.frame \in Frames /\ pass.frame \in Frames /\ pass.failed \subseteq Types
    BY DEF FrameType, RetrySet, PassSet
  <2>2. [types |-> pass.failed, push |-> pass.frame.push] \in Frames
    BY <2>1 DEF Frames
  <2>3. retry' \in RetrySet /\ stored' \in Places
    <3>1. RetryTimer \in BOOLEAN
      BY DEF RetryTimer, started, FrameType, RetrySet
    <3>2. Merge(retry.frame, [types |-> pass.failed, push |-> pass.frame.push]) \in Frames
      BY <2>1, <2>2, MergeRight
    <3>3. pass.frame.push \in Places
      BY <2>1 DEF Frames, Places
    <3> QED
      BY <1>8, <3>1, <3>2, <3>3 DEF PassEnds, FrameType, RetrySet, DbType
  <2>4. pass' \in PassSet
    BY <1>8, Constants DEF PassEnds, PassSet
  <2> QED
    BY <1>8, <2>3, <2>4 DEF PassEnds, serverVars, linkVars, ghostVars, ServerType,
       DbType, FrameType, LinkType, RunType, ReadType, GhostType, FaultType
<1>9. CASE RetryFires
  <2>1. FrameType'
    BY <1>9, Constants, TriggerTyped DEF RetryFires
  <2> QED
    BY <1>9, <2>1 DEF RetryFires, serverVars, dbVars, linkVars, ghostVars, ServerType,
       DbType, LinkType, RunType, ReadType, GhostType, FaultType
<1>10. CASE Receive
  <2>1. PICK k \in (told + 1)..Len(log) :
          /\ told' = k /\ lastPush' = k
          /\ OnStateChange([types |-> Named(told + 1, k), push |-> k])
          /\ heard' = [t \in Types |-> IF t \in Named(told + 1, k) THEN k ELSE heard[t]]
    BY <1>10 DEF Receive
  <2>2. Named(told + 1, k) \subseteq Types /\ k \in Places
    BY NamedTyped
  <2>3. [types |-> Named(told + 1, k), push |-> k] \in Frames
    BY <2>2 DEF Frames, Places
  <2>4. FrameType'
    BY <2>1, <2>3, TriggerTyped
  <2>5. heard' \in [Types -> Places]
    BY <2>1, <2>2 DEF GhostType
  <2> QED
    BY <1>10, <2>1, <2>2, <2>4, <2>5 DEF Receive, dbVars, ServerType, DbType, LinkType,
       RunType, ReadType, GhostType, FaultType
<1>11. CASE SocketFails
  <2>1. RunType'
    BY <1>11, RunsTyped, Constants DEF SocketFails, RunType
  <2>2. LinkType' /\ GhostType'
    BY <1>11 DEF SocketFails, LinkType, GhostType, Listen, started, RetryOpen, Supervise
  <2> QED
    BY <1>11, <2>1, <2>2, FaultTyped DEF SocketFails, serverVars, dbVars, frameVars,
       ServerType, DbType, FrameType, ReadType
<1>12. CASE SocketCloses \/ Renew
  <2>1. LinkType'
    <3>1. CASE SocketCloses
      BY <3>1 DEF SocketCloses, LinkType, Supervise, started
    <3>2. CASE Renew
      BY <3>2 DEF Renew, LinkType, Supervise, started
    <3> QED
      BY <1>12, <3>1, <3>2
  <2> QED
    BY <1>12, <2>1, FaultTyped DEF SocketCloses, Renew, serverVars, dbVars, frameVars,
       ghostVars, ServerType, DbType, RunType, FrameType, ReadType, GhostType
<1>13. CASE Stop
  BY <1>13, Constants DEF Stop, serverVars, dbVars, ghostVars, ServerType, DbType,
     LinkType, RunType, FrameType, ReadType, GhostType, FaultType
<1>14. CASE WorkerDies
  <2>1. RunType' /\ ReadType' /\ FrameType'
    BY <1>14, Constants DEF WorkerDies, RunType, ReadType, FrameType
  <2>2. LinkType' /\ GhostType'
    BY <1>14, Constants DEF WorkerDies, LinkType, GhostType
  <2> QED
    BY <1>14, <2>1, <2>2, FaultTyped DEF WorkerDies, serverVars, dbVars, ServerType, DbType
<1>15. ASSUME NEW r \in Runs, CatchUpBegin(r) PROVE TypeOK'
  <2>1. ReadType'
    BY <1>15, ReadTyped DEF CatchUpBegin, Readers, RunType, RunSet
  <2> QED
    BY <1>15, <2>1 DEF CatchUpBegin, serverVars, dbVars, linkVars, frameVars, ghostVars,
       ServerType, DbType, LinkType, RunType, FrameType, GhostType, FaultType
<1>16. ASSUME NEW r \in Runs, NextRead(r) PROVE RunType'
  <2> DEFINE left == run[r].todo \ {reading[r].type}
             after == [run[r] EXCEPT !.todo = left]
  <2>1. run[r] \in RunSet
    BY DEF RunType
  <2>2. after \in RunSet
    BY <2>1 DEF RunSet
  <2>3. run' = [run EXCEPT ![r] = IF left = {} /\ run[r].pc = "reading" THEN Idle ELSE after]
    BY <1>16 DEF NextRead, RunType
  <2> HIDE DEF after, left
  <2> QED
    BY <2>2, <2>3, Constants DEF RunType
<1>17. ASSUME NEW r \in Runs, CatchUpEnd(r) PROVE TypeOK'
  <2>1. ReadType' /\ DbType'
    BY <1>17, ReadTyped, StoreTyped DEF CatchUpEnd, Readers, DbType
  <2> QED
    BY <1>16, <1>17, <2>1 DEF CatchUpEnd, serverVars, linkVars, frameVars, ghostVars,
       ServerType, LinkType, FrameType, GhostType, FaultType
<1>18. ASSUME NEW r \in Runs, CatchUpFails(r) PROVE TypeOK'
  <2>1. ReadType' /\ FaultType' /\ reading[r].type \in Types
    BY <1>18, FailTyped DEF CatchUpFails, Readers
  <2>2. missed' \subseteq Types
    BY <1>18, <2>1 DEF CatchUpFails, GhostType
  <2> QED
    BY <1>16, <1>18, <2>1, <2>2 DEF CatchUpFails, serverVars, dbVars, linkVars, frameVars,
       ServerType, DbType, LinkType, FrameType, GhostType
<1>19. ASSUME NEW t \in Types, Change(t) PROVE TypeOK'
  <2>1. ServerType'
    BY <1>19, PushAssumption DEF Change, ServerType
  <2> QED
    BY <1>19, <2>1 DEF Change, dbVars, linkVars, frameVars, ghostVars, DbType, LinkType,
       RunType, FrameType, ReadType, GhostType, FaultType
<1>20. CASE UNCHANGED vars
  BY <1>20 DEF vars, serverVars, dbVars, linkVars, frameVars, ghostVars, ServerType,
     DbType, LinkType, RunType, FrameType, ReadType, GhostType, FaultType
<1> QED
  BY <1>1, <1>2, <1>3, <1>4, <1>5, <1>6, <1>7, <1>8, <1>9, <1>10, <1>11, <1>12, <1>13,
     <1>14, <1>15, <1>17, <1>18, <1>19, <1>20, <1>21
     DEF Next, LinkStep, PassStep, CatchUp

\* Every reachable state of the push channel is well typed.
THEOREM TypeCorrect == Spec => []TypeOK
<1>1. Init => TypeOK
  BY TypeInit
<1>2. TypeOK /\ [Next]_vars => TypeOK'
  BY TypeNext
<1> QED
  BY <1>1, <1>2, PTL DEF Spec

(***************************************************************************)
(* Before the start and after the stop.                                    *)
(***************************************************************************)
\* A backend that was not started does nothing but start.
LEMMA QuietNext == TypeOK /\ NewIsQuiet /\ [Next]_vars => NewIsQuiet'
<1> SUFFICES ASSUME TypeOK, NewIsQuiet, [Next]_vars, phase' = "new"
             PROVE  NewIsQuiet'
  BY DEF NewIsQuiet
<1>1. CASE WorkerDies
  BY <1>1, Constants DEF WorkerDies, NewIsQuiet, Idle, NoRetry, NoPass
<1>2. CASE ~WorkerDies
  <2>1. phase = "new"
    BY <1>2 DEF Next, LinkStep, PassStep, CatchUp, Start, BootOpens, SocketOpens, Reconnect, Take,
       SyncBegin, SyncEnd, PassEnds, RetryFires, Receive, SyncFails, SocketFails,
       SocketCloses, Renew, Stop, CatchUpBegin, CatchUpEnd, CatchUpFails, Change, vars,
       linkVars
  <2>3. ~BootOpens /\ \A r \in Runs : ~CatchUp(r) /\ ~CatchUpFails(r)
    BY <2>1 DEF NewIsQuiet, BootOpens, CatchUp, CatchUpBegin, CatchUpEnd, CatchUpFails,
       Busy, Runs
  <2>4. ~PassStep /\ ~SyncFails
    BY <2>1 DEF NewIsQuiet, PassStep, Take, SyncBegin, SyncEnd, PassEnds, RetryFires,
       SyncFails
  <2>5. /\ ~Start /\ ~SocketOpens /\ ~Reconnect /\ ~Receive /\ ~SocketFails
        /\ ~SocketCloses /\ ~Renew /\ ~Stop
    BY <1>2, <2>1 DEF NewIsQuiet, Start, SocketOpens, Reconnect, Receive, SocketFails,
       SocketCloses, Renew, Stop, started
  <2>2. UNCHANGED vars \/ \E t \in Types : Change(t)
    BY <1>2, <2>3, <2>4, <2>5 DEF Next, LinkStep
  <2> QED
    BY <2>1, <2>2 DEF NewIsQuiet, Change, vars, linkVars, frameVars, ghostVars
<1> QED
  BY <1>1, <1>2

\* A stopped backend arms no timer and keeps no socket.
LEMMA StopNext == TypeOK /\ StopLeavesNothing /\ [Next]_vars => StopLeavesNothing'
<1> SUFFICES ASSUME TypeOK, StopLeavesNothing, [Next]_vars, phase' = "stopped"
             PROVE  link' # "open" /\ ~timer' /\ ~retry'.timer
  BY DEF StopLeavesNothing
<1>1. CASE Stop
  BY <1>1 DEF Stop, NoRetry
<1>2. CASE ~Stop
  <2>1. phase = "stopped" /\ ~started /\ link # "open" /\ ~timer /\ ~retry.timer
    BY <1>2 DEF Next, LinkStep, PassStep, CatchUp, Start, BootOpens, SocketOpens, Reconnect, Take,
       SyncBegin, SyncEnd, PassEnds, RetryFires, Receive, SyncFails, SocketFails,
       SocketCloses, Renew, WorkerDies, CatchUpBegin, CatchUpEnd, CatchUpFails, Change,
       vars, linkVars, StopLeavesNothing, started
  <2>2. link' # "open"
    BY <1>2, <2>1 DEF Next, LinkStep, PassStep, CatchUp, Start, BootOpens, SocketOpens, Keep,
       Reconnect, Take, SyncBegin, SyncEnd, PassEnds, RetryFires, Receive, SyncFails,
       SocketFails, SocketCloses, Renew, WorkerDies, CatchUpBegin, CatchUpEnd,
       CatchUpFails, Change, vars, linkVars
  <2>3. ~timer'
    BY <1>2, <2>1 DEF Next, LinkStep, PassStep, CatchUp, Start, BootOpens, SocketOpens, Reconnect,
       Take, SyncBegin, SyncEnd, PassEnds, RetryFires, Receive, SyncFails, SocketFails,
       RetryOpen, Supervise, SocketCloses, Renew, WorkerDies, CatchUpBegin, CatchUpEnd,
       CatchUpFails, Change, vars, linkVars
  <2>4. ~retry'.timer
    <3>1. CASE PassEnds
      <4>1. retry' = retry \/ retry'.timer = RetryTimer
        BY <3>1 DEF PassEnds
      <4> QED
        BY <2>1, <4>1 DEF RetryTimer
    <3>2. CASE ~PassEnds
      <4>1. UNCHANGED retry \/ retry' = NoRetry
        BY <1>2, <3>2 DEF Next, LinkStep, PassStep, CatchUp, Start, BootOpens, SocketOpens,
           Reconnect, Take, SyncBegin, SyncEnd, RetryFires, Receive, OnStateChange,
           SyncFails, SocketFails, SocketCloses, Renew, WorkerDies, CatchUpBegin,
           CatchUpEnd, CatchUpFails, Change, vars, frameVars
      <4> QED
        BY <2>1, <4>1 DEF NoRetry
    <3> QED
      BY <3>1, <3>2
  <2> QED
    BY <2>2, <2>3, <2>4
<1> QED
  BY <1>1, <1>2

(***************************************************************************)
(* Reads and debts.                                                        *)
(***************************************************************************)
Debts == Behindhand /\ LockHeld /\ PassReads /\ ReadBehind /\ NothingForgotten

\* Steps that touch neither what is stored nor what is owed.
LEMMA DebtsStay ==
  ASSUME TypeOK, Debts, Len(log') >= Len(log), Len(log') \in Nat,
         UNCHANGED <<synced, heard, reading, pending, pass>>,
         retry' = retry \/ phase' # "started",
         phase' = "started" => phase = "started"
  PROVE  Debts'
<1>1. Len(log) \in Nat
  BY ReadTyped DEF Readers, Places
<1>2. Behindhand'
  <2>1. \A t \in Types : synced[t] \in Nat /\ heard[t] \in Nat
    BY TypeParts, PushAssumption DEF DbType, GhostType, Places
  <2>2. \A r \in Readers : reading[r].seen \in Nat
    BY TypeParts, PushAssumption DEF ReadType, ReadSet, NoRead
  <2> QED
    BY <1>1, <2>1, <2>2 DEF Debts, Behindhand
<1>3. LockHeld' /\ PassReads' /\ ReadBehind'
  BY DEF Debts, LockHeld, PassReads, ReadBehind
<1>4. NothingForgotten'
  BY DEF Debts, NothingForgotten, Owed, started
<1> QED
  BY <1>2, <1>3, <1>4 DEF Debts

\* A read begins, of the state the server is in.
LEMMA DebtsBegin ==
  ASSUME TypeOK, Debts, NEW r \in Readers, NEW todo \in SUBSET Types,
         BeginRead(r, todo), r = "pass" => pass.pc = "syncing" /\ todo = pass.todo,
         UNCHANGED <<log, synced, heard, frameVars, phase>>
  PROVE  Debts'
<1>1. PICK t \in todo :
        Free(t) /\ reading' = [reading EXCEPT ![r] = [type |-> t, seen |-> Len(log)]]
  BY DEF BeginRead
<1>2. /\ Len(log) \in Nat /\ reading[r] = NoRead
      /\ reading'[r] = [type |-> t, seen |-> Len(log)]
      /\ \A q \in Readers : q # r => reading'[q] = reading[q]
  BY <1>1, ReadTyped, TypeParts DEF BeginRead, ReadType, Places
<1>3. Behindhand'
  BY <1>2 DEF Debts, Behindhand
<1>4. LockHeld'
  BY <1>1, <1>2, PushAssumption DEF Debts, LockHeld, Behindhand, Free
<1>5. PassReads'
  BY <1>1, <1>2 DEF Debts, PassReads, frameVars
<1>6. ReadBehind'
  <2> SUFFICES ASSUME NEW u \in Locked, reading'["pass"].type = u,
                      heard[u] > reading'["pass"].seen
               PROVE  u \in pending.types
    BY DEF ReadBehind, frameVars
  <2>1. r # "pass"
    <3>1. heard[u] \in Nat /\ heard[u] <= Len(log)
      BY PushAssumption, TypeParts DEF Debts, Behindhand, GhostType, Places
    <3> QED
      BY <1>2, <3>1
  <2> QED
    BY <1>2, <2>1 DEF Debts, ReadBehind, Readers
<1>7. NothingForgotten'
  BY DEF Debts, NothingForgotten, Owed, started, frameVars
<1> QED
  BY <1>3, <1>4, <1>5, <1>6, <1>7 DEF Debts

\* A read ends without a trace, and its type is still owed if it was.
LEMMA DebtsFail ==
  ASSUME TypeOK, Debts, NEW r \in Readers, reading[r] # NoRead, EndRead(r),
         r = "pass" => /\ pass'.todo = pass.todo \ {reading["pass"].type}
                       /\ pass'.failed = pass.failed \cup {reading["pass"].type}
                       /\ pass'.pc = pass.pc,
         r # "pass" => pass' = pass,
         UNCHANGED <<log, synced, heard, pending, retry, phase>>
  PROVE  Debts'
<1>1. /\ reading'[r] = NoRead
      /\ \A q \in Readers : q # r => reading'[q] = reading[q]
  BY TypeParts DEF EndRead, ReadType
<1>2. Behindhand'
  BY <1>1, ReadTyped DEF Debts, Behindhand, NoRead, Places
<1>3. LockHeld'
  BY <1>1, PushAssumption DEF Debts, LockHeld, NoRead
<1>4. PassReads' /\ ReadBehind'
  BY <1>1, PushAssumption DEF Debts, PassReads, ReadBehind, NoRead, Readers
<1>5. NothingForgotten'
  BY DEF Debts, NothingForgotten, Owed, started
<1> QED
  BY <1>2, <1>3, <1>4, <1>5 DEF Debts

\* A read is stored: what was heard before it began is paid, and what came since
\* is in the bucket.
LEMMA DebtsPaid ==
  ASSUME TypeOK, Debts, NEW r \in Readers, reading[r] # NoRead, Store(r), EndRead(r),
         r = "pass" => /\ pass'.todo = pass.todo \ {reading["pass"].type}
                       /\ pass'.failed = pass.failed /\ pass'.pc = pass.pc,
         r # "pass" => pass' = pass,
         UNCHANGED <<log, heard, pending, retry, phase>>
  PROVE  Debts' /\ \A t \in Locked : synced'[t] >= synced[t]
<1> DEFINE type == reading[r].type
           seen == reading[r].seen
<1>1. /\ reading'[r] = NoRead
      /\ \A q \in Readers : q # r => reading'[q] = reading[q]
  BY TypeParts DEF EndRead, ReadType
<1>2. /\ type \in Types /\ seen \in Nat /\ Len(log) \in Nat
      /\ synced'[type] = seen
      /\ \A t \in Types : synced[t] \in Nat /\ heard[t] \in Nat
      /\ \A t \in Types : t # type => synced'[t] = synced[t]
  BY TypeParts, PushAssumption, ReadTyped
     DEF Store, DbType, GhostType, ReadType, ReadSet, Places
<1>3. Behindhand'
  BY <1>1, <1>2 DEF Debts, Behindhand, NoRead
<1>4. type \in Locked => seen >= synced[type]
  BY DEF Debts, LockHeld
<1>5. LockHeld'
  <2> SUFFICES ASSUME NEW t \in Locked, NEW p \in Readers, reading'[p].type = t
               PROVE  /\ reading'[p].seen >= synced'[t]
                      /\ \A q \in Readers : reading'[q].type = t => q = p
    BY DEF LockHeld
  <2>1. t # "none" /\ t \in Types
    BY PushAssumption
  <2>2. p # r /\ reading[p].type = t /\ reading'[p] = reading[p]
    BY <1>1, <2>1 DEF NoRead
  <2>3. /\ reading[p].seen >= synced[t]
        /\ \A q \in Readers : reading[q].type = t => q = p
    BY <2>2 DEF Debts, LockHeld
  <2>4. t # type
    BY <2>2, <2>3
  <2>5. \A q \in Readers : reading'[q].type = t => q = p
    BY <1>1, <2>1, <2>3 DEF NoRead
  <2> HIDE DEF type, seen
  <2> QED
    BY <1>2, <2>1, <2>2, <2>3, <2>4, <2>5
<1>6. PassReads' /\ ReadBehind'
  BY <1>1, PushAssumption DEF Debts, PassReads, ReadBehind, NoRead, Readers
<1>7. \A t \in Locked : synced'[t] >= synced[t]
  BY <1>2, <1>4, PushAssumption
<1>8. NothingForgotten'
  <2> SUFFICES ASSUME started, NEW t \in Locked, heard[t] > synced'[t]
               PROVE  Owed(t)'
    BY DEF NothingForgotten, started
  <2>1. heard[t] > synced[t] /\ Owed(t)
    BY <1>2, <1>7, PushAssumption DEF Debts, NothingForgotten
  <2>2. CASE r = "pass" /\ t = type
    <3>1. t \in pending.types /\ pass.pc = "syncing"
      BY <1>2, <2>2 DEF Debts, ReadBehind, PassReads
    <3> QED
      BY <2>2, <3>1 DEF Owed
  <2>3. CASE ~(r = "pass" /\ t = type)
    BY <2>1, <2>3 DEF Owed
  <2> QED
    BY <2>2, <2>3
<1> QED
  BY <1>3, <1>5, <1>6, <1>7, <1>8 DEF Debts

\* The debts do not depend on who carries them: bucket, pass and retries.
LEMMA DebtsPass ==
  ASSUME TypeOK, Debts, UNCHANGED <<log, synced, reading, phase>>,
         reading["pass"] = NoRead \/ pass' = pass,
         pass'.pc # "syncing" => pass'.todo = {} /\ pass'.failed = {},
         reading["pass"] # NoRead => pending.types \subseteq pending'.types,
         \A t \in Types : heard'[t] \in Nat /\ heard'[t] <= Len(log),
         \A t \in Types : heard'[t] = heard[t] \/ (t \in pending'.types /\ pass'.pc # "idle"),
         started => \A t \in Types : Owed(t) => Owed(t)'
  PROVE  Debts'
<1>1. Behindhand' /\ LockHeld'
  BY DEF Debts, Behindhand, LockHeld
<1>2. PassReads'
  BY DEF Debts, PassReads
<1>3. ReadBehind'
  <2> SUFFICES ASSUME NEW t \in Locked, reading["pass"].type = t,
                      heard'[t] > reading["pass"].seen
               PROVE  t \in pending'.types
    BY DEF ReadBehind
  <2>1. reading["pass"] # NoRead
    BY PushAssumption DEF NoRead
  <2> QED
    BY <2>1, PushAssumption DEF Debts, ReadBehind
<1>4. NothingForgotten'
  BY PushAssumption DEF Debts, NothingForgotten, Owed, started
<1> QED
  BY <1>1, <1>2, <1>3, <1>4 DEF Debts

\* Every step keeps the debts, and no step goes back.
LEMMA DebtsNext ==
  ASSUME TypeOK, NewIsQuiet, Debts, [Next]_vars
  PROVE  Debts' /\ \A t \in Locked : synced'[t] >= synced[t]
<1> USE DEF dbVars, frameVars, ghostVars, linkVars
<1>1. \A t \in Locked : synced[t] \in Nat /\ synced[t] >= synced[t]
  BY TypeParts, PushAssumption DEF DbType, Places
<1>2. Len(log) \in Nat /\ Len(log) >= Len(log)
  BY ReadTyped DEF Readers, Places
<1>3. CASE Start
  <2>1. /\ \A t \in Types : heard'[t] = 0
        /\ UNCHANGED <<reading, heard, synced, pending, pass, log>>
    BY <1>3 DEF Start, NewIsQuiet, serverVars
  <2>2. Behindhand' /\ LockHeld' /\ PassReads' /\ ReadBehind'
    BY <2>1 DEF Debts, Behindhand, LockHeld, PassReads, ReadBehind
  <2>3. NothingForgotten'
    BY <1>1, <2>1, PushAssumption DEF NothingForgotten
  <2> QED
    BY <1>1, <2>1, <2>2, <2>3 DEF Debts
<1>4. CASE BootOpens \/ SocketOpens \/ Reconnect \/ SocketFails \/ SocketCloses \/ Renew \/ UNCHANGED vars
  BY <1>1, <1>2, <1>4, DebtsStay DEF BootOpens, SocketOpens, Reconnect, SocketFails, SocketCloses,
     Renew, vars, serverVars
<1>5. CASE Stop
  BY <1>1, <1>2, <1>5, DebtsStay DEF Stop, serverVars
<1>6. ASSUME NEW t \in Types, Change(t)
      PROVE  Debts' /\ \A u \in Locked : synced'[u] >= synced[u]
  <2>1. Len(log') = Len(log) + 1
    BY <1>6, TypeParts DEF Change, ServerType
  <2> QED
    BY <1>1, <1>2, <1>6, <2>1, DebtsStay DEF Change
<1>7. CASE SyncBegin
  <2>1. pass.todo \in SUBSET Types
    BY TypeParts DEF FrameType, PassSet
  <2> QED
    BY <1>1, <1>7, <2>1, DebtsBegin DEF SyncBegin, serverVars, Readers
<1>8. ASSUME NEW r \in Runs, CatchUpBegin(r)
      PROVE  Debts' /\ \A t \in Locked : synced'[t] >= synced[t]
  <2>1. run[r].todo \in SUBSET Types /\ r # "pass"
    BY TypeParts DEF RunType, RunSet, Runs
  <2> QED
    BY <1>1, <1>8, <2>1, DebtsBegin DEF CatchUpBegin, serverVars, Readers
<1>9. CASE SyncEnd
  <2>1. pass \in PassSet
    BY TypeParts DEF FrameType
  <2>2. /\ pass'.todo = pass.todo \ {reading["pass"].type}
        /\ pass'.failed = pass.failed /\ pass'.pc = pass.pc
    BY <1>9, <2>1 DEF SyncEnd, PassSet
  <2> QED
    BY <1>9, <2>2, DebtsPaid DEF SyncEnd, serverVars, Readers
<1>10. ASSUME NEW r \in Runs, CatchUpEnd(r)
       PROVE  Debts' /\ \A t \in Locked : synced'[t] >= synced[t]
  BY <1>10, DebtsPaid DEF CatchUpEnd, serverVars, Readers, Runs
<1>11. CASE SyncFails
  <2>1. pass \in PassSet
    BY TypeParts DEF FrameType
  <2>2. /\ pass'.todo = pass.todo \ {reading["pass"].type}
        /\ pass'.failed = pass.failed \cup {reading["pass"].type} /\ pass'.pc = pass.pc
    BY <1>11, <2>1 DEF SyncFails, PassSet
  <2> QED
    BY <1>1, <1>11, <2>2, DebtsFail DEF SyncFails, ReadFails, serverVars, Readers
<1>12. ASSUME NEW r \in Runs, CatchUpFails(r)
       PROVE  Debts' /\ \A t \in Locked : synced'[t] >= synced[t]
  BY <1>1, <1>12, DebtsFail DEF CatchUpFails, ReadFails, serverVars, Readers, Runs
<1>13. \A t \in Types : heard[t] \in Nat /\ heard[t] <= Len(log)
  BY TypeParts, PushAssumption DEF Debts, Behindhand, GhostType, Places
<1>14. CASE Take
  <2>1. reading["pass"] = NoRead
    BY <1>14 DEF Take, Debts, PassReads
  <2>2. \A t \in Types : Owed(t) => Owed(t)'
    <3>1. CASE pending = NoFrame
      <4>1. pass.todo = {} /\ pass.failed = {} /\ pending.types = {}
        BY <1>14, <3>1 DEF Take, Debts, PassReads, NoFrame
      <4>2. retry' = retry
        BY <1>14 DEF Take
      <4> QED
        BY <4>1, <4>2 DEF Owed
    <3>2. CASE pending # NoFrame
      <4>1. pass.todo = {} /\ pass.failed = {}
        BY <1>14 DEF Take, Debts, PassReads
      <4>2. pass'.todo = pending.types /\ retry' = retry
        BY <1>14, <3>2 DEF Take
      <4> QED
        BY <4>1, <4>2 DEF Owed
    <3> QED
      BY <3>1, <3>2
  <2>3. pass'.pc # "syncing" => pass'.todo = {} /\ pass'.failed = {}
    BY <1>14 DEF Take, NoPass
  <2>4. UNCHANGED <<log, synced, reading, phase>>
    BY <1>14 DEF Take, serverVars
  <2>5. \A t \in Types : heard'[t] \in Nat /\ heard'[t] <= Len(log) /\ heard'[t] = heard[t]
    BY <1>13, <1>14 DEF Take
  <2>6. reading["pass"] # NoRead => pending.types \subseteq pending'.types
    BY <2>1
  <2>7. \A t \in Types : heard'[t] = heard[t] \/ (t \in pending'.types /\ pass'.pc # "idle")
    BY <2>5
  <2>8. \A t \in Types : heard'[t] \in Nat /\ heard'[t] <= Len(log)
    BY <2>5
  <2>9. Debts'
    BY <2>1, <2>2, <2>3, <2>4, <2>6, <2>7, <2>8, DebtsPass, Zenon
  <2> QED
    BY <1>1, <2>4, <2>9
<1>15. CASE PassEnds
  <2>1. pass \in PassSet /\ retry \in RetrySet /\ pass.frame \in Frames
    BY TypeParts DEF FrameType, PassSet
  <2>2. pass'.pc = "taking" /\ pass'.todo = {} /\ pass'.failed = {}
    BY <1>15 DEF PassEnds, NoPass
  <2>3. ASSUME started, NEW t \in Types, Owed(t) PROVE Owed(t)'
    <3>1. CASE pass.failed = {}
      BY <1>15, <2>2, <2>3, <3>1 DEF PassEnds, Owed
    <3>2. CASE pass.failed # {}
      <4> DEFINE again == [types |-> pass.failed, push |-> pass.frame.push]
      <4>1. again \in Frames /\ retry.frame \in Frames /\ again.types = pass.failed
        BY <2>1 DEF PassSet, RetrySet, Frames
      <4>2. retry' = [frame |-> Merge(retry.frame, again), timer |-> RetryTimer]
        BY <1>15, <3>2 DEF PassEnds
      <4> HIDE DEF again
      <4>3. Merge(retry.frame, again).types = retry.frame.types \cup pass.failed
        BY <4>1, MergeRight
      <4>4. retry'.timer /\ retry'.frame.types = retry.frame.types \cup pass.failed
        BY <2>3, <4>2, <4>3 DEF RetryTimer
      <4> QED
        BY <1>15, <2>2, <2>3, <4>4 DEF PassEnds, Owed
    <3> QED
      BY <3>1, <3>2
  <2> QED
    BY <1>1, <1>13, <1>15, <2>2, <2>3, DebtsPass DEF PassEnds, serverVars
<1>16. ASSUME NEW f \in Frames, OnStateChange(f), UNCHANGED <<log, synced, reading, phase>>,
              \A t \in Types : heard'[t] \in Nat /\ heard'[t] <= Len(log),
              \A t \in Types : heard'[t] = heard[t] \/ t \in f.types
       PROVE  Debts' /\ \A t \in Locked : synced'[t] >= synced[t]
  <2>1. /\ pending'.types = pending.types \cup retry.frame.types \cup f.types
        /\ pass'.pc # "idle" /\ pass'.todo = pass.todo /\ pass'.failed = pass.failed
        /\ pass.pc # "idle" => pass' = pass
    BY <1>16, TriggerTyped
  <2>2. pass'.pc # "syncing" => pass'.todo = {} /\ pass'.failed = {}
    BY <2>1 DEF Debts, PassReads
  <2>3. reading["pass"] = NoRead \/ pass' = pass
    BY <2>1 DEF Debts, PassReads
  <2>4. \A t \in Types : Owed(t) => Owed(t)'
    BY <2>1 DEF Owed
  <2>5. \A t \in Types : heard'[t] = heard[t] \/ (t \in pending'.types /\ pass'.pc # "idle")
    BY <1>16, <2>1
  <2>6. Debts'
    BY <1>16, <2>1, <2>2, <2>3, <2>4, <2>5, DebtsPass
  <2> QED
    BY <1>1, <1>16, <2>6
<1>17. CASE RetryFires
  BY <1>13, <1>16, <1>17, Constants DEF RetryFires, serverVars
<1>18. CASE Receive
  <2>1. PICK k \in (told + 1)..Len(log) :
          /\ OnStateChange([types |-> Named(told + 1, k), push |-> k])
          /\ heard' = [t \in Types |-> IF t \in Named(told + 1, k) THEN k ELSE heard[t]]
    BY <1>18 DEF Receive
  <2>2. PICK f \in Frames : f = [types |-> Named(told + 1, k), push |-> k]
    BY <2>1, NamedTyped DEF Frames, Places
  <2>3. OnStateChange(f) /\ f.types = Named(told + 1, k) /\ k \in Nat /\ k <= Len(log)
    BY <1>2, <2>1, <2>2, NamedTyped, PushAssumption DEF OnStateChange, Places
  <2>4. \A t \in Types :
          /\ heard'[t] \in Nat /\ heard'[t] <= Len(log)
          /\ (heard'[t] = heard[t] \/ t \in f.types)
    BY <1>13, <2>1, <2>3
  <2>5. UNCHANGED <<log, synced, reading, phase>>
    BY <1>18 DEF Receive
  <2> QED
    BY <1>16, <2>3, <2>4, <2>5
<1>19. CASE WorkerDies
  <2>1. /\ \A r \in Readers : reading'[r] = NoRead
        /\ \A t \in Types : heard'[t] = 0
        /\ UNCHANGED <<synced, log>> /\ pass' = NoPass /\ phase' = "new"
    BY <1>19 DEF WorkerDies, serverVars
  <2>2. Behindhand'
    BY <1>2, <2>1, TypeParts DEF Debts, Behindhand, NoRead
  <2>3. LockHeld' /\ PassReads' /\ ReadBehind' /\ NothingForgotten'
    BY <2>1, PushAssumption DEF LockHeld, PassReads, ReadBehind, NothingForgotten,
       started, NoRead, NoPass, Readers
  <2> QED
    BY <1>1, <2>1, <2>2, <2>3 DEF Debts
<1> QED
  BY <1>3, <1>4, <1>5, <1>6, <1>7, <1>8, <1>9, <1>10, <1>11, <1>12, <1>14, <1>15,
     <1>17, <1>18, <1>19 DEF Next, LinkStep, PassStep, CatchUp

(***************************************************************************)
(* The theorems.                                                           *)
(***************************************************************************)
\* The inductive invariant.
THEOREM PushInvariant == Spec => []Inv
<1>1. Init => Inv
  <2> SUFFICES ASSUME Init PROVE Inv
    OBVIOUS
  <2>1. TypeOK
    BY TypeInit
  <2>2. NewIsQuiet /\ StopLeavesNothing
    BY DEF Init, NewIsQuiet, StopLeavesNothing, Idle, NoPass
  <2>3. Behindhand /\ LockHeld /\ PassReads /\ ReadBehind /\ NothingForgotten
    BY PushAssumption DEF Init, Behindhand, LockHeld, PassReads, ReadBehind,
       NothingForgotten, started, NoRead, NoPass, Readers
  <2> QED
    BY <2>1, <2>2, <2>3 DEF Inv
<1>2. Inv /\ [Next]_vars => Inv'
  BY TypeNext, QuietNext, StopNext, DebtsNext DEF Inv, Debts
<1> QED
  BY <1>1, <1>2, PTL DEF Spec

\* What a frame named and was not read since is owed, whatever failed, merged or
\* reconnected meanwhile.
THEOREM DebtsRemembered == Spec => []NothingForgotten
<1>1. Inv => NothingForgotten
  BY DEF Inv
<1> QED
  BY <1>1, PushInvariant, PTL

\* A stopped backend has no socket and no timer.
THEOREM StopIsFinal == Spec => []StopLeavesNothing
<1>1. Inv => StopLeavesNothing
  BY DEF Inv
<1> QED
  BY <1>1, PushInvariant, PTL

\* A type whose reads exclude each other never goes back to an older state.
THEOREM CacheNeverBack == Spec => NeverBack
<1>1. Inv /\ [Next]_vars => [\A t \in Locked : synced'[t] >= synced[t]]_vars
  BY DebtsNext DEF Inv, Debts
<1> QED
  BY <1>1, PushInvariant, PTL DEF Spec, NeverBack
=============================================================================
