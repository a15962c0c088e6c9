---------------------------- MODULE PushChannel ----------------------------
(***************************************************************************)
(* How the JMAP backend hears of changes and catches up with them.         *)
(*                                                                         *)
(* The transport keeps one WebSocket, which the server uses to push        *)
(* StateChange frames; the backend's supervisor reopens it with a growing  *)
(* delay.  Frames are merged into a bucket that one pass at a time         *)
(* consumes, type by type; what fails is merged back after a delay.  The   *)
(* push state of a pass without failure is stored, and offered to the      *)
(* server when a socket is opened, which may then replay what was missed.  *)
(* Since it need not, some types are read again behind every open.         *)
(*                                                                         *)
(* The server's history is a sequence of changed types; a push state is a  *)
(* position in it, and to sync a type is to read the position and to write *)
(* it down, two steps with other work in between.                          *)
(***************************************************************************)
EXTENDS Naturals, Sequences, FiniteSets

CONSTANTS
  Types,          \* data types that are pushed
  Priority,       \* the order in which they are synced, least first
  AtStart,        \* the types the bootstrap reads before it opens a socket
  AtBoot,         \* the types it reads once it listens
  AtReopen,       \* the types read again once a socket is reopened
  Locked,         \* the types whose syncs exclude each other
  MaxChanges,     \* bound on the changes on the server
  MaxFaults       \* bound on sockets that close or never open, reads that fail,
                  \* renewals of the credential and deaths of the worker, in all

ASSUME PushAssumption ==
  /\ AtBoot \subseteq AtReopen /\ AtReopen \subseteq Types /\ "none" \notin Types
  /\ AtStart \subseteq Types /\ Locked \subseteq Types
  /\ Priority \in [Types -> Nat]
  /\ {MaxChanges, MaxFaults} \subseteq Nat

VARIABLES
  log,         \* the server: the type each change was made to
  told,        \* the server: the position the open socket was told of
  synced,      \* database: the position each type was read at
  stored,      \* database: account_services.push_state, 0 for none
  phase,       \* the backend: "new", "started" or "stopped"
  listening,   \* the backend is subscribed to frames and closes
  link,        \* the socket
  offer,       \* the push state the open in progress was given
  lastPush,    \* _lastPushState, 0 for none
  timer,       \* the reconnect timer is armed
  run,         \* the bootstrap and the reconnects in progress
  pending,     \* frames merged, not yet taken by a pass
  retry,       \* frames to merge again, and whether a timer is armed
  pass,        \* the pass over one merged frame
  reading,     \* the position a read in progress has seen, 0 for no read
  heard,       \* history: the last frame that named each type
  missed,      \* history: types a read of a bootstrap or reconnect failed for
  onHttp,      \* history: the bootstrap fell back to HTTP
  faults       \* faults so far

serverVars == <<log, told>>
dbVars == <<synced, stored>>
linkVars == <<phase, listening, link, offer, lastPush, timer>>
frameVars == <<pending, retry, pass>>
ghostVars == <<heard, missed, onHttp>>
vars == <<serverVars, dbVars, linkVars, run, frameVars, reading, ghostVars, faults>>

Runs == {"boot", "first", "second"}
Readers == Runs \cup {"pass"}
NoFrame == [types |-> {}, push |-> 0]
Frames == [types : SUBSET Types, push : 0..MaxChanges]
Idle == [pc |-> "idle", todo |-> {}]
NoPass == [pc |-> "idle", todo |-> {}, failed |-> {}, frame |-> NoFrame]
NoRead == [type |-> "none", seen |-> 0]

TypeOK ==
  /\ log \in Seq(Types) /\ Len(log) <= MaxChanges
  /\ {told, stored, offer, lastPush} \subseteq 0..MaxChanges
  /\ synced \in [Types -> 0..MaxChanges]
  /\ phase \in {"new", "started", "stopped"}
  /\ {listening, timer, onHttp} \subseteq BOOLEAN /\ (listening => phase = "started")
  /\ link \in {"none", "connecting", "open"}
  /\ run \in [Runs -> [pc : {"idle", "starting", "opening", "reading"}, todo : SUBSET Types]]
  /\ pending \in Frames
  /\ retry \in [frame : Frames, timer : BOOLEAN]
  /\ pass \in [pc : {"idle", "taking", "syncing"}, todo : SUBSET Types,
               failed : SUBSET Types, frame : Frames]
  /\ reading \in [Readers -> {NoRead} \cup [type : Types, seen : 0..MaxChanges]]
  /\ heard \in [Types -> 0..MaxChanges]
  /\ missed \subseteq Types
  /\ faults \in 0..MaxFaults

Init ==
  /\ log = <<>> /\ told = 0
  /\ synced = [t \in Types |-> 0] /\ stored = 0
  /\ phase = "new" /\ listening = FALSE /\ link = "none"
  /\ offer = 0 /\ lastPush = 0 /\ timer = FALSE
  /\ run = [r \in Runs |-> Idle]
  /\ pending = NoFrame /\ retry = [frame |-> NoFrame, timer |-> FALSE]
  /\ pass = NoPass
  /\ reading = [r \in Readers |-> NoRead]
  /\ heard = [t \in Types |-> 0] /\ missed = {} /\ onHttp = FALSE
  /\ faults = 0

started == phase = "started"
Fault == faults < MaxFaults /\ faults' = faults + 1

(***************************************************************************)
(* The socket and its supervisor.                                          *)
(***************************************************************************)
\* _onTransportClose: at most one timer.
Supervise == timer' = (timer \/ started)

\* Mutant: only a reconnect catches up.
BehindBlind(r) == IF r = "boot" THEN {} ELSE AtReopen

\* The types read again behind an open.
Behind(r) == IF r = "boot" THEN AtBoot ELSE AtReopen

Reading(r) == [pc |-> "reading", todo |-> Behind(r)]

\* openWebSocket: callers share the open in progress, or the open socket.
Open(r, push) ==
  IF link = "none"
  THEN /\ link' = "connecting" /\ offer' = push
       /\ run' = [run EXCEPT ![r] = [pc |-> "opening", todo |-> {}]]
  ELSE /\ run' = [run EXCEPT ![r] = IF link = "open" THEN Reading(r)
                                    ELSE [pc |-> "opening", todo |-> {}]]
       /\ UNCHANGED <<link, offer>>

\* start, up to _started.  The folders it has read by then do not count as read.
Start ==
  /\ phase = "new"
  /\ phase' = "started"
  /\ run' = [run EXCEPT !["boot"] = [pc |-> "starting", todo |-> AtStart]]
  /\ UNCHANGED <<serverVars, dbVars, listening, link, offer, lastPush, timer,
                 frameVars, reading, ghostVars, faults>>

\* _continueBootstrap, its auxiliary reads done or failed: the openWebSocket, if
\* nobody stopped the backend meanwhile.
BootOpens ==
  /\ run["boot"].pc = "starting" /\ run["boot"].todo = {}
  /\ IF started
     THEN Open("boot", stored)
     ELSE run' = [run EXCEPT !["boot"] = Idle] /\ UNCHANGED <<link, offer>>
  /\ UNCHANGED <<serverVars, dbVars, phase, listening, lastPush, timer, frameVars,
                 reading, ghostVars, faults>>

Opening == {r \in Runs : run[r].pc = "opening"}

\* The bootstrap subscribes behind its open, whatever came of that.
Listen == listening \/ (started /\ "boot" \in Opening)

\* Mutant: a socket that opens after the teardown is kept.
KeepAlways == TRUE

\* The check behind waitForOpen.
Keep == started

\* The server accepts; a backend stopped meanwhile closes at once.  The server
\* replays what came after the push state it is offered, if it knows it.
SocketOpens ==
  /\ link = "connecting"
  /\ IF Keep
     THEN LET push == IF offer = 0 THEN lastPush ELSE offer IN
          /\ link' = "open" /\ lastPush' = push
          /\ \/ told' = Len(log)
             \/ push # 0 /\ told' = push
          /\ listening' = Listen
          /\ run' = [r \in Runs |-> IF r \in Opening THEN Reading(r) ELSE run[r]]
          /\ onHttp' = FALSE
     ELSE /\ link' = "none"
          /\ run' = [r \in Runs |-> IF r \in Opening THEN Idle ELSE run[r]]
          /\ UNCHANGED <<told, lastPush, listening, onHttp>>
  /\ UNCHANGED <<log, dbVars, phase, offer, timer, frameVars, reading, heard,
                 missed, faults>>

\* A reconnect whose open failed schedules the next one.
RetryOpen == IF Opening \ {"boot"} = {} THEN UNCHANGED timer ELSE Supervise

\* The open fails or times out.  The bootstrap goes on over HTTP.
SocketFails ==
  /\ link = "connecting"
  /\ Fault
  /\ link' = "none"
  /\ RetryOpen
  /\ listening' = Listen
  /\ onHttp' = (onHttp \/ "boot" \in Opening)
  /\ run' = [r \in Runs |-> IF r = "boot" /\ r \in Opening /\ started
                            THEN Reading(r)
                            ELSE IF r \in Opening THEN Idle ELSE run[r]]
  /\ UNCHANGED <<serverVars, dbVars, phase, offer, lastPush, frameVars, reading,
                 heard, missed>>

\* _onWsClose: the transport forgets the socket and tells the supervisor.
SocketCloses ==
  /\ link = "open"
  /\ Fault
  /\ link' = "none"
  /\ Supervise
  /\ UNCHANGED <<serverVars, dbVars, phase, listening, offer, lastPush, run,
                 frameVars, reading, ghostVars>>

\* authenticationUpdated.
Renew ==
  /\ started /\ listening /\ link # "open"
  /\ Fault
  /\ Supervise
  /\ UNCHANGED <<serverVars, dbVars, phase, listening, link, offer, lastPush, run,
                 frameVars, reading, ghostVars>>

\* The reconnect timer: _reconnect up to its openWebSocket.
Reconnect ==
  /\ timer
  /\ timer' = FALSE
  /\ \E r \in Runs \ {"boot"} :
       /\ run[r] = Idle /\ (r = "second" => run["first"] # Idle)
       /\ Open(r, IF lastPush = 0 THEN stored ELSE lastPush)
  /\ UNCHANGED <<serverVars, dbVars, phase, listening, lastPush, frameVars,
                 reading, ghostVars, faults>>

(***************************************************************************)
(* Reading a type.                                                         *)
(***************************************************************************)
\* Mutant: reads of a locked type overlap.
FreeAlways(t) == TRUE

\* _withViewRefreshLock, and the single flight of _syncSubmissions.
Free(t) == t \in Locked => \A r \in Readers : reading[r].type # t

\* The next of the types to do, in the order of the priorities.
BeginRead(r, todo) ==
  /\ reading[r] = NoRead
  /\ \E t \in todo :
       /\ \A u \in todo : Priority[t] <= Priority[u]
       /\ Free(t)
       /\ reading' = [reading EXCEPT ![r] = [type |-> t, seen |-> Len(log)]]

EndRead(r) == reading' = [reading EXCEPT ![r] = NoRead]

\* A read fails on the way, or because the transport was aborted by stop.
ReadFails(r) ==
  /\ reading[r] # NoRead
  /\ IF started THEN Fault ELSE UNCHANGED faults
  /\ EndRead(r)

Store(r) == synced' = [synced EXCEPT ![reading[r].type] = reading[r].seen]

\* The reads before the bootstrap's open, and those behind any open, one after
\* the other.
Busy(r) == run[r].pc \in {"starting", "reading"}

CatchUpBegin(r) ==
  /\ Busy(r)
  /\ BeginRead(r, run[r].todo)
  /\ UNCHANGED <<serverVars, dbVars, linkVars, run, frameVars, ghostVars, faults>>

NextRead(r) ==
  LET left == run[r].todo \ {reading[r].type} IN
  run' = [run EXCEPT ![r] = IF left = {} /\ @.pc = "reading" THEN Idle
                            ELSE [@ EXCEPT !.todo = left]]

CatchUpEnd(r) ==
  /\ Busy(r) /\ reading[r] # NoRead
  /\ Store(r) /\ EndRead(r) /\ NextRead(r)
  /\ UNCHANGED <<serverVars, stored, linkVars, frameVars, ghostVars, faults>>

\* A read that fails is logged and left at that.
CatchUpFails(r) ==
  /\ Busy(r) /\ ReadFails(r) /\ NextRead(r)
  /\ missed' = missed \cup {reading[r].type}
  /\ UNCHANGED <<serverVars, dbVars, linkVars, frameVars, heard, onHttp>>

(***************************************************************************)
(* Frames.                                                                 *)
(***************************************************************************)
Named(i, k) == {log[j] : j \in i..k}

\* Mutant: the later frame replaces the earlier one.
MergeLatest(f, g) == IF g = NoFrame THEN f ELSE g

\* mergeStateChange.
Merge(f, g) == [types |-> f.types \cup g.types,
                push |-> IF g.push = 0 THEN f.push ELSE g.push]

NoRetry == [frame |-> NoFrame, timer |-> FALSE]

\* _onStateChange: merge, with what waits to be retried, and start a pass.
OnStateChange(f) ==
  /\ pending' = Merge(pending, Merge(retry.frame, f))
  /\ retry' = NoRetry
  /\ pass' = IF pass.pc = "idle" THEN [pass EXCEPT !.pc = "taking"] ELSE pass

\* _onWsMessage: a frame names what changed since the last one.
Receive ==
  /\ link = "open" /\ listening
  /\ \E k \in told + 1..Len(log) :
       /\ told' = k /\ lastPush' = k
       /\ OnStateChange([types |-> Named(told + 1, k), push |-> k])
       /\ heard' = [t \in Types |-> IF t \in Named(told + 1, k) THEN k ELSE heard[t]]
  /\ UNCHANGED <<log, dbVars, phase, listening, link, offer, timer, run, reading,
                 missed, onHttp, faults>>

\* The loop takes the merged frame, or ends.
Take ==
  /\ pass.pc = "taking"
  /\ IF pending = NoFrame
     THEN pass' = NoPass /\ UNCHANGED pending
     ELSE /\ pass' = [pc |-> "syncing", todo |-> pending.types, failed |-> {},
                      frame |-> pending]
          /\ pending' = NoFrame
  /\ UNCHANGED <<serverVars, dbVars, linkVars, run, retry, reading, ghostVars, faults>>

SyncBegin ==
  /\ pass.pc = "syncing"
  /\ BeginRead("pass", pass.todo)
  /\ UNCHANGED <<serverVars, dbVars, linkVars, run, frameVars, ghostVars, faults>>

SyncEnd ==
  /\ pass.pc = "syncing" /\ reading["pass"] # NoRead
  /\ Store("pass") /\ EndRead("pass")
  /\ pass' = [pass EXCEPT !.todo = @ \ {reading["pass"].type}]
  /\ UNCHANGED <<serverVars, stored, linkVars, run, pending, retry, ghostVars, faults>>

SyncFails ==
  /\ pass.pc = "syncing" /\ ReadFails("pass")
  /\ pass' = [pass EXCEPT !.todo = @ \ {reading["pass"].type},
                          !.failed = @ \cup {reading["pass"].type}]
  /\ UNCHANGED <<serverVars, dbVars, linkVars, run, pending, retry, ghostVars>>

\* One timer, and none once stopped.
RetryTimer == retry.timer \/ started

\* The end of _doStateChange: schedule the failed types, or store the push state.
PassEnds ==
  /\ pass.pc = "syncing" /\ pass.todo = {} /\ reading["pass"] = NoRead
  /\ pass' = [NoPass EXCEPT !.pc = "taking"]
  /\ IF pass.failed = {}
     THEN stored' = pass.frame.push /\ UNCHANGED retry
     ELSE /\ retry' = [frame |-> Merge(retry.frame, [types |-> pass.failed,
                                                    push |-> pass.frame.push]),
                       timer |-> RetryTimer]
          /\ UNCHANGED stored
  /\ UNCHANGED <<serverVars, synced, linkVars, run, pending, reading, ghostVars, faults>>

RetryFires ==
  /\ retry.timer
  /\ OnStateChange(NoFrame)
  /\ UNCHANGED <<serverVars, dbVars, linkVars, run, reading, ghostVars, faults>>

(***************************************************************************)
(* The rest of the world.                                                  *)
(***************************************************************************)
\* A change, while it may still matter to this backend.
Change(t) ==
  /\ phase # "stopped" /\ Len(log) < MaxChanges
  /\ log' = Append(log, t)
  /\ UNCHANGED <<told, dbVars, linkVars, run, frameVars, reading, ghostVars, faults>>

\* JmapBackend.stop: timers cleared, listeners gone, requests aborted, the
\* socket closed; an open in progress sees it when it is done.
Stop ==
  /\ started
  /\ phase' = "stopped" /\ listening' = FALSE /\ timer' = FALSE
  /\ link' = IF link = "open" THEN "none" ELSE link
  /\ retry' = NoRetry
  /\ UNCHANGED <<serverVars, dbVars, offer, lastPush, run, pending, pass, reading,
                 ghostVars, faults>>

\* The worker dies and a new one starts.
WorkerDies ==
  /\ started
  /\ Fault
  /\ phase' = "new" /\ listening' = FALSE /\ timer' = FALSE
  /\ link' = "none" /\ offer' = 0 /\ lastPush' = 0
  /\ run' = [r \in Runs |-> Idle]
  /\ pending' = NoFrame /\ retry' = NoRetry /\ pass' = NoPass
  /\ reading' = [r \in Readers |-> NoRead]
  /\ heard' = [t \in Types |-> 0] /\ missed' = {} /\ onHttp' = FALSE
  /\ UNCHANGED <<serverVars, dbVars>>

LinkStep == Start \/ BootOpens \/ SocketOpens \/ Reconnect
CatchUp(r) == CatchUpBegin(r) \/ CatchUpEnd(r)
PassStep == Take \/ SyncBegin \/ SyncEnd \/ PassEnds \/ RetryFires

Next ==
  \/ LinkStep \/ PassStep \/ Receive \/ SyncFails
  \/ SocketFails \/ SocketCloses \/ Renew \/ Stop \/ WorkerDies
  \/ \E r \in Runs : CatchUp(r) \/ CatchUpFails(r)
  \/ \E t \in Types : Change(t)

Spec == Init /\ [][Next]_vars

\* Opens that do not fail succeed, timers fire, awaited calls return and the
\* server sends what it has to say: the whole does not rest while any of it can
\* go on.  Faults and changes being finite, none can keep another waiting.
Work == LinkStep \/ PassStep \/ Receive \/ \E r \in Runs : CatchUp(r)
FairSpec == Spec /\ WF_vars(Work)

(***************************************************************************)
(* Properties.                                                             *)
(***************************************************************************)
\* Work on a type that waits in the bucket, in the pass, or among the retries
\* with a timer armed.
Owed(t) ==
  \/ t \in pending.types /\ pass.pc # "idle"
  \/ t \in pass.todo \/ t \in pass.failed
  \/ t \in retry.frame.types /\ retry.timer

\* What a frame has named and was not read since is still owed, whatever failed,
\* merged or reconnected meanwhile.  (A type without a lock may be written by an
\* older read after a newer one: Identity is, by _reconnect.)
NothingForgotten ==
  started => \A t \in Locked : heard[t] > synced[t] => Owed(t)

\* A stopped backend has no socket and nothing that would wake it up, whatever
\* open, pass or retry the stop came in the middle of.
StopLeavesNothing ==
  phase = "stopped" => link # "open" /\ ~timer /\ ~retry.timer

\* A type whose reads exclude each other never goes back to an older state.
NeverBack == [][\A t \in Locked : synced'[t] >= synced[t]]_vars

\* A change to a type that is read behind every open is caught up with, even one
\* made while no worker ran, lost frames, failed passes and restarts
\* notwithstanding, as long as the backend runs, its bootstrap got a socket and
\* no such read failed.  Types only read before the open are not promised this.
CatchesUp ==
  \A t \in AtBoot : \A i \in 1..MaxChanges :
    (i <= Len(log) /\ log[i] = t) ~>
      (synced[t] >= i \/ phase = "stopped" \/ onHttp \/ t \in missed)
=============================================================================
