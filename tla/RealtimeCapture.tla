-------------------------- MODULE RealtimeCapture ---------------------------
(***************************************************************************)
(* The observer's realtime lane: from the Pump websocket to the database.  *)
(*                                                                         *)
(* Two tasks of one process run concurrently.  The forwarder asks the      *)
(* failover stream for the next notification and sends it down a bounded   *)
(* channel (shreks-providers/src/bounded_pump_realtime.rs and              *)
(* bounded_pump_realtime_failover.rs).  The writer takes notifications     *)
(* from the channel, first counts each in the coverage ledger, then stores *)
(* its trades, one transaction each (shreks-observer/src/runtime.rs).  The *)
(* process may die between any two steps, is started again by systemd, and *)
(* on a signal stops the forwarder and lets the writer drain for a while   *)
(* (shreks-observer/src/bin/shreks-observe.rs).                            *)
(*                                                                         *)
(* A process is configured with its sources, numbered 1..N; the deployed   *)
(* observer has one, the public Solana endpoint, and only a single public  *)
(* source is rebuilt after an error.                                       *)
(*                                                                         *)
(* `wire' is the world outside: one entry for each connection ever made,   *)
(* with its lifetime and the number of notifications that arrived on it.   *)
(* A notification carries the connection it arrived on and its position    *)
(* there.  The program reads neither.                                      *)
(***************************************************************************)
EXTENDS CaptureStore, FiniteSets

CONSTANTS
    Configurations,      \* the numbers of sources it may be configured with
    PublicSource,        \* TRUE: the sources are the public endpoint
    MaxConnectAttempts,  \* connection attempts of one stream
    MaxPublicReconnects, \* rebuilds of the single public stream
    Capacity,            \* of the channel
    MaxEarly,            \* bound: notifications inside one (un)subscribe
    MaxArrivals,         \* bound: notifications ever
    MaxConnections,      \* bound: connections ever
    MaxFailures,         \* bound: failures of the streams
    MaxStarts,           \* bound: processes ever started
    MaxTime              \* bound: the clock

ASSUME CaptureAssumption ==
    /\ Configurations \subseteq Nat \ {0} /\ PublicSource \in BOOLEAN
    /\ {MaxConnectAttempts, MaxPublicReconnects, Capacity} \subseteq Nat \ {0}
    /\ {MaxEarly, MaxArrivals, MaxConnections, MaxFailures, MaxStarts,
        MaxTime} \subseteq Nat /\ MaxStarts >= 1

VARIABLES
    clock,      \* the host's clock
    process,    \* "up", "draining" or "down", its starts, its sources
    stream,     \* each source's BoundedPumpRealtimeLogStream
    lane,       \* the BoundedPumpRealtimeFailoverStream and its forwarder
    channel,    \* what the forwarder has sent and the writer not yet taken
    writer,     \* run_pump_realtime_session_writer
    sessions,   \* table fast_realtime_coverage_sessions
    evidence,   \* table pump_trade_evidence
    conflicts,  \* table pump_trade_evidence_conflicts
    wire,       \* every connection ever made
    unhealed,   \* failed rounds of the lane since its last notification
    spent       \* arrivals and failures so far, against their bounds

volatile == <<stream, lane, channel, writer>>
durable == <<sessions, evidence, conflicts>>
vars == <<clock, process, volatile, durable, wire, unhealed, spent>>

N == process.sources
Sources == 1..N
Never == MaxTime + 1

-----------------------------------------------------------------------------
(* Volatile state of a process that has just started. *)

FreshStream == [open |-> 0, pending |-> <<>>, generation |-> 0, attempts |-> 0]

NoKey == <<0, 0, 0>>
Nothing == [session |-> 0, source |-> 0, signature |-> "none", economics |-> 0,
            conn |-> 0, nth |-> 0]

FreshLane == [phase |-> "poll", active |-> 1, round |-> 0, reconnects |-> 0,
              rebuilds |-> [i \in Sources |-> 0], lastKey |-> NoKey,
              session |-> 0, held |-> Nothing]

FreshWriter == [phase |-> "idle", session |-> 0, row |-> 0,
                taken |-> Nothing, part |-> 0, at |-> 0]

Init ==
    /\ clock = 0
    /\ process \in [state : {"up"}, starts : {1}, sources : Configurations]
    /\ stream = [i \in Sources |-> FreshStream]
    /\ lane = FreshLane
    /\ channel = <<>>
    /\ writer = FreshWriter
    /\ sessions = <<>>
    /\ evidence = [t \in Trades |-> NotStored]
    /\ conflicts = {}
    /\ wire = <<>>
    /\ unhealed = 0
    /\ spent = [arrivals |-> 0, failures |-> 0]

-----------------------------------------------------------------------------
(* The world: connections open, carry notifications and close. *)

Close(w, cs) == [c \in 1..Len(w) |->
                    IF c \in cs /\ w[c].closed = Never
                    THEN [w[c] EXCEPT !.closed = clock] ELSE w[c]]

(* Up to `most' notifications arriving on connection c after the first     *)
(* `before' ones: any contents, numbered in the order they arrive.         *)
Arriving(c, source, before, most) ==
    UNION {{[k \in 1..n |-> [session |-> 0, source |-> source,
                             signature |-> said[k][1], economics |-> said[k][2],
                             conn |-> c, nth |-> before + k]] :
                said \in [1..n -> Signatures \X Economics]} : n \in 0..most}

Arrive(count) ==
    /\ spent.arrivals + count <= MaxArrivals
    /\ spent' = [spent EXCEPT !.arrivals = @ + count]

Fail(count) ==
    /\ spent.failures < MaxFailures
    /\ spent.arrivals + count <= MaxArrivals
    /\ spent' = [arrivals |-> spent.arrivals + count, failures |-> spent.failures + 1]

-----------------------------------------------------------------------------
(* The end of a process: everything volatile is gone. *)

ProcessEnds ==
    /\ process' = [process EXCEPT !.state = "down"]
    /\ stream' = [i \in Sources |-> FreshStream]
    /\ lane' = FreshLane
    /\ channel' = <<>>
    /\ writer' = FreshWriter

LaneEnds(w) ==
    /\ ProcessEnds
    /\ wire' = Close(w, 1..Len(w))
    /\ unhealed' = 0

(***************************************************************************)
(* What the failover stream does with a stream's answer: s is the state    *)
(* the stream is left in, w the connections as they are then.              *)
(***************************************************************************)

(* bind_session: the notification belongs to the session of the connection *)
(* it came over, named by source, rebuild and connection generation.       *)
(* Mutant: the rebuild is not part of the session's name. *)
SessionKeyWithoutRebuild(i, s) == <<i, 0, s.generation>>

SessionKey(i, s) == <<i, lane.rebuilds[i], s.generation>>

SessionOf(key) == IF lane.lastKey = key THEN lane.session ELSE lane.session + 1

BindSession(i, key, notification) ==
    [lane EXCEPT !.phase = "send", !.active = i, !.round = 0, !.reconnects = 0,
                 !.lastKey = key, !.session = SessionOf(key),
                 !.held = [notification EXCEPT !.session = SessionOf(key)]]

Deliver(i, s, notification) ==
    /\ lane' = BindSession(i, SessionKey(i, s), notification)
    /\ stream' = [stream EXCEPT ![i] = s]
    /\ unhealed' = 0
    /\ UNCHANGED <<clock, process, channel, writer, durable>>

(* rebuild_stream: a new stream takes the place of the source's old one.   *)
RebuildStream(i, w, reconnects) ==
    /\ lane' = [lane EXCEPT !.active = i, !.round = 0, !.reconnects = reconnects,
                            !.rebuilds[i] = @ + 1]
    /\ stream' = [stream EXCEPT ![i] = FreshStream]
    /\ wire' = Close(w, {stream[i].open})
    /\ unhealed' = unhealed + 1
    /\ UNCHANGED <<process, channel, writer>>

(* With the forwarder the process ends; the writer, which can be aborted   *)
(* only between two notifications, has finished the one it took.           *)
ForwarderEnds(w) == writer.phase = "idle" /\ LaneEnds(w)

SinglePublic == N = 1 /\ PublicSource

(* A retryable error: the next source is tried; when all have failed, a    *)
(* single public source is rebuilt until its budget is spent.              *)
NextSource(i, s, w) ==
    /\ lane.round + 1 < N
    /\ lane' = [lane EXCEPT !.active = (i % N) + 1, !.round = @ + 1]
    /\ stream' = [stream EXCEPT ![i] = s]
    /\ wire' = IF s.open = 0 THEN Close(w, {stream[i].open}) ELSE w
    /\ UNCHANGED <<process, channel, writer, unhealed>>

RetryPublic(i, w) ==
    /\ lane.round + 1 = N
    /\ SinglePublic /\ lane.reconnects + 1 < MaxPublicReconnects
    /\ RebuildStream(i, w, lane.reconnects + 1)

RoundFails(w) ==
    /\ lane.round + 1 = N
    /\ ~(SinglePublic /\ lane.reconnects + 1 < MaxPublicReconnects)
    /\ ForwarderEnds(w)

RetryableError(i, s, w) ==
    NextSource(i, s, w) \/ RetryPublic(i, w) \/ RoundFails(w)

(* Any other error: a single public source is rebuilt and its budget       *)
(* starts anew, else the process ends.                                     *)
InvalidResponse(i, w) ==
    \/ SinglePublic /\ RebuildStream(i, w, 0)
    \/ ~SinglePublic /\ ForwarderEnds(w)

-----------------------------------------------------------------------------
(* The forwarder: next_realtime_notification of the active source.         *)

Polling(i) == process.state = "up" /\ lane.phase = "poll" /\ i = lane.active

(* What was received while a subscription was acknowledged goes first.     *)
PopPending(i) ==
    /\ Polling(i)
    /\ stream[i].pending # <<>>
    /\ Deliver(i, [stream[i] EXCEPT !.pending = Tail(@)], Head(stream[i].pending))
    /\ UNCHANGED <<wire, spent>>

Reading(i) == Polling(i) /\ stream[i].pending = <<>> /\ stream[i].open # 0

(* ensure_connected, connect_once: the new connection is the stream's next *)
(* generation.                                                             *)
Connect(i) ==
    /\ Polling(i) /\ stream[i].pending = <<>> /\ stream[i].open = 0
    /\ Len(wire) < MaxConnections
    /\ \E early \in Arriving(Len(wire) + 1, i, 0, MaxEarly) :
         /\ Arrive(Len(early))
         /\ stream' = [stream EXCEPT ![i] =
                [open |-> Len(wire) + 1, pending |-> early,
                 generation |-> @.generation + 1, attempts |-> 0]]
         /\ wire' = Append(wire, [opened |-> clock, closed |-> Never,
                                  arrived |-> Len(early)])
    /\ UNCHANGED <<clock, process, lane, channel, writer, durable, unhealed>>

ConnectFails(i) ==
    /\ Polling(i) /\ stream[i].pending = <<>> /\ stream[i].open = 0
    /\ Fail(0)
    /\ LET s == [stream[i] EXCEPT !.attempts = @ + 1]
       IN  \/ /\ s.attempts < MaxConnectAttempts
              /\ stream' = [stream EXCEPT ![i] = s]
              /\ UNCHANGED <<process, lane, channel, writer, wire, unhealed>>
           \/ /\ s.attempts >= MaxConnectAttempts
              /\ RetryableError(i, s, wire)
           \/ InvalidResponse(i, wire)
    /\ UNCHANGED <<clock, durable>>

(* A frame with a notification. *)
Frame(i) ==
    /\ Reading(i)
    /\ Arrive(1)
    /\ \E frame \in Arriving(stream[i].open, i, wire[stream[i].open].arrived, 1) :
         /\ Len(frame) = 1
         /\ Deliver(i, stream[i], frame[1])
    /\ wire' = [wire EXCEPT ![stream[i].open].arrived = @ + 1]

(* A frame that is no notification and cannot be parsed. *)
MalformedFrame(i) ==
    /\ Reading(i)
    /\ Fail(0)
    /\ InvalidResponse(i, wire)
    /\ UNCHANGED <<clock, durable>>

(* reconcile_targets: the tracked pools changed.  Notifications that come  *)
(* before the acknowledgement are kept; if it fails the connection is      *)
(* dropped, what was kept is not.                                          *)
Reconcile(i) ==
    /\ Reading(i)
    /\ \E early \in Arriving(stream[i].open, i, wire[stream[i].open].arrived, MaxEarly) :
         /\ early # <<>>
         /\ Arrive(Len(early))
         /\ stream' = [stream EXCEPT ![i].pending = early]
         /\ wire' = [wire EXCEPT ![stream[i].open].arrived = @ + Len(early)]
    /\ UNCHANGED <<clock, process, lane, channel, writer, durable, unhealed>>

ReconcileFails(i) ==
    /\ Reading(i)
    /\ \E early \in Arriving(stream[i].open, i, wire[stream[i].open].arrived, MaxEarly) :
         LET s == [stream[i] EXCEPT !.open = 0, !.pending = early]
             w == [wire EXCEPT ![stream[i].open].arrived = @ + Len(early)]
         IN  /\ Fail(Len(early))
             /\ RetryableError(i, s, w) \/ InvalidResponse(i, w)
    /\ UNCHANGED <<clock, durable>>

(* disconnect_and_backoff: the socket closed, failed or stayed silent.     *)
Disconnected(i) ==
    /\ Reading(i)
    /\ Fail(0)
    /\ stream' = [stream EXCEPT ![i].open = 0, ![i].attempts = @ + 1]
    /\ wire' = Close(wire, {stream[i].open})
    /\ UNCHANGED <<clock, process, lane, channel, writer, durable, unhealed>>

(* Mutant: one place of the channel is never used. *)
SendLeavesRoom ==
    /\ process.state = "up" /\ lane.phase = "send"
    /\ Len(channel) + 1 < Capacity
    /\ channel' = Append(channel, lane.held)
    /\ lane' = [lane EXCEPT !.phase = "poll", !.held = Nothing]
    /\ UNCHANGED <<clock, process, stream, writer, durable, wire, unhealed, spent>>

(* forward_bounded_pump_realtime_sessions: waits while the channel is full. *)
Send ==
    /\ process.state = "up" /\ lane.phase = "send"
    /\ Len(channel) < Capacity
    /\ channel' = Append(channel, lane.held)
    /\ lane' = [lane EXCEPT !.phase = "poll", !.held = Nothing]
    /\ UNCHANGED <<clock, process, stream, writer, durable, wire, unhealed, spent>>

-----------------------------------------------------------------------------
(* The writer: run_pump_realtime_session_writer. *)

Running == process.state \in {"up", "draining"}

StoringFrom(session, row, notification) ==
    [phase |-> IF TradesOf[notification.signature] = 0 THEN "idle" ELSE "storing",
     session |-> session, row |-> row, taken |-> notification, part |-> 1, at |-> clock]

(* The first notification of another session opens a row. *)
OpenSession(d) ==
    /\ d.session > writer.session
    /\ sessions' = BeginSession(sessions, d.source, d.session, clock, d)
    /\ writer' = StoringFrom(d.session, Len(sessions) + 1, d)
    /\ UNCHANGED <<process, stream, lane, wire, unhealed>>

(* A further one moves the row's end. *)
Extend(d) ==
    /\ d.session = writer.session
    /\ ~ExtendRefused(sessions, writer.row, d.source, d.session, clock)
    /\ sessions' = ExtendSession(sessions, writer.row, clock, d)
    /\ writer' = StoringFrom(writer.session, writer.row, d)
    /\ UNCHANGED <<process, stream, lane, wire, unhealed>>

(* A session that moved backward and a refused extension end the process. *)
Refused(d) ==
    \/ d.session < writer.session
    \/ /\ d.session = writer.session
       /\ ExtendRefused(sessions, writer.row, d.source, d.session, clock)

Receive ==
    /\ Running
    /\ writer.phase = "idle"
    /\ channel # <<>>
    /\ ~Refused(Head(channel))
    /\ OpenSession(Head(channel)) \/ Extend(Head(channel))
    /\ channel' = Tail(channel)
    /\ UNCHANGED <<clock, evidence, conflicts, spent>>

(* Every trade carries the time the writer took its notification at. *)
ObservedAt == writer.at

(* persist_pump_realtime_notification: one trade, one transaction.         *)
Persist ==
    /\ Running
    /\ writer.phase = "storing"
    /\ LET d == writer.taken
           trade == <<d.signature, writer.part>>
           last == writer.part = TradesOf[d.signature]
       IN  /\ evidence' = RecordTrade(evidence, trade, d.economics, ObservedAt)
           /\ conflicts' = Quarantine(evidence, conflicts, trade, d.economics)
           /\ writer' = [writer EXCEPT !.phase = IF last THEN "idle" ELSE @,
                                       !.part = IF last THEN @ ELSE @ + 1]
    /\ UNCHANGED <<clock, process, stream, lane, channel, sessions, wire,
                   unhealed, spent>>

-----------------------------------------------------------------------------
(* The process. *)

(* A stop signal: the forwarder is aborted, the writer may drain.          *)
Shutdown ==
    /\ process.state = "up"
    /\ process' = [process EXCEPT !.state = "draining"]
    /\ stream' = [i \in Sources |-> FreshStream]
    /\ lane' = FreshLane
    /\ wire' = Close(wire, 1..Len(wire))
    /\ unhealed' = 0
    /\ UNCHANGED <<clock, channel, writer, durable, spent>>

(* finish_realtime_writer_shutdown: the writer is done. *)
Drained ==
    /\ process.state = "draining"
    /\ channel = <<>> /\ writer.phase = "idle"
    /\ ProcessEnds
    /\ UNCHANGED <<clock, durable, wire, unhealed, spent>>

(* A kill, a storage error, the end of another task, the drain's timeout.  *)
Crash ==
    /\ Running
    /\ LaneEnds(wire)
    /\ UNCHANGED <<clock, durable, spent>>

Start ==
    /\ process.state = "down"
    /\ process.starts < MaxStarts
    /\ process' = [process EXCEPT !.state = "up", !.starts = @ + 1]
    /\ UNCHANGED <<clock, volatile, durable, wire, unhealed, spent>>

Tick ==
    /\ clock < MaxTime
    /\ clock' = clock + 1
    /\ UNCHANGED <<process, volatile, durable, wire, unhealed, spent>>

Forwarder == \/ \E i \in Sources :
                  \/ PopPending(i) \/ Connect(i) \/ ConnectFails(i)
                  \/ Frame(i) \/ MalformedFrame(i)
                  \/ Reconcile(i) \/ ReconcileFails(i) \/ Disconnected(i)
             \/ Send

Next == Forwarder \/ Receive \/ Persist
        \/ Shutdown \/ Drained \/ Crash \/ Start \/ Tick

Spec == Init /\ [][Next]_vars

(* The two tasks keep running; the network, the clock and whatever ends the *)
(* process owe nothing.                                                     *)
LiveSpec == Spec /\ WF_vars(Send) /\ WF_vars(Receive \/ Persist)

-----------------------------------------------------------------------------
(* Properties. *)

Notification == [session : Nat, source : Nat, signature : Signatures \union {"none"},
                 economics : Nat, conn : Nat, nth : Nat]

(* The state has its shape.                                                *)
CaptureTypeOK ==
    /\ clock \in 0..MaxTime
    /\ process \in [state : {"up", "draining", "down"}, starts : 1..MaxStarts,
                    sources : Configurations]
    /\ stream \in [Sources -> [open : Nat, pending : Seq(Notification),
                               generation : Nat, attempts : Nat]]
    /\ lane \in [phase : {"poll", "send"}, active : Sources, round : 0..N - 1,
                  reconnects : 0..MaxPublicReconnects, rebuilds : [Sources -> Nat],
                  lastKey : Nat \X Nat \X Nat, session : Nat, held : Notification]
    /\ channel \in Seq(Notification) /\ Len(channel) <= Capacity
    /\ writer \in [phase : {"idle", "storing"}, session : Nat, row : Nat,
                    taken : Notification, part : Nat, at : 0..MaxTime]
    /\ sessions \in Seq([source : Nat, sequence : Nat, first : 0..MaxTime,
                          last : 0..MaxTime, counted : Seq(Notification)])
    /\ evidence \in [Trades -> [economics : Nat, at : 0..MaxTime]]
    /\ conflicts \subseteq Trades \X Economics
    /\ wire \in Seq([opened : 0..MaxTime, closed : 0..Never, arrived : Nat])
    /\ unhealed \in Nat
    /\ spent \in [arrivals : 0..MaxArrivals, failures : 0..MaxFailures]

(* What a coverage row is for: the notifications it counts all came over   *)
(* one connection and none that arrived there between them is missing.     *)
(* Reconnects, failover, rebuilds and restarts each begin another row.     *)
NoGapInsideSession ==
    \A r \in 1..Len(sessions) :
        LET counted == sessions[r].counted
        IN  \A k \in 1..Len(counted) - 1 :
                /\ counted[k + 1].conn = counted[k].conn
                /\ counted[k + 1].nth = counted[k].nth + 1

(* The economics of a counted notification are in the database, as         *)
(* evidence or as a quarantined conflict, for all but the last one of each *)
(* row: a crash can lose the trades of one counted notification, no more.  *)
CountedThenStored ==
    \A r \in 1..Len(sessions) :
        \A k \in 1..Len(sessions[r].counted) - 1 :
            LET d == sessions[r].counted[k]
            IN  \A part \in 1..TradesOf[d.signature] :
                    Accounted(evidence, conflicts, <<d.signature, part>>, d.economics)

(* A stored trade lies inside the coverage that counted it: its            *)
(* observation time is between the ends of a row that counts it.           *)
StoredIsCovered ==
    \A t \in Trades :
        Stored(evidence, t) =>
            \E r \in 1..Len(sessions) :
                /\ sessions[r].first <= evidence[t].at
                /\ evidence[t].at <= sessions[r].last
                /\ \E k \in 1..Len(sessions[r].counted) :
                       /\ sessions[r].counted[k].signature = t[1]
                       /\ sessions[r].counted[k].economics = evidence[t].economics

(* The writer's own checks never refuse what the forwarder sends: the      *)
(* process never ends over a session that moved backward or a row that may *)
(* not grow.                                                               *)
NeverRefused ==
    Running /\ writer.phase = "idle" /\ channel # <<>> => ~Refused(Head(channel))

(* A row that is no longer the latest never changes; the latest only moves *)
(* its end; what is stored first stays.                                    *)
HistoryStands ==
    [][/\ \A r \in 1..Len(sessions) :
            /\ r < Len(sessions) => sessions'[r] = sessions[r]
            /\ sessions'[r].first = sessions[r].first
            /\ sessions'[r].last >= sessions[r].last
       /\ \A t \in Trades : Stored(evidence, t) => evidence'[t] = evidence[t]
       /\ conflicts \subseteq conflicts']_vars

(* A full channel never stops the lane: what the forwarder holds is sent,  *)
(* unless the process ends first.                                          *)
HeldIsSent == lane.phase = "send" ~> lane.phase = "poll"

(* Refuted by TLC (README): the recovery from failures in a row stays      *)
(* within its budget, whatever kinds of failure alternate                  *)
(* (bounded_pump_realtime_failover.rs:92-94).                              *)
RecoveryIsBounded == unhealed < MaxPublicReconnects

(* Refuted by TLC (README): a row covers one connection and does not reach *)
(* beyond the moment that connection closed                                *)
(* (2026-09-04-fl4-realtime-coverage-ledger-design.md:78-82).              *)
CoverageEndsWithConnection ==
    \A r \in 1..Len(sessions) :
        sessions[r].last <= wire[sessions[r].counted[1].conn].closed

(* Coverage and evidence agree in both directions, and stay.               *)
CoverageMatchesEvidence == [](CountedThenStored /\ StoredIsCovered) /\ HistoryStands

(* The checks of channel and writer never fail on what the lane sends.     *)
LaneFitsWriter == CaptureTypeOK /\ NeverRefused
=============================================================================
