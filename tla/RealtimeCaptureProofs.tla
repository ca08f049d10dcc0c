----------------------- MODULE RealtimeCaptureProofs ------------------------
(***************************************************************************)
(* Theorems about RealtimeCapture, for any sources, transactions, capacity *)
(* of the channel and bounds.                                              *)
(*                                                                         *)
(* The inductive invariant follows a notification through the process.     *)
(* Types says that whatever is on its way is one that arrived; InOrder     *)
(* that its session only grows from the writer to the forwarder and that a *)
(* session has one source; Counted and Covered that the two tables say the *)
(* same but for the notification the writer is working on.                 *)
(*                                                                         *)
(* NoGaps, the second half, is about the line of a session: from the last  *)
(* notification its row counts, through what the channel and the forwarder *)
(* hold, to what its stream still delivers, every arrival is the next one. *)
(* It needs the first half, by which sessions only grow along that line    *)
(* and each has one source.                                                *)
(***************************************************************************)
EXTENDS RealtimeCapture, TLAPS

\* The assumptions, one by one.
LEMMA Bounds ==
    /\ \A n \in Configurations : n \in Nat /\ n >= 1
    /\ Capacity \in Nat /\ Capacity >= 1
    /\ MaxPublicReconnects \in Nat /\ MaxPublicReconnects >= 1
    /\ MaxEarly \in Nat /\ MaxArrivals \in Nat /\ MaxConnections \in Nat
    /\ MaxFailures \in Nat /\ MaxTime \in Nat /\ MaxStarts \in Nat /\ MaxStarts >= 1
    /\ TradesOf \in [Signatures -> Nat]
    /\ \A e \in Economics : e \in Nat /\ e # 0
BY CaptureAssumption, StoreAssumption DEF CaptureAssumption, StoreAssumption

USE Bounds

Messages == [session : Nat, source : Nat, signature : Signatures,
             economics : Economics, conn : Nat, nth : Nat]
Streams == [open : Nat, pending : Seq(Messages), generation : Nat, attempts : Nat]
Rows == [source : Nat, sequence : Nat, first : 0..MaxTime, last : 0..MaxTime,
         counted : Seq(Messages)]
Connections == [opened : 0..MaxTime, closed : 0..Never, arrived : Nat]

ProcessOK == process \in [state : {"up", "draining", "down"}, starts : 1..MaxStarts,
                          sources : Configurations]
WireOK ==
    /\ wire \in Seq(Connections)
    /\ \A i \in Sources : stream[i].open <= Len(wire)
    /\ unhealed \in Nat
    /\ spent \in [arrivals : 0..MaxArrivals, failures : 0..MaxFailures]
StreamOK ==
    /\ stream \in [Sources -> Streams]
    /\ \A i \in Sources : \A k \in 1..Len(stream[i].pending) : stream[i].pending[k].source = i
LaneOK ==
    /\ lane \in [phase : {"poll", "send"}, active : Sources, round : 0..N - 1,
                 reconnects : 0..MaxPublicReconnects, rebuilds : [Sources -> Nat],
                 lastKey : Nat \X Nat \X Nat, session : Nat, held : Notification]
    /\ lane.phase = "send" => lane.held \in Messages
ChannelOK == channel \in Seq(Messages) /\ Len(channel) <= Capacity
WriterOK ==
    /\ writer \in [phase : {"idle", "storing"}, session : Nat, row : Nat,
                   taken : Notification, part : Nat, at : 0..MaxTime]
    /\ writer.phase = "storing" => writer.taken \in Messages
StoreOK ==
    /\ clock \in 0..MaxTime
    /\ sessions \in Seq(Rows)
    /\ evidence \in [Trades -> [economics : Nat, at : 0..MaxTime]]
    /\ conflicts \subseteq Trades \X Economics

Types == /\ ProcessOK /\ WireOK /\ StreamOK /\ LaneOK /\ ChannelOK /\ WriterOK /\ StoreOK
         /\ process.state # "up" => lane = FreshLane
         /\ process.state = "down" => channel = <<>> /\ writer = FreshWriter

\* e may follow d on its way to the writer.
Follows(d, e) == d.session <= e.session /\ (d.session = e.session => d.source = e.source)

\* The session and the source the writer has a row for, as a notification.
Latest == sessions[writer.row]

InOrder ==
    /\ \A a \in 1..Len(channel) :
         /\ channel[a].session >= 1
         /\ \A b \in a..Len(channel) : Follows(channel[a], channel[b])
         /\ writer.session <= channel[a].session
         /\ writer.session = channel[a].session => Latest.source = channel[a].source
    /\ process.state = "up" =>
         /\ \A a \in 1..Len(channel) :
              /\ channel[a].session <= lane.session
              /\ channel[a].session = lane.session => channel[a].source = lane.lastKey[1]
         /\ writer.session <= lane.session
         /\ writer.session # 0 /\ writer.session = lane.session => Latest.source = lane.lastKey[1]
         /\ lane.session = 0 => lane.lastKey = NoKey
    /\ lane.phase = "send" => /\ lane.held.session = lane.session /\ lane.session >= 1
                              /\ lane.held.source = lane.lastKey[1]

\* The writer's row is the latest, and rows lie in the past.
RowsOK ==
    /\ writer.session = 0 => writer.phase = "idle"
    /\ writer.session # 0 => /\ writer.row = Len(sessions) /\ writer.row >= 1
                             /\ Latest.sequence = writer.session
    /\ \A r \in 1..Len(sessions) : /\ sessions[r].first <= sessions[r].last
                                   /\ sessions[r].last <= clock
                                   /\ Len(sessions[r].counted) >= 1

AllAccounted(d, parts) ==
    \A part \in 1..parts : Accounted(evidence, conflicts, <<d.signature, part>>, d.economics)

Counted ==
    /\ CountedThenStored
    /\ writer.session # 0 =>
         LET d == Latest.counted[Len(Latest.counted)]
         IN  IF writer.phase = "storing"
             THEN /\ d = writer.taken /\ writer.at = Latest.last
                  /\ writer.part \in 1..TradesOf[d.signature]
                  /\ AllAccounted(d, writer.part - 1)
             ELSE AllAccounted(d, TradesOf[d.signature])

IndInv == Types /\ InOrder /\ RowsOK /\ Counted /\ StoredIsCovered
-----------------------------------------------------------------------------
(* What the steps of the forwarder are to the rest of the process: it goes *)
(* on, keeping the session it is in, or delivers, or ends the process.     *)

Quiet ==
    /\ UNCHANGED <<clock, process, channel, writer, durable>>
    /\ lane.phase = "poll" /\ lane'.phase = "poll"
    /\ lane'.session = lane.session /\ lane'.lastKey = lane.lastKey

Delivers(i) ==
    \E s \in Streams, d \in Messages :
        /\ d.source = i /\ \A k \in 1..Len(s.pending) : s.pending[k].source = i
        /\ s.open <= Len(wire')
        /\ Deliver(i, s, d)

Ends == ProcessEnds /\ UNCHANGED <<clock, durable>>

\* What arrives is a sequence of messages of its source.
Carried(early, i) ==
    /\ early \in Seq(Messages) /\ Len(early) \in Nat
    /\ \A k \in 1..Len(early) : early[k].source = i

LEMMA ArrivingIsTyped ==
    ASSUME NEW c \in Nat, NEW i \in Nat, NEW before \in Nat, NEW most \in Nat,
           NEW early \in Arriving(c, i, before, most)
    PROVE  Carried(early, i)
<1>1. PICK n \in 0..most : early \in
         {[k \in 1..n |-> [session |-> 0, source |-> i,
                           signature |-> said[k][1], economics |-> said[k][2],
                           conn |-> c, nth |-> before + k]] :
              said \in [1..n -> Signatures \X Economics]}
  BY DEF Arriving
<1>2. PICK said \in [1..n -> Signatures \X Economics] :
         early = [k \in 1..n |-> [session |-> 0, source |-> i,
                                  signature |-> said[k][1], economics |-> said[k][2],
                                  conn |-> c, nth |-> before + k]]
  BY <1>1
<1> DEFINE message(k) == [session |-> 0, source |-> i,
                          signature |-> said[k][1], economics |-> said[k][2],
                          conn |-> c, nth |-> before + k]
<1>3. \A k \in 1..n : message(k) \in Messages /\ message(k).source = i
  <2> TAKE k \in 1..n
  <2>1. said[k] \in Signatures \X Economics
    OBVIOUS
  <2>2. said[k][1] \in Signatures /\ said[k][2] \in Economics /\ before + k \in Nat
    BY <2>1
  <2> QED BY <2>2 DEF Messages
<1>4. early = [k \in 1..n |-> message(k)]
  BY <1>2
<1> HIDE DEF message
<1>5. early \in [1..n -> Messages] /\ \A k \in 1..n : early[k].source = i
  BY <1>3, <1>4
<1>6. n \in Nat
  OBVIOUS
<1>7. early \in Seq(Messages) /\ Len(early) = n
  BY <1>5, <1>6
<1> QED BY <1>5, <1>6, <1>7 DEF Carried

\* The ranges that the proofs below calculate with.
LEMMA Ranges ==
    ASSUME Types
    PROVE  /\ N \in Nat \ {0} /\ Len(wire) \in Nat /\ Len(channel) \in Nat
           /\ \A i \in Sources : i \in Nat \ {0} /\ stream[i] \in Streams
           /\ \A c \in 1..Len(wire) : wire[c] \in Connections
           /\ \A a \in 1..Len(channel) : channel[a] \in Messages
           /\ \A r \in 1..Len(sessions) : sessions[r] \in Rows
           /\ clock \in 0..MaxTime /\ clock \in Nat
           /\ lane.active \in Sources /\ lane.session \in Nat /\ lane.round \in 0..N - 1
           /\ lane.rebuilds \in [Sources -> Nat] /\ lane.reconnects \in 0..MaxPublicReconnects
           /\ lane.phase \in {"poll", "send"}
<1>1. N \in Nat \ {0}
  BY DEF Types, ProcessOK, N
<1>2. \A i \in Sources : i \in Nat \ {0} /\ stream[i] \in Streams
  BY <1>1 DEF Types, StreamOK, Sources
<1>3. Len(wire) \in Nat /\ \A c \in 1..Len(wire) : wire[c] \in Connections
  BY DEF Types, WireOK
<1>4. Len(channel) \in Nat /\ \A a \in 1..Len(channel) : channel[a] \in Messages
  BY DEF Types, ChannelOK
<1>5. \A r \in 1..Len(sessions) : sessions[r] \in Rows
  BY DEF Types, StoreOK
<1>6. clock \in 0..MaxTime /\ clock \in Nat
  BY DEF Types, StoreOK
<1>7. /\ lane.active \in Sources /\ lane.session \in Nat /\ lane.round \in 0..N - 1
      /\ lane.rebuilds \in [Sources -> Nat] /\ lane.reconnects \in 0..MaxPublicReconnects
      /\ lane.phase \in {"poll", "send"}
  BY DEF Types, LaneOK
<1> QED BY <1>1, <1>2, <1>3, <1>4, <1>5, <1>6, <1>7

\* Closing connections keeps the record of them.
LEMMA CloseIsTyped ==
    ASSUME NEW w \in Seq(Connections), NEW cs, clock \in 0..MaxTime
    PROVE  Close(w, cs) \in Seq(Connections) /\ Len(Close(w, cs)) = Len(w)
<1>1. \A c \in 1..Len(w) : (IF c \in cs /\ w[c].closed = Never
                            THEN [w[c] EXCEPT !.closed = clock] ELSE w[c]) \in Connections
  <2> TAKE c \in 1..Len(w)
  <2>1. w[c] \in Connections
    OBVIOUS
  <2>2. clock \in 0..Never
    BY DEF Never
  <2>3. [w[c] EXCEPT !.closed = clock] \in Connections
    BY <2>1, <2>2 DEF Connections
  <2> QED BY <2>1, <2>3
<1>2. Close(w, cs) \in [1..Len(w) -> Connections]
  BY <1>1 DEF Close
<1> QED BY <1>2

-----------------------------------------------------------------------------
(* The first state. *)

LEMMA InitInv == Init => IndInv
<1> SUFFICES ASSUME Init PROVE IndInv
  OBVIOUS
<1> USE DEF Init
<1>1. N \in Nat \ {0} /\ process.sources = N
  BY DEF N
<1>2. ProcessOK /\ ChannelOK /\ StoreOK
  <2>1. \A t \in Trades : NotStored \in [economics : Nat, at : 0..MaxTime]
    BY DEF NotStored
  <2> QED BY <2>1 DEF ProcessOK, ChannelOK, StoreOK
<1>3. StreamOK
  BY DEF StreamOK, Streams, FreshStream
<1>4. WireOK
  BY DEF WireOK, FreshStream
<1>5. LaneOK
  BY <1>1 DEF LaneOK, FreshLane, NoKey, Nothing, Notification, Sources
<1>6. WriterOK
  BY DEF WriterOK, FreshWriter, Nothing, Notification
<1>7. Types
  BY <1>2, <1>3, <1>4, <1>5, <1>6 DEF Types
<1>8. InOrder
  BY DEF InOrder, FreshLane, FreshWriter, NoKey
<1>9. RowsOK /\ Counted
  BY DEF RowsOK, Counted, CountedThenStored, FreshWriter
<1>10. StoredIsCovered
  BY DEF StoredIsCovered, Stored, NotStored
<1> QED BY <1>7, <1>8, <1>9, <1>10 DEF IndInv
-----------------------------------------------------------------------------
(* Steps that write nothing. *)

\* What is said of the tables stands while they and the writer do, and when
\* the process ends.
LEMMA Unwritten ==
    ASSUME IndInv, UNCHANGED durable, clock' \in Nat, clock' >= clock,
           writer' = writer \/ writer' = FreshWriter
    PROVE  RowsOK' /\ Counted' /\ StoredIsCovered'
<1> USE DEF durable
<1>1. Types
  BY DEF IndInv
<1>2. StoredIsCovered' /\ CountedThenStored'
  BY DEF IndInv, Counted, StoredIsCovered, CountedThenStored
<1>3. \A r \in 1..Len(sessions) : sessions[r].last <= clock'
  <2> TAKE r \in 1..Len(sessions)
  <2>1. sessions[r].last <= clock /\ sessions[r] \in Rows /\ clock \in Nat
    BY <1>1, Ranges DEF IndInv, RowsOK
  <2>2. sessions[r].last \in Nat
    BY <2>1 DEF Rows
  <2> QED BY <2>1, <2>2
<1>4. CASE writer' = writer
  <2>1. Latest' = Latest
    BY <1>4 DEF Latest
  <2>2. RowsOK'
    BY <1>3, <1>4, <2>1 DEF IndInv, RowsOK
  <2>3. Counted'
    BY <1>2, <1>4, <2>1 DEF IndInv, Counted, AllAccounted
  <2> QED BY <1>2, <2>2, <2>3
<1>5. CASE writer' = FreshWriter
  <2>1. writer'.session = 0 /\ writer'.phase = "idle"
    BY <1>5 DEF FreshWriter
  <2>2. RowsOK'
    BY <1>3, <2>1 DEF IndInv, RowsOK
  <2>3. Counted'
    BY <1>2, <2>1 DEF Counted
  <2> QED BY <1>2, <2>2, <2>3
<1> QED BY <1>4, <1>5

\* Steps of the process that keep its sources keep the shape of what is
\* named after them.
LEMMA SourcesStay ==
    ASSUME process'.sources = process.sources
    PROVE  N' = N /\ Sources' = Sources /\ FreshLane' = FreshLane
BY DEF N, Sources, FreshLane

\* A started process is empty, and so is one that has ended.
LEMMA FreshIsTyped ==
    ASSUME N \in Nat \ {0}
    PROVE  /\ [i \in Sources |-> FreshStream] \in [Sources -> Streams]
           /\ FreshStream.open = 0 /\ FreshStream.pending = <<>>
           /\ FreshLane \in
                [phase : {"poll", "send"}, active : Sources, round : 0..N - 1,
                 reconnects : 0..MaxPublicReconnects, rebuilds : [Sources -> Nat],
                 lastKey : Nat \X Nat \X Nat, session : Nat, held : Notification]
           /\ FreshLane.phase = "poll"
           /\ FreshWriter \in [phase : {"idle", "storing"}, session : Nat, row : Nat,
                               taken : Notification, part : Nat, at : 0..MaxTime]
           /\ FreshWriter.phase = "idle"
<1>1. FreshStream \in Streams
  BY DEF FreshStream, Streams
<1>2. Nothing \in Notification
  BY DEF Nothing, Notification
<1> QED BY <1>1, <1>2 DEF FreshStream, FreshLane, FreshWriter, NoKey, Sources

LEMMA EndsInv ==
    ASSUME IndInv, Ends, wire' \in Seq(Connections), unhealed' \in Nat,
           spent' \in [arrivals : 0..MaxArrivals, failures : 0..MaxFailures]
    PROVE  IndInv'
<1> USE DEF Ends, ProcessEnds, durable
<1>1. Types /\ N \in Nat \ {0} /\ ProcessOK
  BY Ranges DEF IndInv, Types
<1>2. process' \in [state : {"up", "draining", "down"}, starts : 1..MaxStarts,
                    sources : Configurations]
      /\ process'.sources = process.sources /\ process'.state = "down"
  BY <1>1 DEF ProcessOK
<1>3. N' = N /\ Sources' = Sources /\ FreshLane' = FreshLane
  BY <1>2, SourcesStay
<1>4. ProcessOK' /\ ChannelOK' /\ StoreOK'
  <2>1. ProcessOK'
    BY <1>2 DEF ProcessOK
  <2>2. ChannelOK'
    BY DEF ChannelOK
  <2>3. StoreOK'
    BY <1>1 DEF StoreOK, Types
  <2> QED BY <2>1, <2>2, <2>3
<1>5. stream' = [i \in Sources |-> FreshStream] /\ lane' = FreshLane /\ writer' = FreshWriter
  OBVIOUS
<1>6. StreamOK' /\ LaneOK' /\ WriterOK'
  <2>1. stream' \in [Sources -> Streams] /\ \A i \in Sources : stream'[i].pending = <<>>
    BY <1>1, <1>5, FreshIsTyped
  <2>2. StreamOK'
    BY SMTT(30), <1>3, <2>1 DEF StreamOK
  <2>3. LaneOK'
    BY <1>1, <1>3, <1>5, FreshIsTyped DEF LaneOK
  <2>4. WriterOK'
    BY <1>1, <1>5, FreshIsTyped DEF WriterOK
  <2> QED BY <2>2, <2>3, <2>4
<1>7. WireOK'
  <2>1. \A i \in Sources : stream'[i].open = 0
    BY <1>1, <1>5, FreshIsTyped
  <2>2. Len(wire') \in Nat
    OBVIOUS
  <2> QED BY SMTT(30), <1>3, <2>1, <2>2 DEF WireOK
<1>8. Types'
  BY <1>2, <1>3, <1>4, <1>5, <1>6, <1>7 DEF Types
<1>9. InOrder'
  BY <1>2, <1>5, <1>1, FreshIsTyped DEF InOrder
<1>10. RowsOK' /\ Counted' /\ StoredIsCovered'
  BY <1>1, <1>5, Unwritten, Ranges, SMTT(30)
<1> QED BY <1>8, <1>9, <1>10 DEF IndInv

\* The forwarder goes on with the session it is in.
LEMMA QuietInv ==
    ASSUME IndInv, process.state = "up", Quiet, StreamOK', WireOK', LaneOK'
    PROVE  IndInv'
<1> USE DEF Quiet, durable
<1>1. N' = N /\ Sources' = Sources
  BY DEF N, Sources
<1>2. Types'
  BY DEF IndInv, Types, ProcessOK, ChannelOK, WriterOK, StoreOK
<1>3. Latest' = Latest
  BY DEF Latest
<1>4. InOrder'
  BY <1>3 DEF IndInv, InOrder
<1>5. Types
  BY DEF IndInv
<1>6. RowsOK' /\ Counted' /\ StoredIsCovered'
  BY <1>5, Unwritten, Ranges
<1> QED BY <1>2, <1>4, <1>6 DEF IndInv
\* One stream takes the place of another.
LEMMA StreamChanged ==
    ASSUME StreamOK, NEW i \in Sources, NEW s \in Streams, Sources' = Sources,
           \A k \in 1..Len(s.pending) : s.pending[k].source = i,
           stream' = [stream EXCEPT ![i] = s]
    PROVE  StreamOK'
<1>1. stream \in [Sources -> Streams]
  BY DEF StreamOK
<1>2. stream' \in [Sources -> Streams]
  BY <1>1
<1>3. \A j \in Sources : stream'[j] = IF j = i THEN s ELSE stream[j]
  BY <1>1
<1>4. \A j \in Sources : \A k \in 1..Len(stream'[j].pending) : stream'[j].pending[k].source = j
  <2> TAKE j \in Sources
  <2>1. CASE j = i
    BY <1>3, <2>1
  <2>2. CASE j # i
    BY <1>3, <2>2 DEF StreamOK
  <2> QED BY <2>1, <2>2
<1> QED BY <1>2, <1>4 DEF StreamOK

\* The forwarder takes a notification over, in the session it belongs to.
LEMMA DeliverInv ==
    ASSUME IndInv, process.state = "up", NEW i \in Sources, Delivers(i),
           wire' \in Seq(Connections), Len(wire') >= Len(wire),
           spent' \in [arrivals : 0..MaxArrivals, failures : 0..MaxFailures]
    PROVE  IndInv'
<1>1. Types
  BY DEF IndInv
<1>2. PICK s \in Streams, d \in Messages :
        /\ d.source = i /\ \A k \in 1..Len(s.pending) : s.pending[k].source = i
        /\ s.open <= Len(wire')
        /\ Deliver(i, s, d)
  BY DEF Delivers
<1>3. /\ lane' = BindSession(i, SessionKey(i, s), d)
      /\ stream' = [stream EXCEPT ![i] = s] /\ unhealed' = 0
      /\ UNCHANGED <<clock, process, channel, writer, durable>>
  BY <1>2 DEF Deliver
<1>4. N' = N /\ Sources' = Sources /\ N \in Nat \ {0} /\ i \in Nat \ {0}
  BY <1>1, <1>3, Ranges DEF N, Sources
<1> DEFINE key == SessionKey(i, s)
           session == SessionOf(key)
<1>5. key \in Nat \X Nat \X Nat /\ key[1] = i
  <2>1. s.generation \in Nat /\ lane.rebuilds[i] \in Nat
    BY <1>1, Ranges DEF Streams
  <2> QED BY <2>1, <1>4 DEF SessionKey
<1> DEFINE current == lane.session
<1>0. current \in Nat
  BY <1>1, Ranges
<1>6. session \in Nat /\ session \in {current, current + 1}
      /\ (session = current => lane.lastKey = key)
      /\ (lane.lastKey # key => session = current + 1)
      /\ (lane.lastKey = key => session = current)
  BY <1>0 DEF SessionOf
<1>7. session >= 1
  <2>1. CASE lane.lastKey = key
    <3>1. lane.session # 0
      <4>1. lane.lastKey # NoKey
        BY <2>1, <1>5, <1>4 DEF NoKey
      <4> QED BY <4>1 DEF IndInv, InOrder
    <3> QED BY <2>1, <3>1, <1>6, <1>0
  <2>2. CASE lane.lastKey # key
    BY <2>2, <1>0, <1>6
  <2> QED BY <2>1, <2>2
<1> DEFINE held == [d EXCEPT !.session = session]
<1>8. held \in Messages /\ held.session = session /\ held.source = i
  BY <1>2, <1>6 DEF Messages
<1>9. /\ lane'.phase = "send" /\ lane'.active = i /\ lane'.round = 0 /\ lane'.reconnects = 0
      /\ lane'.rebuilds = lane.rebuilds /\ lane'.lastKey = key
      /\ lane'.session = session /\ lane'.held = held
      /\ lane' = [phase |-> "send", active |-> i, round |-> 0, reconnects |-> 0,
                  rebuilds |-> lane.rebuilds, lastKey |-> key, session |-> session, held |-> held]
  <2>1. LaneOK
    BY <1>1 DEF Types
  <2> HIDE DEF key, session, held
  <2>2. lane' = [lane EXCEPT !.phase = "send", !.active = i, !.round = 0, !.reconnects = 0,
                             !.lastKey = key, !.session = session, !.held = held]
    BY <1>3 DEF BindSession, key, session, held
  <2> QED BY <2>1, <2>2 DEF LaneOK
<1> HIDE DEF key, session, held
<1>10. LaneOK'
  <2>1. held \in Notification /\ held \in Messages
    BY <1>8 DEF Messages, Notification
  <2>2. 0 \in 0..N - 1 /\ 0 \in 0..MaxPublicReconnects /\ lane.rebuilds \in [Sources -> Nat]
    BY SMTT(30), <1>1, <1>4, Ranges
  <2> QED BY <1>4, <1>5, <1>6, <1>9, <2>1, <2>2 DEF LaneOK
<1>11. StreamOK'
  <2>1. StreamOK
    BY <1>1 DEF Types
  <2> QED BY <1>2, <1>3, <1>4, <2>1, StreamChanged
<1>12. WireOK'
  <2>1. \A j \in Sources : stream'[j].open <= Len(wire')
    <3> TAKE j \in Sources
    <3>1. stream[j].open <= Len(wire) /\ stream[j].open \in Nat /\ stream'[j] = IF i = j THEN s ELSE stream[j]
      BY <1>1, <1>3, Ranges DEF Types, WireOK, Streams, StreamOK
    <3>2. Len(wire) \in Nat /\ Len(wire') \in Nat
      BY <1>1, Ranges
    <3> QED BY <3>1, <3>2, <1>2
  <2> QED BY <1>3, <1>4, <2>1 DEF WireOK
<1>13. Types'
  BY <1>1, <1>3, <1>10, <1>11, <1>12 DEF Types, ProcessOK, ChannelOK, WriterOK, StoreOK, durable
<1>14. Latest' = Latest
  BY <1>3 DEF Latest, durable
<1>15. InOrder'
  <2>0. session = lane.session => lane.lastKey[1] = i
    BY <1>5, <1>6
  <2>1. \A a \in 1..Len(channel) : /\ channel[a].session <= session
                                   /\ channel[a].session = session => channel[a].source = i
    <3> TAKE a \in 1..Len(channel)
    <3>1. channel[a] \in Messages /\ channel[a].session \in Nat
      BY <1>1, Ranges DEF Messages
    <3>2. channel[a].session <= lane.session
          /\ (channel[a].session = lane.session => channel[a].source = lane.lastKey[1])
      BY DEF IndInv, InOrder
    <3> QED BY <3>1, <3>2, <2>0, <1>6, <1>0, SMTT(30)
  <2>2. writer.session <= session /\ (writer.session # 0 /\ writer.session = session => Latest.source = i)
    <3>1. writer.session \in Nat
      BY <1>1 DEF Types, WriterOK
    <3>2. writer.session <= lane.session
          /\ (writer.session # 0 /\ writer.session = lane.session => Latest.source = lane.lastKey[1])
      BY DEF IndInv, InOrder
    <3> QED BY SMTT(30), <3>1, <3>2, <2>0, <1>6, <1>0
  <2>3. channel' = channel /\ writer' = writer /\ lane'.session = session /\ lane'.lastKey[1] = i
        /\ lane'.held.session = session /\ lane'.held.source = i /\ session # 0
        /\ Latest' = Latest /\ session >= 1
    BY <1>3, <1>5, <1>6, <1>7, <1>8, <1>9, <1>14
  <2>4. \A a \in 1..Len(channel) :
          /\ channel[a].session >= 1
          /\ \A b \in a..Len(channel) : Follows(channel[a], channel[b])
          /\ writer.session <= channel[a].session
          /\ writer.session = channel[a].session => Latest.source = channel[a].source
    BY DEF IndInv, InOrder
  <2>5. (\A a \in 1..Len(channel) :
          /\ channel[a].session >= 1
          /\ \A b \in a..Len(channel) : Follows(channel[a], channel[b])
          /\ writer.session <= channel[a].session
          /\ writer.session = channel[a].session => Latest.source = channel[a].source)'
    BY <2>3, <2>4 DEF Follows
  <2> QED BY ZenonT(40), <2>1, <2>2, <2>3, <2>5 DEF InOrder
<1>16. RowsOK' /\ Counted' /\ StoredIsCovered'
  BY <1>1, <1>3, Unwritten, Ranges
<1> QED BY <1>13, <1>15, <1>16 DEF IndInv

-----------------------------------------------------------------------------
(* A failure of the forwarder: the next source, a rebuilt stream, or the   *)
(* end of the process.                                                     *)

LEMMA NextSourceInv ==
    ASSUME IndInv, process.state = "up", lane.phase = "poll",
           NEW i \in Sources, NEW s \in Streams,
           \A k \in 1..Len(s.pending) : s.pending[k].source = i,
           NEW w \in Seq(Connections), Len(w) = Len(wire), s.open <= Len(w),
           spent' \in [arrivals : 0..MaxArrivals, failures : 0..MaxFailures],
           NextSource(i, s, w), UNCHANGED <<clock, durable>>
    PROVE  IndInv'
<1>1. Types
  BY DEF IndInv
<1> USE DEF NextSource
<1>2. N' = N /\ Sources' = Sources /\ N \in Nat \ {0} /\ i \in 1..N
      /\ lane.active \in Sources /\ lane.round \in 0..N - 1
  BY <1>1, Ranges DEF N, Sources
<1>3. (i % N) + 1 \in Sources
  <2>1. i % N \in 0..N - 1
    <3>1. i \in Nat /\ N \in Nat /\ N > 0
      BY <1>2, SMTT(30)
    <3> HIDE DEF NextSource
    <3> QED BY <3>1
  <2> HIDE DEF NextSource
  <2> QED BY <2>1, <1>2 DEF Sources
<1>4. LaneOK'
  <2>1. LaneOK /\ lane.round + 1 \in 0..N - 1
    BY <1>1, <1>2, SMTT(30) DEF Types
  <2>2. /\ lane'.phase = lane.phase /\ lane'.held = lane.held
        /\ lane' = [phase |-> lane.phase, active |-> (i % N) + 1, round |-> lane.round + 1,
                    reconnects |-> lane.reconnects, rebuilds |-> lane.rebuilds,
                    lastKey |-> lane.lastKey, session |-> lane.session, held |-> lane.held]
    BY <2>1 DEF LaneOK
  <2> QED BY ZenonT(40), <1>2, <1>3, <2>1, <2>2 DEF LaneOK
<1>5. Quiet
  BY <1>1 DEF Quiet, Types, LaneOK
<1>6. StreamOK'
  <2>1. StreamOK
    BY <1>1 DEF Types
  <2>2. stream' = [stream EXCEPT ![i] = s]
    OBVIOUS
  <2> QED BY <1>2, <2>1, <2>2, StreamChanged
<1>7. WireOK'
  <2>1. wire' \in Seq(Connections) /\ Len(wire') = Len(wire)
    BY <1>1, CloseIsTyped, Ranges
  <2>2. \A j \in Sources : stream'[j].open <= Len(wire')
    BY <2>1, <1>1 DEF Types, WireOK, StreamOK
  <2> QED BY <1>1, <1>2, <2>1, <2>2 DEF WireOK, Types
<1> QED BY <1>4, <1>5, <1>6, <1>7, QuietInv

LEMMA RebuildInv ==
    ASSUME IndInv, process.state = "up", lane.phase = "poll",
           NEW i \in Sources, NEW w \in Seq(Connections), Len(w) = Len(wire),
           NEW reconnects \in 0..MaxPublicReconnects,
           spent' \in [arrivals : 0..MaxArrivals, failures : 0..MaxFailures],
           RebuildStream(i, w, reconnects), UNCHANGED <<clock, durable>>
    PROVE  IndInv'
<1>1. Types
  BY DEF IndInv
<1> USE DEF RebuildStream
<1>2. N' = N /\ Sources' = Sources /\ N \in Nat \ {0} /\ 0 \in 0..N - 1
  <2>1. N \in Nat \ {0}
    BY <1>1, Ranges
  <2> QED BY <2>1, SMTT(30) DEF N, Sources
<1>3. LaneOK'
  <2>1. LaneOK
    BY <1>1 DEF Types
  <2> DEFINE rebuilds == [lane.rebuilds EXCEPT ![i] = @ + 1]
  <2>2. rebuilds \in [Sources -> Nat]
    <3>1. lane.rebuilds \in [Sources -> Nat]
      BY <1>1, Ranges
    <3> HIDE DEF RebuildStream
    <3> QED BY SMTT(30), <3>1
  <2>3. /\ lane'.phase = lane.phase /\ lane'.held = lane.held
        /\ lane' = [phase |-> lane.phase, active |-> i, round |-> 0,
                    reconnects |-> reconnects, rebuilds |-> rebuilds,
                    lastKey |-> lane.lastKey, session |-> lane.session, held |-> lane.held]
    BY <2>1 DEF LaneOK
  <2> HIDE DEF rebuilds, RebuildStream
  <2> QED BY <1>2, <2>1, <2>2, <2>3 DEF LaneOK
<1>4. Quiet
  BY <1>1 DEF Quiet, Types, LaneOK
<1>5. StreamOK'
  <2>1. StreamOK
    BY <1>1 DEF Types
  <2>2. stream' = [stream EXCEPT ![i] = FreshStream]
    OBVIOUS
  <2>3. FreshStream \in Streams /\ \A k \in 1..Len(FreshStream.pending) : FALSE
    BY DEF FreshStream, Streams
  <2> HIDE DEF RebuildStream
  <2> QED BY <1>2, <2>1, <2>2, <2>3, StreamChanged
<1>6. WireOK'
  <2>1. wire' \in Seq(Connections) /\ Len(wire') = Len(wire)
    BY <1>1, CloseIsTyped, Ranges
  <2>2. \A j \in Sources : stream'[j].open <= Len(wire')
    <3> TAKE j \in Sources
    <3>1. stream[j].open <= Len(wire) /\ Len(wire) \in Nat /\ FreshStream.open = 0
          /\ stream \in [Sources -> Streams]
      BY <1>1, Ranges DEF Types, WireOK, FreshStream, StreamOK
    <3>2. stream'[j] = IF j = i THEN FreshStream ELSE stream[j]
      BY <3>1
    <3> QED BY SMTT(30), <2>1, <3>1, <3>2
  <2>3. unhealed' \in Nat
    BY <1>1, SMTT(30) DEF Types, WireOK
  <2> HIDE DEF RebuildStream
  <2> QED BY <1>2, <2>1, <2>2, <2>3 DEF WireOK
<1> QED BY <1>3, <1>4, <1>5, <1>6, QuietInv

LEMMA ForwarderEndsInv ==
    ASSUME IndInv, NEW w \in Seq(Connections), ForwarderEnds(w), UNCHANGED <<clock, durable>>,
           spent' \in [arrivals : 0..MaxArrivals, failures : 0..MaxFailures]
    PROVE  IndInv'
<1>1. clock \in 0..MaxTime
  BY Ranges DEF IndInv
<1>2. wire' \in Seq(Connections) /\ unhealed' \in Nat /\ Ends
  BY <1>1, CloseIsTyped DEF ForwarderEnds, LaneEnds, Ends
<1> QED BY <1>2, EndsInv

\* What an error answers, retryable or not, keeps the invariant.
LEMMA ErrorInv ==
    ASSUME IndInv, process.state = "up", lane.phase = "poll",
           NEW i \in Sources, NEW s \in Streams,
           \A k \in 1..Len(s.pending) : s.pending[k].source = i,
           NEW w \in Seq(Connections), Len(w) = Len(wire), s.open <= Len(w),
           spent' \in [arrivals : 0..MaxArrivals, failures : 0..MaxFailures],
           RetryableError(i, s, w) \/ InvalidResponse(i, w), UNCHANGED <<clock, durable>>
    PROVE  IndInv'
<1>1. CASE NextSource(i, s, w)
  BY <1>1, NextSourceInv
<1>2. CASE RetryPublic(i, w)
  <2>1. lane.reconnects + 1 \in 0..MaxPublicReconnects
    <3>1. lane.reconnects \in 0..MaxPublicReconnects
      BY Ranges DEF IndInv
    <3> QED BY <1>2, <3>1 DEF RetryPublic
  <2> QED BY <1>2, <2>1, RebuildInv DEF RetryPublic
<1>3. CASE RoundFails(w)
  BY <1>3, ForwarderEndsInv DEF RoundFails
<1>4. CASE InvalidResponse(i, w) /\ SinglePublic
  <2>1. 0 \in 0..MaxPublicReconnects
    OBVIOUS
  <2> QED BY <1>4, <2>1, RebuildInv DEF InvalidResponse
<1>5. CASE InvalidResponse(i, w) /\ ~SinglePublic
  BY <1>5, ForwarderEndsInv DEF InvalidResponse
<1> QED BY <1>1, <1>2, <1>3, <1>4, <1>5 DEF RetryableError
-----------------------------------------------------------------------------
(* The forwarder, one step for each of its actions. *)

\* One stream changes, and nothing of the lane.
LEMMA StreamMoves ==
    ASSUME IndInv, process.state = "up", lane.phase = "poll",
           NEW i \in Sources, NEW s \in Streams,
           \A k \in 1..Len(s.pending) : s.pending[k].source = i,
           wire' \in Seq(Connections), Len(wire') >= Len(wire), s.open <= Len(wire'),
           spent' \in [arrivals : 0..MaxArrivals, failures : 0..MaxFailures],
           stream' = [stream EXCEPT ![i] = s],
           UNCHANGED <<clock, process, lane, channel, writer, durable, unhealed>>
    PROVE  IndInv'
<1>1. Types
  BY DEF IndInv
<1>2. N' = N /\ Sources' = Sources /\ Quiet
  BY DEF N, Sources, Quiet
<1>3. LaneOK'
  BY <1>1, <1>2 DEF Types, LaneOK
<1>4. StreamOK'
  BY <1>1, <1>2, StreamChanged DEF Types
<1>5. WireOK'
  <2>1. \A j \in Sources : stream'[j].open <= Len(wire')
    <3> TAKE j \in Sources
    <3>1. stream[j].open <= Len(wire) /\ stream[j].open \in Nat /\ stream \in [Sources -> Streams]
      BY <1>1, Ranges DEF Types, WireOK, Streams, StreamOK
    <3>2. stream'[j] = IF i = j THEN s ELSE stream[j]
      BY <3>1
    <3>3. Len(wire) \in Nat /\ Len(wire') \in Nat
      BY <1>1, Ranges
    <3> QED BY <3>1, <3>2, <3>3
  <2>2. unhealed' \in Nat
    BY <1>1 DEF Types, WireOK
  <2> QED BY <1>2, <2>1, <2>2 DEF WireOK
<1> QED BY <1>2, <1>3, <1>4, <1>5, QuietInv

\* What a polled stream is, with what may have arrived on it.
Ready(i) ==
    /\ process.state = "up" /\ lane.phase = "poll" /\ i \in Nat
    /\ stream[i] \in Streams /\ stream[i].open <= Len(wire) /\ stream \in [Sources -> Streams]
    /\ stream[i].open \in Nat /\ stream[i].pending \in Seq(Messages)
    /\ stream[i].generation \in Nat /\ stream[i].attempts \in Nat
    /\ \A k \in 1..Len(stream[i].pending) :
          stream[i].pending[k].source = i /\ stream[i].pending[k] \in Messages
    /\ wire \in Seq(Connections) /\ Len(wire) \in Nat
    /\ spent \in [arrivals : 0..MaxArrivals, failures : 0..MaxFailures]
    /\ clock \in 0..MaxTime

LEMMA Polled == ASSUME IndInv, NEW i \in Sources, Polling(i) PROVE Ready(i)
<1>1. Types
  BY DEF IndInv
<1>2. process.state = "up" /\ lane.phase = "poll"
  BY DEF Polling
<1>3. stream[i] \in Streams /\ i \in Nat /\ Len(wire) \in Nat /\ clock \in 0..MaxTime
  BY <1>1, Ranges
<1>4. /\ stream[i].open <= Len(wire) /\ stream \in [Sources -> Streams] /\ wire \in Seq(Connections)
      /\ \A k \in 1..Len(stream[i].pending) : stream[i].pending[k].source = i
      /\ spent \in [arrivals : 0..MaxArrivals, failures : 0..MaxFailures]
  BY <1>1 DEF Types, WireOK, StreamOK
<1>5. stream[i].open \in Nat /\ stream[i].pending \in Seq(Messages)
      /\ stream[i].generation \in Nat /\ stream[i].attempts \in Nat
  BY <1>3 DEF Streams
<1> QED BY SMTT(30), <1>2, <1>3, <1>4, <1>5 DEF Ready

\* A connection that carries more notifications is one.
LEMMA CarriesMore ==
    ASSUME NEW w \in Seq(Connections), NEW c \in 1..Len(w), NEW count \in Nat
    PROVE  LET more == [w EXCEPT ![c].arrived = @ + count]
           IN  more \in Seq(Connections) /\ Len(more) = Len(w)
<1>1. w[c] \in Connections
  OBVIOUS
<1> DEFINE n == w[c].arrived + count
<1>2. n \in Nat
  BY <1>1, SMTT(30) DEF Connections
<1> HIDE DEF n
<1>3. [w[c] EXCEPT !.arrived = n] \in Connections
  BY <1>1, <1>2 DEF Connections
<1>4. [w EXCEPT ![c].arrived = @ + count] = [w EXCEPT ![c] = [w[c] EXCEPT !.arrived = n]]
  BY DEF n
<1> DEFINE new == [w[c] EXCEPT !.arrived = n]
<1> HIDE DEF n, new
<1>5. [w EXCEPT ![c] = new] \in Seq(Connections) /\ Len([w EXCEPT ![c] = new]) = Len(w)
  BY <1>3 DEF new
<1> QED BY <1>4, <1>5 DEF new

\* The bounds on what may arrive and fail.
LEMMA SpentIsTyped ==
    ASSUME spent \in [arrivals : 0..MaxArrivals, failures : 0..MaxFailures],
           NEW count \in Nat, Arrive(count) \/ Fail(count)
    PROVE  spent' \in [arrivals : 0..MaxArrivals, failures : 0..MaxFailures]
BY DEF Arrive, Fail

LEMMA PopPendingInv ==
    ASSUME IndInv, NEW i \in Sources, PopPending(i) PROVE IndInv'
<1> DEFINE p == stream[i].pending
           s == [stream[i] EXCEPT !.pending = Tail(@)]
<1>1. /\ Polling(i) /\ p # <<>> /\ UNCHANGED <<wire, spent>>
      /\ Deliver(i, s, Head(p))
  BY DEF PopPending
<1>2. Ready(i)
  BY <1>1, Polled
<1>3. p \in Seq(Messages) /\ \A k \in 1..Len(p) : p[k].source = i
  BY <1>2 DEF Ready
<1>4. s \in Streams /\ s.open = stream[i].open /\ s.pending = Tail(p)
  <2>1. Tail(p) \in Seq(Messages) /\ stream[i] \in Streams
    BY <1>1, <1>2, <1>3, SMTT(30) DEF Ready
  <2> DEFINE rest == Tail(p)
  <2>2. s = [stream[i] EXCEPT !.pending = rest]
    OBVIOUS
  <2> HIDE DEF rest
  <2> QED BY <2>1, <2>2 DEF Streams, rest
<1> HIDE DEF p, s
<1>5. Head(p) \in Messages /\ Head(p).source = i
  <2>1. Head(p) = p[1] /\ 1 \in 1..Len(p)
    BY <1>1, <1>3
  <2> QED BY <1>3, <2>1
<1>6. \A k \in 1..Len(s.pending) : s.pending[k].source = i
  <2>1. \A k \in 1..Len(Tail(p)) : Tail(p)[k] = p[k + 1] /\ k + 1 \in 1..Len(p)
    BY <1>1, <1>3
  <2> QED BY <1>3, <1>4, <2>1
<1>7. Delivers(i)
  <2>1. s.open <= Len(wire')
    BY <1>1, <1>2, <1>4 DEF Ready
  <2> QED BY <1>1, <1>4, <1>5, <1>6, <2>1 DEF Delivers
<1>8. /\ process.state = "up" /\ wire' \in Seq(Connections) /\ Len(wire') >= Len(wire)
      /\ spent' \in [arrivals : 0..MaxArrivals, failures : 0..MaxFailures]
  BY <1>1, <1>2 DEF Ready
<1> QED BY <1>7, <1>8, DeliverInv

LEMMA ConnectInv ==
    ASSUME IndInv, NEW i \in Sources, Connect(i) PROVE IndInv'
<1>1. Polling(i)
  BY DEF Connect
<1>2. PICK early \in Arriving(Len(wire) + 1, i, 0, MaxEarly) :
        /\ Arrive(Len(early))
        /\ stream' = [stream EXCEPT ![i] =
               [open |-> Len(wire) + 1, pending |-> early,
                generation |-> @.generation + 1, attempts |-> 0]]
        /\ wire' = Append(wire, [opened |-> clock, closed |-> Never, arrived |-> Len(early)])
  BY DEF Connect
<1>3. UNCHANGED <<clock, process, lane, channel, writer, durable, unhealed>>
  BY DEF Connect
<1>4. Ready(i)
  BY <1>1, Polled
<1>5. early \in Seq(Messages) /\ Len(early) \in Nat /\ \A k \in 1..Len(early) : early[k].source = i
  <2> DEFINE c == Len(wire) + 1
  <2>1. c \in Nat /\ i \in Nat /\ 0 \in Nat /\ MaxEarly \in Nat
    BY <1>4 DEF Ready
  <2>2. early \in Arriving(c, i, 0, MaxEarly)
    BY <1>2
  <2> HIDE DEF c
  <2>3. Carried(early, i)
    BY <2>1, <2>2, ArrivingIsTyped
  <2> QED BY <2>3 DEF Carried
<1> DEFINE g == stream[i].generation + 1
           s == [open |-> Len(wire) + 1, pending |-> early, generation |-> g, attempts |-> 0]
           c == [opened |-> clock, closed |-> Never, arrived |-> Len(early)]
<1>6. s \in Streams /\ s.pending = early /\ s.open = Len(wire) + 1
  <2>1. g \in Nat /\ Len(wire) + 1 \in Nat
    BY SMTT(30), <1>4 DEF Ready
  <2> HIDE DEF g
  <2> QED BY <1>5, <2>1 DEF Streams
<1>7. c \in Connections
  <2>1. clock \in 0..MaxTime /\ Never \in 0..Never
    BY <1>4, SMTT(30) DEF Ready, Never
  <2> QED BY <1>5, <2>1 DEF Connections
<1>8. stream' = [stream EXCEPT ![i] = s]
  BY <1>2, <1>4 DEF Ready
<1>9. wire' = Append(wire, c)
  BY <1>2
<1> HIDE DEF s, c
<1>10. wire' \in Seq(Connections) /\ Len(wire') = Len(wire) + 1
  BY <1>4, <1>7, <1>9 DEF Ready
<1>11. /\ process.state = "up" /\ lane.phase = "poll"
       /\ spent' \in [arrivals : 0..MaxArrivals, failures : 0..MaxFailures]
  BY <1>2, <1>4, <1>5, SpentIsTyped DEF Ready
<1>12. Len(wire') >= Len(wire) /\ s.open <= Len(wire')
  BY <1>4, <1>6, <1>10 DEF Ready
<1>13. \A k \in 1..Len(s.pending) : s.pending[k].source = i
  BY <1>5, <1>6
<1> QED BY <1>3, <1>6, <1>8, <1>10, <1>11, <1>12, <1>13, StreamMoves

LEMMA ConnectFailsInv ==
    ASSUME IndInv, NEW i \in Sources, ConnectFails(i) PROVE IndInv'
<1>1. Polling(i) /\ Fail(0) /\ UNCHANGED <<clock, durable>>
  BY DEF ConnectFails
<1>2. Ready(i)
  BY <1>1, Polled
<1> DEFINE s == [stream[i] EXCEPT !.attempts = @ + 1]
<1>3. s \in Streams /\ s.pending = stream[i].pending /\ s.open = stream[i].open
  <2> DEFINE a == stream[i].attempts + 1
  <2>1. a \in Nat /\ s = [stream[i] EXCEPT !.attempts = a] /\ stream[i] \in Streams
    BY <1>2, SMTT(30) DEF Ready
  <2> HIDE DEF a, s
  <2> QED BY <2>1 DEF Streams
<1>4. \/ /\ stream' = [stream EXCEPT ![i] = s]
         /\ UNCHANGED <<process, lane, channel, writer, wire, unhealed>>
      \/ RetryableError(i, s, wire) \/ InvalidResponse(i, wire)
  BY DEF ConnectFails
<1> HIDE DEF s
<1>5. /\ process.state = "up" /\ lane.phase = "poll" /\ wire \in Seq(Connections)
      /\ s.open <= Len(wire) /\ Len(wire) >= Len(wire)
      /\ \A k \in 1..Len(s.pending) : s.pending[k].source = i
      /\ spent' \in [arrivals : 0..MaxArrivals, failures : 0..MaxFailures]
  BY SMTT(30), <1>1, <1>2, <1>3, SpentIsTyped DEF Ready
<1>6. CASE /\ stream' = [stream EXCEPT ![i] = s]
           /\ UNCHANGED <<process, lane, channel, writer, wire, unhealed>>
  BY <1>1, <1>3, <1>5, <1>6, StreamMoves
<1>7. CASE RetryableError(i, s, wire) \/ InvalidResponse(i, wire)
  BY <1>1, <1>3, <1>5, <1>7, ErrorInv
<1> QED BY <1>4, <1>6, <1>7

LEMMA FrameInv ==
    ASSUME IndInv, NEW i \in Sources, Frame(i) PROVE IndInv'
<1> DEFINE c == stream[i].open
<1>1. /\ Polling(i) /\ c # 0 /\ Arrive(1)
      /\ wire' = [wire EXCEPT ![c].arrived = @ + 1]
  BY DEF Frame, Reading
<1>2. Ready(i)
  BY <1>1, Polled
<1>3. PICK frame \in Arriving(c, i, wire[c].arrived, 1) :
        Len(frame) = 1 /\ Deliver(i, stream[i], frame[1])
  BY DEF Frame
<1>4. c \in 1..Len(wire) /\ c \in Nat /\ i \in Nat /\ wire \in Seq(Connections)
  BY <1>1, <1>2, SMTT(30) DEF Ready
<1> HIDE DEF c
<1>5. wire[c].arrived \in Nat
  <2>1. wire[c] \in Connections
    BY <1>4
  <2> QED BY <2>1 DEF Connections
<1>6. frame \in Seq(Messages) /\ \A k \in 1..Len(frame) : frame[k].source = i
  <2> DEFINE before == wire[c].arrived
  <2>1. before \in Nat /\ 1 \in Nat /\ c \in Nat /\ i \in Nat
    BY <1>4, <1>5
  <2>2. frame \in Arriving(c, i, before, 1)
    BY <1>3
  <2> HIDE DEF before
  <2>3. Carried(frame, i)
    BY <2>1, <2>2, ArrivingIsTyped
  <2> QED BY <2>3 DEF Carried
<1>7. frame[1] \in Messages /\ frame[1].source = i
  BY <1>3, <1>6
<1>8. wire' \in Seq(Connections) /\ Len(wire') = Len(wire)
  BY <1>1, <1>4, CarriesMore
<1>9. Delivers(i)
  BY <1>2, <1>3, <1>7, <1>8 DEF Delivers, Ready
<1>10. /\ process.state = "up" /\ Len(wire') >= Len(wire)
       /\ spent' \in [arrivals : 0..MaxArrivals, failures : 0..MaxFailures]
  <2>1. spent \in [arrivals : 0..MaxArrivals, failures : 0..MaxFailures]
    BY <1>2 DEF Ready
  <2>2. spent' \in [arrivals : 0..MaxArrivals, failures : 0..MaxFailures]
    BY <1>1, <2>1, SpentIsTyped
  <2> QED BY <1>2, <1>4, <1>8, <2>2 DEF Ready
<1> QED BY <1>8, <1>9, <1>10, DeliverInv

LEMMA MalformedFrameInv ==
    ASSUME IndInv, NEW i \in Sources, MalformedFrame(i) PROVE IndInv'
<1>1. Polling(i) /\ Fail(0) /\ InvalidResponse(i, wire) /\ UNCHANGED <<clock, durable>>
  BY DEF MalformedFrame, Reading
<1>2. Ready(i)
  BY <1>1, Polled
<1>3. /\ process.state = "up" /\ lane.phase = "poll" /\ wire \in Seq(Connections)
      /\ stream[i] \in Streams /\ stream[i].open <= Len(wire)
      /\ \A k \in 1..Len(stream[i].pending) : stream[i].pending[k].source = i
      /\ spent' \in [arrivals : 0..MaxArrivals, failures : 0..MaxFailures]
  BY <1>1, <1>2, SpentIsTyped DEF Ready
<1> QED BY <1>1, <1>3, ErrorInv

\* What comes before the answer to a changed subscription.
LEMMA ReconcilesTo ==
    ASSUME IndInv, NEW i \in Sources, Reading(i),
           NEW early \in Arriving(stream[i].open, i, wire[stream[i].open].arrived, MaxEarly)
    PROVE  LET w == [wire EXCEPT ![stream[i].open].arrived = @ + Len(early)]
           IN  /\ Ready(i) /\ Len(early) \in Nat
               /\ early \in Seq(Messages) /\ \A k \in 1..Len(early) : early[k].source = i
               /\ w \in Seq(Connections) /\ Len(w) = Len(wire)
<1> DEFINE c == stream[i].open
<1>1. Ready(i) /\ c # 0
  BY Polled DEF Reading
<1>2. c \in 1..Len(wire) /\ c \in Nat /\ i \in Nat /\ wire \in Seq(Connections)
  BY <1>1, SMTT(30) DEF Ready
<1>3. early \in Arriving(c, i, wire[c].arrived, MaxEarly)
  OBVIOUS
<1> HIDE DEF c
<1>4. wire[c].arrived \in Nat
  <2>1. wire[c] \in Connections
    BY <1>2
  <2> QED BY <2>1 DEF Connections
<1>5. early \in Seq(Messages) /\ Len(early) \in Nat /\ \A k \in 1..Len(early) : early[k].source = i
  <2>1. MaxEarly \in Nat
    OBVIOUS
  <2> DEFINE before == wire[c].arrived
  <2>2. before \in Nat /\ early \in Arriving(c, i, before, MaxEarly)
    BY <1>3, <1>4
  <2>3. c \in Nat /\ i \in Nat
    BY <1>2
  <2> HIDE DEF before
  <2>4. Carried(early, i)
    BY <2>1, <2>2, <2>3, ArrivingIsTyped
  <2> QED BY <2>4 DEF Carried
<1>6. LET w == [wire EXCEPT ![c].arrived = @ + Len(early)]
      IN  w \in Seq(Connections) /\ Len(w) = Len(wire)
  BY <1>2, <1>5, CarriesMore
<1> QED BY <1>1, <1>5, <1>6 DEF c

LEMMA ReconcileInv ==
    ASSUME IndInv, NEW i \in Sources, Reconcile(i) PROVE IndInv'
<1>1. Reading(i) /\ UNCHANGED <<clock, process, lane, channel, writer, durable, unhealed>>
  BY DEF Reconcile
<1>2. PICK early \in Arriving(stream[i].open, i, wire[stream[i].open].arrived, MaxEarly) :
        /\ Arrive(Len(early))
        /\ stream' = [stream EXCEPT ![i].pending = early]
        /\ wire' = [wire EXCEPT ![stream[i].open].arrived = @ + Len(early)]
  BY DEF Reconcile
<1>3. /\ Ready(i) /\ Len(early) \in Nat
      /\ early \in Seq(Messages) /\ \A k \in 1..Len(early) : early[k].source = i
      /\ wire' \in Seq(Connections) /\ Len(wire') = Len(wire)
  BY <1>1, <1>2, ReconcilesTo
<1> DEFINE s == [stream[i] EXCEPT !.pending = early]
<1>4. s \in Streams /\ s.pending = early /\ s.open = stream[i].open
  BY <1>3 DEF Ready, Streams
<1>5. stream' = [stream EXCEPT ![i] = s]
  BY <1>2
<1> HIDE DEF s
<1>6. /\ process.state = "up" /\ lane.phase = "poll"
      /\ Len(wire') >= Len(wire) /\ s.open <= Len(wire')
      /\ \A k \in 1..Len(s.pending) : s.pending[k].source = i
      /\ spent' \in [arrivals : 0..MaxArrivals, failures : 0..MaxFailures]
  BY SMTT(30), <1>2, <1>3, <1>4, SpentIsTyped DEF Ready
<1> QED BY <1>1, <1>3, <1>4, <1>5, <1>6, StreamMoves

LEMMA ReconcileFailsInv ==
    ASSUME IndInv, NEW i \in Sources, ReconcileFails(i) PROVE IndInv'
<1>1. Reading(i) /\ UNCHANGED <<clock, durable>>
  BY DEF ReconcileFails
<1>2. PICK early \in Arriving(stream[i].open, i, wire[stream[i].open].arrived, MaxEarly) :
        LET s == [stream[i] EXCEPT !.open = 0, !.pending = early]
            w == [wire EXCEPT ![stream[i].open].arrived = @ + Len(early)]
        IN  /\ Fail(Len(early))
            /\ RetryableError(i, s, w) \/ InvalidResponse(i, w)
  BY ZenonT(40) DEF ReconcileFails
<1> DEFINE s == [stream[i] EXCEPT !.open = 0, !.pending = early]
           w == [wire EXCEPT ![stream[i].open].arrived = @ + Len(early)]
<1>3. /\ Ready(i) /\ Len(early) \in Nat
      /\ early \in Seq(Messages) /\ \A k \in 1..Len(early) : early[k].source = i
      /\ w \in Seq(Connections) /\ Len(w) = Len(wire)
  BY <1>1, ReconcilesTo
<1>4. s \in Streams /\ s.pending = early /\ s.open = 0
  BY <1>3 DEF Ready, Streams
<1>5. Fail(Len(early)) /\ (RetryableError(i, s, w) \/ InvalidResponse(i, w))
  BY <1>2
<1> HIDE DEF s, w
<1>6. /\ process.state = "up" /\ lane.phase = "poll" /\ s.open <= Len(w)
      /\ \A k \in 1..Len(s.pending) : s.pending[k].source = i
      /\ spent' \in [arrivals : 0..MaxArrivals, failures : 0..MaxFailures]
  BY <1>3, <1>4, <1>5, SpentIsTyped DEF Ready
<1> QED BY <1>1, <1>3, <1>4, <1>5, <1>6, ErrorInv

LEMMA DisconnectedInv ==
    ASSUME IndInv, NEW i \in Sources, Disconnected(i) PROVE IndInv'
<1>1. /\ Polling(i) /\ stream[i].pending = <<>> /\ Fail(0)
      /\ stream' = [stream EXCEPT ![i].open = 0, ![i].attempts = @ + 1]
      /\ wire' = Close(wire, {stream[i].open})
      /\ UNCHANGED <<clock, process, lane, channel, writer, durable, unhealed>>
  BY DEF Disconnected, Reading
<1>2. Ready(i)
  BY <1>1, Polled
<1> DEFINE a == stream[i].attempts + 1
           s == [stream[i] EXCEPT !.open = 0, !.attempts = a]
<1>3. s \in Streams /\ s.pending = stream[i].pending /\ s.open = 0
  <2>1. a \in Nat /\ stream[i] \in Streams
    BY <1>2 DEF Ready
  <2> HIDE DEF a
  <2> QED BY <2>1 DEF Streams
<1>4. stream' = [stream EXCEPT ![i] = s]
  BY <1>1, <1>2 DEF Ready
<1> HIDE DEF s
<1>5. wire' \in Seq(Connections) /\ Len(wire') = Len(wire)
  BY <1>1, <1>2, CloseIsTyped DEF Ready
<1>6. /\ process.state = "up" /\ lane.phase = "poll"
      /\ s.open <= Len(wire') /\ Len(wire') >= Len(wire)
      /\ \A k \in 1..Len(s.pending) : s.pending[k].source = i
      /\ spent' \in [arrivals : 0..MaxArrivals, failures : 0..MaxFailures]
  <2>1. spent \in [arrivals : 0..MaxArrivals, failures : 0..MaxFailures]
    BY <1>2 DEF Ready
  <2>2. spent' \in [arrivals : 0..MaxArrivals, failures : 0..MaxFailures]
    BY <1>1, <2>1, SpentIsTyped
  <2>3. Len(wire') = Len(wire) /\ Len(wire) \in Nat
    BY <1>2, <1>5 DEF Ready
  <2>4. \A k \in 1..Len(s.pending) : s.pending[k].source = i
    BY <1>1, <1>3
  <2>5. process.state = "up" /\ lane.phase = "poll"
    BY <1>2 DEF Ready
  <2> QED BY <1>3, <2>2, <2>3, <2>4, <2>5
<1> QED BY <1>1, <1>3, <1>4, <1>5, <1>6, StreamMoves
-----------------------------------------------------------------------------
(* The channel and the process. *)

LEMMA SendInv == ASSUME IndInv, Send PROVE IndInv'
<1> USE DEF Send
<1>1. Types
  BY DEF IndInv
<1> DEFINE e == lane.held
           n == Len(channel)
<1>2. /\ process.state = "up" /\ lane.phase = "send" /\ n < Capacity
      /\ channel' = Append(channel, e) /\ lane' = [lane EXCEPT !.phase = "poll", !.held = Nothing]
      /\ UNCHANGED <<clock, process, stream, writer, durable, wire, unhealed, spent>>
  OBVIOUS
<1> HIDE DEF Send
<1>3. e \in Messages /\ channel \in Seq(Messages) /\ n \in Nat
  BY <1>1, <1>2, Ranges DEF Types, LaneOK, ChannelOK
<1>4. N' = N /\ Sources' = Sources
  BY <1>2 DEF N, Sources
<1>5. LaneOK'
  <2>1. LaneOK /\ Nothing \in Notification
    BY <1>1 DEF Types, Nothing, Notification
  <2> QED BY <1>2, <1>4, <2>1 DEF LaneOK
<1>6. lane'.phase = "poll" /\ lane'.session = lane.session /\ lane'.lastKey = lane.lastKey
  BY <1>1, <1>2 DEF Types, LaneOK
<1> HIDE DEF e
<1>7. /\ channel' \in Seq(Messages) /\ Len(channel') = n + 1 /\ channel'[n + 1] = e
      /\ \A a \in 1..n : channel'[a] = channel[a]
  BY <1>2, <1>3
<1>8. ChannelOK'
  BY <1>2, <1>3, <1>7 DEF ChannelOK
<1>9. Types'
  BY <1>1, <1>2, <1>4, <1>5, <1>8 DEF Types, ProcessOK, WireOK, StreamOK, WriterOK, StoreOK, durable
<1>10. Latest' = Latest
  BY <1>2 DEF Latest, durable
<1>11. e.session = lane.session /\ e.source = lane.lastKey[1] /\ lane.session >= 1
  BY <1>2 DEF IndInv, InOrder, e
<1>12. /\ writer.session <= lane.session /\ writer.session \in Nat /\ lane.session \in Nat
       /\ writer.session # 0 /\ writer.session = lane.session => Latest.source = lane.lastKey[1]
  BY <1>1, <1>2, Ranges DEF IndInv, InOrder, Types, WriterOK
<1>13. \A a \in 1..n : /\ channel[a].session >= 1
                       /\ \A b \in a..n : Follows(channel[a], channel[b])
                       /\ writer.session <= channel[a].session
                       /\ writer.session = channel[a].session => Latest.source = channel[a].source
                       /\ channel[a].session <= lane.session
                       /\ channel[a].session = lane.session => channel[a].source = lane.lastKey[1]
  BY <1>2 DEF IndInv, InOrder
<1>14. \A a \in 1..n + 1 :
         /\ channel'[a].session >= 1
         /\ \A b \in a..n + 1 : Follows(channel'[a], channel'[b])
         /\ writer.session <= channel'[a].session
         /\ writer.session = channel'[a].session => Latest.source = channel'[a].source
         /\ channel'[a].session <= lane.session
         /\ channel'[a].session = lane.session => channel'[a].source = lane.lastKey[1]
  <2> SUFFICES ASSUME NEW a \in 1..n + 1
               PROVE  /\ channel'[a].session >= 1
                      /\ \A b \in a..n + 1 : Follows(channel'[a], channel'[b])
                      /\ writer.session <= channel'[a].session
                      /\ writer.session = channel'[a].session => Latest.source = channel'[a].source
                      /\ channel'[a].session <= lane.session
                      /\ channel'[a].session = lane.session => channel'[a].source = lane.lastKey[1]
    OBVIOUS
  <2>1. CASE a = n + 1
    <3>1. channel'[a] = e /\ \A b \in a..n + 1 : b = a
      BY <1>3, <1>7, <2>1
    <3> QED BY <3>1, <1>11, <1>12 DEF Follows
  <2>2. CASE a \in 1..n
    <3>1. channel'[a] = channel[a]
      BY <1>7, <2>2
    <3>2. \A b \in a..n + 1 : Follows(channel[a], channel'[b])
      <4> TAKE b \in a..n + 1
      <4>1. CASE b = n + 1
        BY <4>1, <1>7, <1>11, <1>13, <2>2 DEF Follows
      <4>2. CASE b \in a..n
        BY <4>2, <1>7, <1>13, <2>2
      <4> QED BY <4>1, <4>2, <1>3
    <3> QED BY <3>1, <3>2, <1>13, <2>2
  <2> QED BY <2>1, <2>2, <1>3
<1>15. InOrder'
  <2>1. writer' = writer /\ process' = process
    BY <1>2
  <2>2. lane.session = 0 => lane.lastKey = NoKey
    BY <1>11
  <2> QED BY <1>6, <1>7, <1>10, <1>12, <1>14, <2>1, <2>2 DEF InOrder
<1>16. RowsOK' /\ Counted' /\ StoredIsCovered'
  BY SMTT(30), <1>1, <1>2, Unwritten, Ranges
<1> QED BY <1>9, <1>15, <1>16 DEF IndInv

LEMMA ShutdownInv == ASSUME IndInv, Shutdown PROVE IndInv'
<1>1. Types
  BY DEF IndInv
<1>2. /\ process.state = "up" /\ process' = [process EXCEPT !.state = "draining"]
      /\ stream' = [j \in Sources |-> FreshStream] /\ lane' = FreshLane
      /\ wire' = Close(wire, 1..Len(wire)) /\ unhealed' = 0
      /\ UNCHANGED <<clock, channel, writer, durable, spent>>
  BY DEF Shutdown
<1>3. ProcessOK' /\ process'.state = "draining" /\ process'.sources = process.sources
  BY <1>1, <1>2 DEF Types, ProcessOK
<1>4. N' = N /\ Sources' = Sources /\ FreshLane' = FreshLane /\ N \in Nat \ {0}
  BY <1>1, <1>3, SourcesStay, Ranges
<1>5. ChannelOK' /\ WriterOK' /\ StoreOK'
  BY <1>1, <1>2 DEF Types, ChannelOK, WriterOK, StoreOK, durable
<1>6. LaneOK'
  BY <1>2, <1>4, FreshIsTyped DEF LaneOK
<1>7. stream' \in [Sources -> Streams] /\ \A j \in Sources : stream'[j].pending = <<>> /\ stream'[j].open = 0
  BY <1>2, <1>4, FreshIsTyped
<1>8. StreamOK'
  BY <1>4, <1>7 DEF StreamOK
<1>9. wire \in Seq(Connections) /\ clock \in 0..MaxTime
      /\ spent \in [arrivals : 0..MaxArrivals, failures : 0..MaxFailures]
  BY <1>1, Ranges DEF Types, WireOK
<1>10. wire' \in Seq(Connections) /\ Len(wire') \in Nat
  BY <1>2, <1>9, CloseIsTyped
<1>11. WireOK'
  BY SMTT(30), <1>2, <1>4, <1>7, <1>9, <1>10 DEF WireOK
<1>12. Types'
  BY <1>2, <1>3, <1>4, <1>5, <1>6, <1>8, <1>11 DEF Types
<1>13. InOrder'
  <2>1. lane'.phase = "poll"
    BY <1>2, <1>4, FreshIsTyped
  <2>2. Latest' = Latest
    BY <1>2 DEF Latest, durable
  <2> QED BY <1>2, <1>3, <2>1, <2>2 DEF IndInv, InOrder, Follows
<1>14. RowsOK' /\ Counted' /\ StoredIsCovered'
  BY <1>1, <1>2, Unwritten, Ranges
<1> QED BY <1>12, <1>13, <1>14 DEF IndInv

LEMMA DrainedInv == ASSUME IndInv, Drained PROVE IndInv'
<1>1. Ends /\ UNCHANGED <<wire, unhealed, spent>>
  BY DEF Drained, Ends
<1>2. WireOK
  BY DEF IndInv, Types
<1> QED BY <1>1, <1>2, EndsInv DEF WireOK

LEMMA CrashInv == ASSUME IndInv, Crash PROVE IndInv'
<1>1. WireOK /\ clock \in 0..MaxTime
  BY Ranges DEF IndInv, Types
<1>2. Ends /\ wire' = Close(wire, 1..Len(wire)) /\ unhealed' = 0 /\ spent' = spent
  BY DEF Crash, LaneEnds, Ends
<1>3. wire' \in Seq(Connections) /\ unhealed' \in Nat
  BY <1>1, <1>2, CloseIsTyped DEF WireOK
<1>4. spent' \in [arrivals : 0..MaxArrivals, failures : 0..MaxFailures]
  BY <1>1, <1>2 DEF WireOK
<1> QED BY <1>2, <1>3, <1>4, EndsInv

LEMMA StartInv == ASSUME IndInv, Start PROVE IndInv'
<1>1. Types
  BY DEF IndInv
<1>2. /\ process.state = "down" /\ process.starts < MaxStarts
      /\ process' = [process EXCEPT !.state = "up", !.starts = @ + 1]
      /\ UNCHANGED <<clock, stream, lane, channel, writer, durable, wire, unhealed, spent>>
  BY DEF Start, volatile
<1>3. ProcessOK' /\ process'.state = "up" /\ process'.sources = process.sources
  <2> DEFINE n == process.starts + 1
  <2>1. n \in 1..MaxStarts
    BY SMTT(30), <1>1, <1>2 DEF Types, ProcessOK
  <2> HIDE DEF n
  <2>2. process' = [process EXCEPT !.state = "up", !.starts = n]
    BY <1>2 DEF n
  <2> QED BY <1>1, <2>1, <2>2 DEF Types, ProcessOK
<1>4. N' = N /\ Sources' = Sources
  BY <1>3, SourcesStay
<1>5. lane = FreshLane /\ channel = <<>> /\ writer = FreshWriter
  BY <1>1, <1>2 DEF Types
<1>6. Types'
  BY <1>1, <1>2, <1>3, <1>4 DEF Types, WireOK, StreamOK, LaneOK, ChannelOK, WriterOK, StoreOK, durable
<1>7. lane.session = 0 /\ lane.lastKey = NoKey /\ lane.phase = "poll" /\ writer.session = 0
  BY <1>5 DEF FreshLane, FreshWriter
<1>8. InOrder'
  BY <1>2, <1>5, <1>7 DEF InOrder
<1>9. RowsOK' /\ Counted' /\ StoredIsCovered'
  BY <1>1, <1>2, Unwritten, Ranges
<1> QED BY <1>6, <1>8, <1>9 DEF IndInv

LEMMA TickInv == ASSUME IndInv, Tick PROVE IndInv'
<1>1. Types
  BY DEF IndInv
<1>2. /\ clock < MaxTime /\ clock' = clock + 1
      /\ UNCHANGED <<process, stream, lane, channel, writer, durable, wire, unhealed, spent>>
  BY DEF Tick, volatile
<1>3. N' = N /\ Sources' = Sources /\ FreshLane' = FreshLane /\ clock \in Nat /\ Latest' = Latest
  BY <1>1, <1>2, Ranges DEF N, Sources, FreshLane, Latest, durable
<1>4. StoreOK'
  BY <1>1, <1>2, <1>3 DEF Types, StoreOK, durable
<1>5. Types'
  BY <1>1, <1>2, <1>3, <1>4 DEF Types, ProcessOK, WireOK, StreamOK, LaneOK, ChannelOK, WriterOK
<1>6. InOrder'
  BY <1>2, <1>3 DEF IndInv, InOrder, Follows
<1>7. RowsOK' /\ Counted' /\ StoredIsCovered'
  BY <1>2, <1>3, Unwritten
<1> QED BY <1>5, <1>6, <1>7 DEF IndInv
-----------------------------------------------------------------------------
(* The writer. *)

\* What is said of the head of the channel, and of what comes after it.
LEMMA HeadOfChannel ==
    ASSUME IndInv, channel # <<>>
    PROVE  LET d == Head(channel)
           IN  /\ d \in Messages /\ d.session >= 1 /\ d.session \in Nat
               /\ writer.session <= d.session
               /\ writer.session = d.session => Latest.source = d.source
               /\ Tail(channel) \in Seq(Messages) /\ Len(Tail(channel)) = Len(channel) - 1
               /\ Len(channel) >= 1 /\ Len(channel) \in Nat
               /\ \A a \in 1..Len(channel) - 1 :
                    Tail(channel)[a] = channel[a + 1] /\ a + 1 \in 1..Len(channel)
               /\ \A b \in 1..Len(channel) : Follows(d, channel[b])
<1>1. Types
  BY DEF IndInv
<1>2. channel \in Seq(Messages)
  BY <1>1 DEF Types, ChannelOK
<1>3. /\ Head(channel) = channel[1] /\ 1 \in 1..Len(channel) /\ Len(channel) >= 1
      /\ Len(channel) \in Nat /\ Tail(channel) \in Seq(Messages)
      /\ Len(Tail(channel)) = Len(channel) - 1
      /\ \A a \in 1..Len(channel) - 1 :
           Tail(channel)[a] = channel[a + 1] /\ a + 1 \in 1..Len(channel)
  BY <1>2
<1>4. channel[1] \in Messages /\ channel[1].session \in Nat
  <2>1. channel[1] \in Messages
    BY <1>2, <1>3
  <2> QED BY <2>1 DEF Messages
<1>5. /\ channel[1].session >= 1 /\ writer.session <= channel[1].session
      /\ writer.session = channel[1].session => Latest.source = channel[1].source
      /\ \A b \in 1..Len(channel) : Follows(channel[1], channel[b])
  BY <1>3 DEF IndInv, InOrder
<1> QED BY <1>3, <1>4, <1>5

\* The writer takes a notification into row `row', which begins or grows by
\* it; the order of what is on its way stands.
LEMMA TakenInOrder ==
    ASSUME IndInv, channel # <<>>, channel' = Tail(channel),
           UNCHANGED <<process, lane>>,
           writer'.session = Head(channel).session,
           Latest'.source = Head(channel).source
    PROVE  InOrder'
<1> DEFINE d == Head(channel)
           n == Len(channel)
<1>1. /\ d.session >= 1 /\ d.session \in Nat /\ n >= 1 /\ n \in Nat
      /\ Len(channel') = n - 1
      /\ \A a \in 1..n - 1 : channel'[a] = channel[a + 1] /\ a + 1 \in 1..n
      /\ \A b \in 1..n : Follows(d, channel[b])
  BY HeadOfChannel
<1>2. d = channel[1] /\ 1 \in 1..n
  BY <1>1 DEF IndInv, Types, ChannelOK
<1> HIDE DEF d, n
<1>3. \A a \in 1..n - 1 : /\ channel'[a].session >= 1
                          /\ \A b \in a..n - 1 : Follows(channel'[a], channel'[b])
                          /\ Follows(d, channel'[a])
  <2> TAKE a \in 1..n - 1
  <2>1. channel'[a] = channel[a + 1] /\ a + 1 \in 1..n
    BY <1>1
  <2>2. channel[a + 1].session >= 1 /\ \A b \in a + 1..n : Follows(channel[a + 1], channel[b])
    BY <2>1 DEF IndInv, InOrder, n
  <2>3. \A b \in a..n - 1 : Follows(channel'[a], channel'[b])
    <3> TAKE b \in a..n - 1
    <3>1. b + 1 \in a + 1..n /\ b \in 1..n - 1
      BY <1>1
    <3> QED BY <1>1, <2>1, <2>2, <3>1
  <2> QED BY <1>1, <2>1, <2>2, <2>3
<1>4. \A a \in 1..n - 1 : /\ d.session <= channel'[a].session
                          /\ d.session = channel'[a].session => d.source = channel'[a].source
  BY <1>3 DEF Follows
<1>5. process.state = "up" =>
        /\ \A a \in 1..n - 1 :
             /\ channel'[a].session <= lane.session
             /\ channel'[a].session = lane.session => channel'[a].source = lane.lastKey[1]
        /\ d.session <= lane.session
        /\ d.session = lane.session => d.source = lane.lastKey[1]
        /\ lane.session = 0 => lane.lastKey = NoKey
  BY <1>1, <1>2 DEF IndInv, InOrder, n
<1>6. lane.phase = "send" => /\ lane.held.session = lane.session /\ lane.session >= 1
                             /\ lane.held.source = lane.lastKey[1]
  BY DEF IndInv, InOrder
<1>7. Len(channel') = n - 1 /\ writer'.session = d.session /\ Latest'.source = d.source
      /\ process' = process /\ lane' = lane
  BY <1>1 DEF d
<1> QED BY ZenonT(40), <1>3, <1>4, <1>5, <1>6, <1>7 DEF InOrder

\* What StoringFrom makes of the writer.
LEMMA StoringIsTyped ==
    ASSUME NEW d \in Messages, NEW session \in Nat, NEW row \in Nat, clock \in 0..MaxTime,
           writer' = StoringFrom(session, row, d)
    PROVE  /\ WriterOK' /\ writer'.session = session /\ writer'.row = row
           /\ writer'.taken = d /\ writer'.part = 1 /\ writer'.at = clock
           /\ TradesOf[d.signature] \in Nat
           /\ writer'.phase = "storing" => TradesOf[d.signature] >= 1
           /\ writer'.phase # "storing" => TradesOf[d.signature] = 0
<1>1. TradesOf[d.signature] \in Nat
  BY DEF Messages
<1>2. d \in Notification
  BY DEF Messages, Notification
<1>3. /\ writer'.session = session /\ writer'.row = row
      /\ writer'.taken = d /\ writer'.part = 1 /\ writer'.at = clock
      /\ writer'.phase = IF TradesOf[d.signature] = 0 THEN "idle" ELSE "storing"
  BY DEF StoringFrom
<1>4. WriterOK'
  BY <1>2 DEF WriterOK, StoringFrom
<1> QED BY <1>1, <1>3, <1>4

\* A row that ends with d, the writer's notification, of which nothing is
\* stored yet, and all rows before as they were counted.
LEMMA TakenIsCounted ==
    ASSUME NEW d \in Messages, CountedThenStored',
           writer'.phase = "storing" => TradesOf[d.signature] >= 1,
           writer'.phase # "storing" => TradesOf[d.signature] = 0,
           TradesOf[d.signature] \in Nat,
           writer'.taken = d, writer'.part = 1, writer'.at = Latest'.last,
           Latest'.counted[Len(Latest'.counted)] = d
    PROVE  Counted'
<1>1. AllAccounted(d, 0)'
  BY DEF AllAccounted
<1> QED BY <1>1 DEF Counted

LEMMA OpenSessionInv ==
    ASSUME IndInv, Receive, OpenSession(Head(channel)) PROVE IndInv'
<1> DEFINE d == Head(channel)
           n == Len(sessions)
           new == [source |-> d.source, sequence |-> d.session, first |-> clock,
                   last |-> clock, counted |-> <<d>>]
<1>1. Types
  BY DEF IndInv
<1>2. /\ Running /\ channel # <<>> /\ channel' = Tail(channel)
      /\ UNCHANGED <<clock, evidence, conflicts, spent, process, stream, lane, wire, unhealed>>
      /\ sessions' = Append(sessions, new) /\ writer' = StoringFrom(d.session, n + 1, d)
  BY DEF Receive, OpenSession, BeginSession
<1>3. d \in Messages /\ d.session >= 1 /\ d.session \in Nat
      /\ channel' \in Seq(Messages) /\ Len(channel') = Len(channel) - 1 /\ Len(channel) \in Nat
  BY <1>2, HeadOfChannel
<1>4. clock \in 0..MaxTime /\ clock \in Nat /\ n \in Nat /\ sessions \in Seq(Rows)
  BY <1>1, Ranges DEF Types, StoreOK
<1>5. new \in Rows /\ new.counted = <<d>> /\ Len(new.counted) = 1 /\ new.counted[1] = d
  <2>1. d.source \in Nat
    BY <1>3 DEF Messages
  <2>2. <<d>> \in Seq(Messages)
    BY <1>3
  <2> QED BY <1>3, <1>4, <2>1, <2>2 DEF Rows
<1>6. /\ new.source = d.source /\ new.sequence = d.session
      /\ new.first = clock /\ new.last = clock
  OBVIOUS
<1> HIDE DEF d, n, new
<1>7. /\ sessions' \in Seq(Rows) /\ Len(sessions') = n + 1 /\ sessions'[n + 1] = new
      /\ \A r \in 1..n : sessions'[r] = sessions[r]
  BY <1>2, <1>4, <1>5 DEF n
<1>8. /\ WriterOK' /\ writer'.session = d.session /\ writer'.row = n + 1
      /\ writer'.taken = d /\ writer'.part = 1 /\ writer'.at = clock
      /\ TradesOf[d.signature] \in Nat
      /\ writer'.phase = "storing" => TradesOf[d.signature] >= 1
      /\ writer'.phase # "storing" => TradesOf[d.signature] = 0
  <2>1. n + 1 \in Nat
    BY <1>4
  <2> QED BY <1>2, <1>3, <1>4, <2>1, StoringIsTyped
<1>9. Latest' = new
  BY <1>7, <1>8 DEF Latest
<1>10. StoreOK' /\ ChannelOK'
  BY SMTT(30), <1>1, <1>2, <1>3, <1>7 DEF Types, StoreOK, ChannelOK
<1>11. Types'
  <2>1. N' = N /\ Sources' = Sources /\ FreshLane' = FreshLane
    BY <1>2, SourcesStay
  <2> QED BY <1>1, <1>2, <1>8, <1>10, <2>1
          DEF Types, ProcessOK, WireOK, StreamOK, LaneOK, Running
<1>12. InOrder'
  BY <1>2, <1>6, <1>8, <1>9, TakenInOrder DEF d
<1>13. RowsOK'
  <2>1. \A r \in 1..n : /\ sessions[r].first <= sessions[r].last
                        /\ sessions[r].last <= clock /\ Len(sessions[r].counted) >= 1
    BY DEF IndInv, RowsOK, n
  <2>2. \A r \in 1..n + 1 : /\ sessions'[r].first <= sessions'[r].last
                            /\ sessions'[r].last <= clock /\ Len(sessions'[r].counted) >= 1
    <3> TAKE r \in 1..n + 1
    <3>1. CASE r = n + 1
      <4>1. sessions'[r] = new
        BY <3>1, <1>7
      <4>2. new.first <= new.last /\ new.last <= clock /\ Len(new.counted) >= 1
        BY <1>4, <1>5, <1>6
      <4> QED BY <4>1, <4>2
    <3>2. CASE r \in 1..n
      <4>1. sessions'[r] = sessions[r]
        BY <3>2, <1>7
      <4> QED BY <3>2, <4>1, <2>1
    <3> QED BY <3>1, <3>2, <1>4
  <2> QED BY SMTT(30), <1>2, <1>3, <1>4, <1>6, <1>7, <1>8, <1>9, <2>2 DEF RowsOK
<1>14. CountedThenStored'
  <2> SUFFICES ASSUME NEW r \in 1..n + 1, NEW k \in 1..Len(sessions'[r].counted) - 1,
                      NEW part \in 1..TradesOf[sessions'[r].counted[k].signature]
               PROVE  LET e == sessions'[r].counted[k]
                      IN  Accounted(evidence', conflicts', <<e.signature, part>>, e.economics)
    BY <1>7 DEF CountedThenStored
  <2>1. r \in 1..n
    <3>1. ASSUME r = n + 1 PROVE FALSE
      <4>1. sessions'[r] = new
        BY <3>1, <1>7
      <4>2. Len(sessions'[r].counted) = 1
        BY <4>1, <1>5
      <4> QED BY <4>2
    <3> QED BY <3>1, <1>4
  <2>2. sessions'[r] = sessions[r]
    BY <1>7, <2>1
  <2> QED BY <1>2, <2>1, <2>2 DEF IndInv, Counted, CountedThenStored, n
<1>15. Counted'
  BY <1>3, <1>5, <1>6, <1>8, <1>9, <1>14, TakenIsCounted
<1>16. StoredIsCovered'
  BY <1>2, <1>4, <1>7, SMTT(30) DEF IndInv, StoredIsCovered, n
<1> QED BY <1>11, <1>12, <1>13, <1>15, <1>16 DEF IndInv
\* What an extension does to the rows.
Grown(d) ==
    LET n == Len(sessions)
    IN  /\ n \in Nat /\ n >= 1 /\ writer.row = n
        /\ sessions' \in Seq(Rows) /\ Len(sessions') = n
        /\ \A r \in 1..n - 1 : sessions'[r] = sessions[r]
        /\ sessions'[n].source = sessions[n].source
        /\ sessions'[n].sequence = sessions[n].sequence
        /\ sessions'[n].first = sessions[n].first
        /\ sessions'[n].last = clock
        /\ sessions'[n].counted = Append(sessions[n].counted, d)
        /\ sessions[n].counted \in Seq(Messages)
        /\ sessions[n] \in Rows
        /\ sessions[n].last \in Nat /\ sessions[n].first \in Nat
        /\ sessions[n].last <= clock /\ sessions[n].first <= sessions[n].last
        /\ clock \in Nat

LEMMA ExtensionGrows ==
    ASSUME IndInv, NEW d \in Messages, writer.session # 0,
           sessions' = ExtendSession(sessions, writer.row, clock, d)
    PROVE  Grown(d)
<1> DEFINE n == Len(sessions)
           row == sessions[n]
           more == Append(row.counted, d)
<1>1. Types
  BY DEF IndInv
<1>2. sessions \in Seq(Rows) /\ n \in Nat /\ n >= 1 /\ writer.row = n
      /\ clock \in 0..MaxTime /\ clock \in Nat
      /\ row.first <= row.last /\ row.last <= clock
  <2>1. sessions \in Seq(Rows) /\ clock \in 0..MaxTime
    BY <1>1, Ranges DEF Types, StoreOK
  <2>2. writer.row = n /\ writer.row >= 1
    BY DEF IndInv, RowsOK
  <2>3. n \in 1..Len(sessions)
    BY <2>1, <2>2
  <2>4. row.first <= row.last /\ row.last <= clock
    BY <2>3 DEF IndInv, RowsOK
  <2> QED BY <2>1, <2>2, <2>4
<1>3. row \in Rows /\ row.counted \in Seq(Messages) /\ row.last \in Nat /\ row.first \in Nat
  <2>1. row \in Rows
    BY <1>2
  <2> QED BY <2>1 DEF Rows
<1>4. more \in Seq(Messages)
  BY <1>3
<1> DEFINE new == [row EXCEPT !.last = clock, !.counted = more]
<1>5. sessions' = [sessions EXCEPT ![n] = new]
  BY <1>2 DEF ExtendSession
<1> HIDE DEF more
<1>6. /\ new \in Rows /\ new.source = row.source /\ new.sequence = row.sequence
      /\ new.first = row.first /\ new.last = clock /\ new.counted = more
  BY <1>2, <1>3, <1>4 DEF Rows
<1> HIDE DEF new
<1>7. /\ sessions' \in Seq(Rows) /\ Len(sessions') = n /\ sessions'[n] = new
      /\ \A r \in 1..n - 1 : sessions'[r] = sessions[r]
  <2>1. sessions \in Seq(Rows) /\ n \in 1..Len(sessions) /\ n = Len(sessions)
    BY <1>2
  <2> HIDE DEF n
  <2>2. sessions' \in Seq(Rows) /\ Len(sessions') = n
    BY <1>5, <1>6, <2>1
  <2>3. sessions'[n] = new /\ \A r \in 1..n - 1 : sessions'[r] = sessions[r]
    BY SMTT(30), <1>5, <2>1
  <2> QED BY <2>2, <2>3
<1> QED BY <1>2, <1>3, <1>6, <1>7 DEF Grown, more

LEMMA ExtendInv ==
    ASSUME IndInv, Receive, Extend(Head(channel)) PROVE IndInv'
<1> DEFINE d == Head(channel)
           n == Len(sessions)
           old == sessions[n].counted
<1>1. Types
  BY DEF IndInv
<1>2. /\ Running /\ channel # <<>> /\ channel' = Tail(channel) /\ writer.phase = "idle"
      /\ UNCHANGED <<clock, evidence, conflicts, spent, process, stream, lane, wire, unhealed>>
      /\ d.session = writer.session
      /\ sessions' = ExtendSession(sessions, writer.row, clock, d)
      /\ writer' = StoringFrom(writer.session, writer.row, d)
  BY DEF Receive, Extend
<1>3. d \in Messages /\ d.session >= 1 /\ d.session \in Nat
      /\ channel' \in Seq(Messages) /\ Len(channel') = Len(channel) - 1 /\ Len(channel) \in Nat
      /\ Latest.source = d.source
  BY <1>2, HeadOfChannel
<1>4. writer.session # 0
  BY <1>2, <1>3
<1> HIDE DEF d
<1>5. Grown(d)
  BY <1>2, <1>3, <1>4, ExtensionGrows
<1> HIDE DEF n
<1>6. /\ n \in Nat /\ n >= 1 /\ writer.row = n /\ sessions' \in Seq(Rows) /\ Len(sessions') = n
      /\ \A r \in 1..n - 1 : sessions'[r] = sessions[r]
      /\ sessions'[n].source = sessions[n].source /\ sessions'[n].sequence = sessions[n].sequence
      /\ sessions'[n].first = sessions[n].first /\ sessions'[n].last = clock
      /\ sessions'[n].counted = Append(old, d) /\ old \in Seq(Messages)
      /\ sessions[n].last <= clock /\ sessions[n].first <= clock /\ clock \in Nat
      /\ sessions[n].last \in Nat /\ sessions[n].first \in Nat
  BY <1>5 DEF Grown, n
<1>7. /\ Len(old) \in Nat /\ Len(old) >= 1 /\ Len(sessions'[n].counted) = Len(old) + 1
      /\ sessions'[n].counted[Len(old) + 1] = d
      /\ \A k \in 1..Len(old) : sessions'[n].counted[k] = old[k]
  <2>1. n \in 1..Len(sessions)
    BY <1>6 DEF n
  <2>2. Len(old) >= 1
    BY <2>1 DEF IndInv, RowsOK
  <2> HIDE DEF old
  <2> QED BY <1>6, <2>2
<1>8. /\ WriterOK' /\ writer'.session = d.session /\ writer'.row = n
      /\ writer'.taken = d /\ writer'.part = 1 /\ writer'.at = clock
      /\ TradesOf[d.signature] \in Nat
      /\ writer'.phase = "storing" => TradesOf[d.signature] >= 1
      /\ writer'.phase # "storing" => TradesOf[d.signature] = 0
  <2>1. clock \in 0..MaxTime /\ writer' = StoringFrom(d.session, n, d)
    BY <1>1, <1>2, <1>6, Ranges
  <2> QED BY <1>3, <1>6, <2>1, StoringIsTyped
<1>9. Latest' = sessions'[n] /\ Latest = sessions[n] /\ Latest'.source = d.source
  BY <1>3, <1>6, <1>8 DEF Latest
<1>10. StoreOK' /\ ChannelOK'
  BY SMTT(30), <1>1, <1>2, <1>3, <1>6 DEF Types, StoreOK, ChannelOK
<1>11. Types'
  <2>1. N' = N /\ Sources' = Sources /\ FreshLane' = FreshLane
    BY <1>2, SourcesStay
  <2> QED BY <1>1, <1>2, <1>8, <1>10, <2>1
          DEF Types, ProcessOK, WireOK, StreamOK, LaneOK, Running
<1>12. InOrder'
  BY <1>2, <1>8, <1>9, TakenInOrder DEF d
<1>13. RowsOK'
  <2>1. \A r \in 1..n : /\ sessions[r].first <= sessions[r].last
                        /\ sessions[r].last <= clock /\ Len(sessions[r].counted) >= 1
    BY DEF IndInv, RowsOK, n
  <2>2. \A r \in 1..n : /\ sessions'[r].first <= sessions'[r].last
                        /\ sessions'[r].last <= clock /\ Len(sessions'[r].counted) >= 1
    <3> TAKE r \in 1..n
    <3>1. CASE r = n
      BY <3>1, <1>6, <1>7
    <3>2. CASE r \in 1..n - 1
      <4>1. sessions'[r] = sessions[r]
        BY <3>2, <1>6
      <4> QED BY <4>1, <2>1
    <3> QED BY <3>1, <3>2, <1>6
  <2>3. Latest'.sequence = d.session
    BY <1>2, <1>4, <1>6, <1>9 DEF IndInv, RowsOK
  <2> QED BY SMTT(30), <1>2, <1>3, <1>6, <1>8, <2>2, <2>3 DEF RowsOK
<1>14. CountedThenStored'
  <2> SUFFICES ASSUME NEW r \in 1..n, NEW k \in 1..Len(sessions'[r].counted) - 1,
                      NEW part \in 1..TradesOf[sessions'[r].counted[k].signature]
               PROVE  LET e == sessions'[r].counted[k]
                      IN  Accounted(evidence', conflicts', <<e.signature, part>>, e.economics)
    BY <1>6 DEF CountedThenStored
  <2>1. CASE r \in 1..n - 1
    <3>1. sessions'[r] = sessions[r]
      BY <1>6, <2>1
    <3> QED BY <1>2, <3>1 DEF IndInv, Counted, CountedThenStored, n
  <2>2. CASE r = n /\ k \in 1..Len(old) - 1
    <3>1. sessions'[r].counted[k] = sessions[r].counted[k]
      BY <1>7, <2>2
    <3> QED BY <1>2, <2>2, <3>1 DEF IndInv, Counted, CountedThenStored, n
  <2>3. CASE r = n /\ k = Len(old)
    <3> DEFINE e == old[Len(old)]
    <3>1. sessions'[r].counted[k] = e
      BY SMTT(30), <1>7, <2>3
    <3>2. AllAccounted(e, TradesOf[e.signature])
      BY <1>2, <1>4, <1>9 DEF IndInv, Counted
    <3> HIDE DEF e
    <3>3. part \in 1..TradesOf[e.signature]
      BY <3>1
    <3> QED BY <1>2, <3>1, <3>2, <3>3 DEF AllAccounted
  <2>4. k \in 1..Len(old) \/ r \in 1..n - 1
    <3>1. ASSUME r = n PROVE k \in 1..Len(old)
      BY <3>1, <1>7
    <3> QED BY <3>1, <1>6
  <2> QED BY <2>1, <2>2, <2>3, <2>4, <1>6, <1>7
<1>15. Counted'
  <2>1. Latest'.counted[Len(Latest'.counted)] = d /\ Latest'.last = clock
    BY <1>6, <1>7, <1>9
  <2> QED BY <1>3, <1>8, <1>14, <2>1, TakenIsCounted
<1>16. StoredIsCovered'
  <2>0. evidence' = evidence /\ Len(sessions') = n
    BY <1>2, <1>6
  <2> SUFFICES ASSUME NEW t \in Trades, Stored(evidence, t)
               PROVE  \E r \in 1..n :
                        /\ sessions'[r].first <= evidence[t].at
                        /\ evidence[t].at <= sessions'[r].last
                        /\ \E k \in 1..Len(sessions'[r].counted) :
                             /\ sessions'[r].counted[k].signature = t[1]
                             /\ sessions'[r].counted[k].economics = evidence[t].economics
    BY <2>0 DEF StoredIsCovered
  <2>1. PICK r \in 1..n :
          /\ sessions[r].first <= evidence[t].at
          /\ evidence[t].at <= sessions[r].last
          /\ \E k \in 1..Len(sessions[r].counted) :
               /\ sessions[r].counted[k].signature = t[1]
               /\ sessions[r].counted[k].economics = evidence[t].economics
    BY DEF IndInv, StoredIsCovered, n
  <2>2. CASE r \in 1..n - 1
    <3>1. sessions'[r] = sessions[r]
      BY <1>6, <2>2
    <3> QED BY <2>1, <3>1
  <2>3. CASE r = n
    <3>1. PICK k \in 1..Len(old) : /\ old[k].signature = t[1]
                                   /\ old[k].economics = evidence[t].economics
      BY <2>1, <2>3
    <3>2. k \in 1..Len(sessions'[n].counted) /\ sessions'[n].counted[k] = old[k]
      BY <1>7
    <3>3. evidence[t].at \in Nat
      BY <1>1 DEF Types, StoreOK
    <3>4. sessions'[n].first <= evidence[t].at /\ evidence[t].at <= sessions'[n].last
      BY SMTT(30), <1>6, <2>1, <2>3, <3>3
    <3>5. n \in 1..n
      BY <1>6
    <3>6. \E j \in 1..Len(sessions'[n].counted) :
             /\ sessions'[n].counted[j].signature = t[1]
             /\ sessions'[n].counted[j].economics = evidence[t].economics
      BY <3>1, <3>2
    <3> QED BY <3>4, <3>5, <3>6
  <2> QED BY <2>2, <2>3, <1>6
<1> QED BY <1>11, <1>12, <1>13, <1>15, <1>16 DEF IndInv
LEMMA ReceiveInv == ASSUME IndInv, Receive PROVE IndInv'
<1>1. OpenSession(Head(channel)) \/ Extend(Head(channel))
  BY DEF Receive
<1> QED BY <1>1, OpenSessionInv, ExtendInv

\* What is delivered is accounted for, and what was stays so.
LEMMA RecordedTrade ==
    ASSUME NEW trade \in Trades, NEW e \in Economics, NEW at \in 0..MaxTime, StoreOK,
           evidence' = RecordTrade(evidence, trade, e, at),
           conflicts' = Quarantine(evidence, conflicts, trade, e)
    PROVE  /\ evidence' \in [Trades -> [economics : Nat, at : 0..MaxTime]]
           /\ conflicts' \subseteq Trades \X Economics /\ conflicts \subseteq conflicts'
           /\ Accounted(evidence', conflicts', trade, e)
           /\ \A t \in Trades : Stored(evidence, t) => evidence'[t] = evidence[t]
           /\ \A t \in Trades : Stored(evidence', t) =>
                \/ evidence'[t] = evidence[t]
                \/ t = trade /\ evidence'[t] = [economics |-> e, at |-> at]
           /\ \A t \in Trades, x \in Economics :
                Accounted(evidence, conflicts, t, x) => Accounted(evidence', conflicts', t, x)
<1>1. e \in Nat /\ e # 0
  OBVIOUS
<1>2. evidence \in [Trades -> [economics : Nat, at : 0..MaxTime]]
      /\ conflicts \subseteq Trades \X Economics
  BY DEF StoreOK
<1> DEFINE new == [economics |-> e, at |-> at]
<1>3. new \in [economics : Nat, at : 0..MaxTime] /\ new.economics = e
  BY <1>1
<1> HIDE DEF new
<1>4. conflicts' \subseteq Trades \X Economics /\ conflicts \subseteq conflicts'
  BY <1>2 DEF Quarantine
<1>5. CASE Stored(evidence, trade)
  <2>1. evidence' = evidence
    BY <1>5 DEF RecordTrade
  <2>2. Accounted(evidence', conflicts', trade, e)
    BY <1>5, <2>1 DEF Quarantine, Accounted
  <2> QED BY <1>2, <1>4, <2>1, <2>2 DEF Accounted
<1>6. CASE ~Stored(evidence, trade)
  <2>1. evidence' = [evidence EXCEPT ![trade] = new]
    BY <1>6 DEF RecordTrade, new
  <2>2. evidence' \in [Trades -> [economics : Nat, at : 0..MaxTime]] /\ evidence'[trade] = new
    BY <1>2, <1>3, <2>1
  <2>3. \A t \in Trades : t # trade => evidence'[t] = evidence[t]
    BY <1>2, <2>1
  <2>4. Accounted(evidence', conflicts', trade, e)
    BY <1>3, <2>2 DEF Accounted
  <2>5. \A t \in Trades, x \in Economics :
          Accounted(evidence, conflicts, t, x) => Accounted(evidence', conflicts', t, x)
    <3> TAKE t \in Trades, x \in Economics
    <3>1. CASE t = trade
      BY <3>1, <1>4, <1>6 DEF Accounted, Stored
    <3>2. CASE t # trade
      BY <3>2, <1>4, <2>3 DEF Accounted
    <3> QED BY <3>1, <3>2
  <2>6. \A t \in Trades : Stored(evidence, t) => evidence'[t] = evidence[t]
    BY <1>6, <2>3
  <2>7. \A t \in Trades : evidence'[t] = evidence[t] \/ (t = trade /\ evidence'[t] = new)
    BY <2>2, <2>3
  <2> QED BY <1>4, <2>2, <2>4, <2>5, <2>6, <2>7 DEF new
<1> QED BY <1>5, <1>6

\* The trade that the writer stores, of the row it counted it in.
LEMMA WritersTrade ==
    ASSUME IndInv, writer.phase = "storing"
    PROVE  /\ writer.taken \in Messages /\ writer.at \in 0..MaxTime
           /\ writer.session # 0 /\ writer.row = Len(sessions) /\ writer.row \in 1..Len(sessions)
           /\ Latest = sessions[writer.row] /\ Latest.counted[Len(Latest.counted)] = writer.taken
           /\ Len(Latest.counted) \in 1..Len(Latest.counted)
           /\ writer.at = Latest.last /\ Latest.first <= Latest.last /\ Latest.last \in Nat
           /\ writer.part \in 1..TradesOf[writer.taken.signature]
           /\ TradesOf[writer.taken.signature] \in Nat
           /\ AllAccounted(writer.taken, writer.part - 1)
           /\ <<writer.taken.signature, writer.part>> \in Trades
           /\ writer.taken.economics \in Economics /\ writer.taken.signature \in Signatures
<1>1. Types
  BY DEF IndInv
<1>2. writer.taken \in Messages /\ writer.at \in 0..MaxTime
  BY <1>1 DEF Types, WriterOK
<1>3. writer.taken.signature \in Signatures /\ writer.taken.economics \in Economics
  BY <1>2 DEF Messages
<1>4. writer.session # 0 /\ writer.row = Len(sessions) /\ writer.row >= 1
  BY DEF IndInv, RowsOK
<1>5. sessions \in Seq(Rows) /\ Len(sessions) \in Nat
  BY <1>1 DEF Types, StoreOK
<1>6. writer.row \in 1..Len(sessions) /\ Latest = sessions[writer.row] /\ Latest \in Rows
  BY <1>4, <1>5 DEF Latest
<1>7. Latest.last \in Nat /\ Latest.counted \in Seq(Messages)
  BY <1>6 DEF Rows
<1>8. Latest.first <= Latest.last /\ Len(Latest.counted) >= 1
  BY <1>6 DEF IndInv, RowsOK
<1> DEFINE d == Latest.counted[Len(Latest.counted)]
<1>9. /\ d = writer.taken /\ writer.at = Latest.last
      /\ writer.part \in 1..TradesOf[d.signature] /\ AllAccounted(d, writer.part - 1)
  BY <1>4 DEF IndInv, Counted
<1> HIDE DEF d
<1>10. writer.part \in 1..TradesOf[writer.taken.signature]
       /\ AllAccounted(writer.taken, writer.part - 1)
  BY <1>9
<1>11. <<writer.taken.signature, writer.part>> \in Trades
  BY <1>3, <1>10 DEF Trades
<1>12. TradesOf[writer.taken.signature] \in Nat
  BY <1>3
<1>13. Len(Latest.counted) \in 1..Len(Latest.counted)
  BY <1>7, <1>8
<1> QED BY <1>2, <1>3, <1>4, <1>6, <1>7, <1>8, <1>9, <1>10, <1>11, <1>12, <1>13 DEF d

LEMMA PersistInv == ASSUME IndInv, Persist PROVE IndInv'
<1> DEFINE d == writer.taken
           trade == <<d.signature, writer.part>>
           last == writer.part = TradesOf[d.signature]
<1>1. Types
  BY DEF IndInv
<1>2. /\ Running /\ writer.phase = "storing"
      /\ evidence' = RecordTrade(evidence, trade, d.economics, writer.at)
      /\ conflicts' = Quarantine(evidence, conflicts, trade, d.economics)
      /\ writer' = [writer EXCEPT !.phase = IF last THEN "idle" ELSE @,
                                  !.part = IF last THEN @ ELSE @ + 1]
      /\ UNCHANGED <<clock, process, stream, lane, channel, sessions, wire, unhealed, spent>>
  BY DEF Persist, ObservedAt
<1>3. /\ d \in Messages /\ writer.at \in 0..MaxTime /\ writer.session # 0
      /\ writer.row \in 1..Len(sessions) /\ Latest = sessions[writer.row]
      /\ Latest.counted[Len(Latest.counted)] = d
      /\ Len(Latest.counted) \in 1..Len(Latest.counted)
      /\ writer.at = Latest.last /\ Latest.first <= Latest.last /\ Latest.last \in Nat
      /\ writer.part \in 1..TradesOf[d.signature] /\ TradesOf[d.signature] \in Nat
      /\ AllAccounted(d, writer.part - 1)
      /\ trade \in Trades /\ d.economics \in Economics /\ d.signature \in Signatures
  BY <1>2, WritersTrade, SMTT(30)
<1>4. /\ evidence' \in [Trades -> [economics : Nat, at : 0..MaxTime]]
      /\ conflicts' \subseteq Trades \X Economics /\ conflicts \subseteq conflicts'
      /\ Accounted(evidence', conflicts', trade, d.economics)
      /\ \A t \in Trades : Stored(evidence', t) =>
           \/ evidence'[t] = evidence[t]
           \/ t = trade /\ evidence'[t] = [economics |-> d.economics, at |-> writer.at]
      /\ \A t \in Trades, x \in Economics :
           Accounted(evidence, conflicts, t, x) => Accounted(evidence', conflicts', t, x)
  BY <1>1, <1>2, <1>3, RecordedTrade, ZenonT(40) DEF Types
<1> HIDE DEF trade
<1>5. /\ writer'.session = writer.session /\ writer'.row = writer.row
      /\ writer'.taken = d /\ writer'.at = writer.at
      /\ writer'.phase = IF last THEN "idle" ELSE "storing"
      /\ writer'.part = IF last THEN writer.part ELSE writer.part + 1
      /\ WriterOK'
  <2> DEFINE next == IF last THEN writer.part ELSE writer.part + 1
             phase == IF last THEN "idle" ELSE "storing"
  <2>1. writer.part \in Nat /\ next \in Nat /\ WriterOK /\ phase \in {"idle", "storing"}
    BY <1>1 DEF Types, WriterOK
  <2>2. writer' = [writer EXCEPT !.phase = phase, !.part = next]
    BY <1>2
  <2> HIDE DEF last, next, phase
  <2>3. /\ writer'.session = writer.session /\ writer'.row = writer.row
        /\ writer'.taken = writer.taken /\ writer'.at = writer.at
        /\ writer'.phase = phase /\ writer'.part = next
    BY <2>1, <2>2 DEF WriterOK
  <2>4. WriterOK'
    BY <1>3, <2>1, <2>2, <2>3 DEF WriterOK
  <2> QED BY <2>3, <2>4 DEF next, phase
<1>6. Latest' = Latest
  BY <1>2, <1>5 DEF Latest
<1>7. Types'
  <2>1. N' = N /\ Sources' = Sources /\ FreshLane' = FreshLane
    BY <1>2, SourcesStay
  <2>2. StoreOK'
    BY <1>1, <1>2, <1>4 DEF Types, StoreOK
  <2>3. process.state # "down"
    BY <1>2 DEF Running
  <2> QED BY <1>1, <1>2, <1>5, <2>1, <2>2, <2>3, ZenonT(40)
          DEF Types, ProcessOK, WireOK, StreamOK, LaneOK, ChannelOK
<1>8. InOrder'
  BY <1>2, <1>5, <1>6 DEF IndInv, InOrder, Follows
<1>9. RowsOK'
  BY <1>2, <1>3, <1>5, <1>6 DEF IndInv, RowsOK
<1>10. \A m \in Messages : \A part \in 1..TradesOf[m.signature] :
         Accounted(evidence, conflicts, <<m.signature, part>>, m.economics)
            => Accounted(evidence', conflicts', <<m.signature, part>>, m.economics)
  <2> TAKE m \in Messages
  <2> TAKE part \in 1..TradesOf[m.signature]
  <2>1. m.signature \in Signatures /\ m.economics \in Economics
    BY DEF Messages
  <2>2. <<m.signature, part>> \in Trades
    BY <2>1 DEF Trades
  <2> QED BY <1>4, <2>1, <2>2
<1>11. CountedThenStored'
  <2> SUFFICES ASSUME NEW r \in 1..Len(sessions), NEW k \in 1..Len(sessions[r].counted) - 1,
                      NEW part \in 1..TradesOf[sessions[r].counted[k].signature]
               PROVE  LET e == sessions[r].counted[k]
                      IN  Accounted(evidence', conflicts', <<e.signature, part>>, e.economics)
    BY <1>2 DEF CountedThenStored
  <2>1. sessions[r].counted \in Seq(Messages)
    BY <1>1, Ranges DEF Rows
  <2>2. sessions[r].counted[k] \in Messages
    BY <2>1
  <2>3. LET e == sessions[r].counted[k]
        IN  Accounted(evidence, conflicts, <<e.signature, part>>, e.economics)
    BY DEF IndInv, Counted, CountedThenStored
  <2> QED BY <1>10, <2>2, <2>3
<1>12. \A part \in 1..writer.part :
         Accounted(evidence', conflicts', <<d.signature, part>>, d.economics)
  <2> TAKE part \in 1..writer.part
  <2>1. CASE part = writer.part
    BY <1>4, <2>1 DEF trade
  <2>2. CASE part # writer.part
    <3>1. part \in 1..writer.part - 1 /\ part \in 1..TradesOf[d.signature]
      BY <1>3, <2>2
    <3>2. Accounted(evidence, conflicts, <<d.signature, part>>, d.economics)
      BY <1>3, <3>1 DEF AllAccounted
    <3> QED BY <1>3, <1>10, <3>1, <3>2
  <2> QED BY <2>1, <2>2
<1> HIDE DEF d
<1>13. Counted'
  <2>1. CASE writer.part = TradesOf[d.signature]
    <3>1. writer'.phase # "storing"
      BY <1>5, <2>1
    <3>2. \A part \in 1..TradesOf[d.signature] :
            Accounted(evidence', conflicts', <<d.signature, part>>, d.economics)
      BY <1>12, <2>1
    <3>3. Latest'.counted[Len(Latest'.counted)] = d
      BY <1>3, <1>6, SMTT(30)
    <3> QED BY <1>11, <3>1, <3>2, <3>3 DEF Counted, AllAccounted
  <2>2. CASE writer.part # TradesOf[d.signature]
    <3>1. /\ writer'.phase = "storing" /\ writer'.part - 1 = writer.part
          /\ writer'.part \in 1..TradesOf[d.signature]
      BY <1>3, <1>5, <2>2, SMTT(30)
    <3>2. \A part \in 1..writer'.part - 1 :
            Accounted(evidence', conflicts', <<d.signature, part>>, d.economics)
      BY <1>12, <3>1
    <3> QED BY <1>3, <1>5, <1>6, <1>11, <3>1, <3>2 DEF Counted, AllAccounted
  <2> QED BY <2>1, <2>2
<1>14. StoredIsCovered'
  <2> SUFFICES ASSUME NEW t \in Trades, Stored(evidence', t)
               PROVE  \E r \in 1..Len(sessions) :
                        /\ sessions[r].first <= evidence'[t].at
                        /\ evidence'[t].at <= sessions[r].last
                        /\ \E k \in 1..Len(sessions[r].counted) :
                             /\ sessions[r].counted[k].signature = t[1]
                             /\ sessions[r].counted[k].economics = evidence'[t].economics
    BY <1>2 DEF StoredIsCovered
  <2>1. CASE evidence'[t] = evidence[t]
    BY <2>1 DEF IndInv, StoredIsCovered, Stored
  <2>2. CASE t = trade /\ evidence'[t] = [economics |-> d.economics, at |-> writer.at]
    <3>1. /\ Latest.first <= evidence'[t].at /\ evidence'[t].at <= Latest.last
          /\ evidence'[t].economics = d.economics /\ t[1] = d.signature
      BY <1>3, <2>2 DEF trade
    <3>2. \E k \in 1..Len(Latest.counted) :
             /\ Latest.counted[k].signature = t[1]
             /\ Latest.counted[k].economics = evidence'[t].economics
      BY <1>3, <3>1
    <3> QED BY <1>3, <3>1, <3>2
  <2> QED BY <1>4, <2>1, <2>2
<1> QED BY <1>7, <1>8, <1>9, <1>13, <1>14 DEF IndInv
-----------------------------------------------------------------------------
(* Every step, and what follows from the invariant. *)

LEMMA StutterInv == ASSUME IndInv, UNCHANGED vars PROVE IndInv'
<1> USE DEF vars, volatile, durable
<1>1. Types /\ N' = N /\ Sources' = Sources /\ FreshLane' = FreshLane /\ Latest' = Latest
  BY DEF IndInv, N, Sources, FreshLane, Latest
<1>2. Types'
  BY <1>1 DEF Types, ProcessOK, WireOK, StreamOK, LaneOK, ChannelOK, WriterOK, StoreOK
<1>3. InOrder'
  BY <1>1 DEF IndInv, InOrder, Follows
<1>4. RowsOK' /\ Counted' /\ StoredIsCovered'
  BY <1>1, Unwritten, Ranges
<1> QED BY <1>2, <1>3, <1>4 DEF IndInv

LEMMA NextInv == ASSUME IndInv, [Next]_vars PROVE IndInv'
<1>1. ASSUME NEW i \in Sources,
             \/ PopPending(i) \/ Connect(i) \/ ConnectFails(i)
             \/ Frame(i) \/ MalformedFrame(i)
             \/ Reconcile(i) \/ ReconcileFails(i) \/ Disconnected(i)
      PROVE  IndInv'
  BY <1>1, PopPendingInv, ConnectInv, ConnectFailsInv, FrameInv, MalformedFrameInv,
     ReconcileInv, ReconcileFailsInv, DisconnectedInv
<1>2. CASE Send
  BY <1>2, SendInv
<1>3. CASE Receive \/ Persist
  BY <1>3, ReceiveInv, PersistInv
<1>4. CASE Shutdown \/ Drained \/ Crash \/ Start \/ Tick
  BY <1>4, ShutdownInv, DrainedInv, CrashInv, StartInv, TickInv
<1>5. CASE UNCHANGED vars
  BY <1>5, StutterInv
<1> QED BY <1>1, <1>2, <1>3, <1>4, <1>5 DEF Next, Forwarder

\* The invariant is inductive.
THEOREM Inductive == Spec => []IndInv
<1>1. Init => IndInv
  BY InitInv
<1>2. IndInv /\ [Next]_vars => IndInv'
  BY NextInv
<1> QED BY <1>1, <1>2, PTL DEF Spec

\* A notification that the writer may refuse is never on its way.
LEMMA FitsWriter == IndInv => LaneFitsWriter
<1> SUFFICES ASSUME IndInv PROVE LaneFitsWriter
  OBVIOUS
<1>1. Types
  BY DEF IndInv
<1>2. CaptureTypeOK
  <2>1. \A m \in Messages : m \in Notification
    BY DEF Messages, Notification
  <2>2. \A q \in Seq(Messages) : q \in Seq(Notification)
    BY <2>1
  <2>3. stream \in [Sources -> [open : Nat, pending : Seq(Notification),
                                generation : Nat, attempts : Nat]]
    <3>1. \A x \in Streams : x \in [open : Nat, pending : Seq(Notification),
                                    generation : Nat, attempts : Nat]
      BY <2>2 DEF Streams
    <3> QED BY <1>1, <3>1 DEF Types, StreamOK
  <2>4. channel \in Seq(Notification) /\ Len(channel) <= Capacity
    BY <1>1, <2>2 DEF Types, ChannelOK
  <2>5. sessions \in Seq([source : Nat, sequence : Nat, first : 0..MaxTime,
                          last : 0..MaxTime, counted : Seq(Notification)])
    <3> DEFINE wide == [source : Nat, sequence : Nat, first : 0..MaxTime,
                        last : 0..MaxTime, counted : Seq(Notification)]
    <3>1. \A x \in Rows : x \in wide
      BY <2>2 DEF Rows
    <3>2. sessions \in Seq(Rows)
      BY <1>1 DEF Types, StoreOK
    <3> HIDE DEF wide
    <3>3. sessions \in Seq(wide)
      BY <3>1, <3>2
    <3> QED BY <3>3 DEF wide
  <2> QED BY <1>1, <2>3, <2>4, <2>5
          DEF CaptureTypeOK, Types, ProcessOK, WireOK, LaneOK, WriterOK, StoreOK, Connections
<1>3. NeverRefused
  <2> SUFFICES ASSUME writer.phase = "idle", channel # <<>>, Refused(Head(channel)) PROVE FALSE
    BY DEF NeverRefused
  <2> DEFINE d == Head(channel)
  <2>1. /\ d.session \in Nat /\ d.session >= 1 /\ writer.session <= d.session
        /\ writer.session = d.session => Latest.source = d.source
    BY HeadOfChannel
  <2> HIDE DEF d
  <2>2. writer.session \in Nat
    BY <1>1 DEF Types, WriterOK
  <2>3. d.session = writer.session /\ ExtendRefused(sessions, writer.row, d.source, d.session, clock)
    BY <2>1, <2>2 DEF Refused, d
  <2>4. /\ writer.row = Len(sessions) /\ writer.row >= 1
        /\ sessions[writer.row].sequence = d.session /\ sessions[writer.row].source = d.source
    BY <2>1, <2>3 DEF IndInv, RowsOK, Latest
  <2>5. writer.row \in 1..Len(sessions)
    BY <1>1, <2>4 DEF Types, StoreOK
  <2>6. sessions[writer.row].last <= clock /\ sessions[writer.row].last \in Nat /\ clock \in Nat
    <3>1. sessions[writer.row] \in Rows /\ clock \in Nat
      BY <1>1, <2>5, Ranges
    <3> QED BY SMTT(30), <2>5, <3>1 DEF IndInv, RowsOK, Rows
  <2> QED BY <2>3, <2>4, <2>6 DEF ExtendRefused
<1> QED BY <1>2, <1>3 DEF LaneFitsWriter

\* The state keeps its shape, and the checks of the writer and of the tables
\* (run_pump_realtime_session_writer, fast_realtime_coverage.rs) never fail
\* on what the forwarder sends, however streams fail, sources alternate and
\* the process ends and starts again.
THEOREM LaneAlwaysFits == Spec => []LaneFitsWriter
<1>1. IndInv => LaneFitsWriter
  BY FitsWriter
<1> QED BY <1>1, Inductive, PTL

\* What HistoryStands says of one step.
LEMMA HistoryStep ==
    ASSUME IndInv, [Next]_vars
    PROVE  [/\ \A r \in 1..Len(sessions) :
                 /\ r < Len(sessions) => sessions'[r] = sessions[r]
                 /\ sessions'[r].first = sessions[r].first
                 /\ sessions'[r].last >= sessions[r].last
            /\ \A t \in Trades : Stored(evidence, t) => evidence'[t] = evidence[t]
            /\ conflicts \subseteq conflicts']_vars
<1> DEFINE H == /\ \A r \in 1..Len(sessions) :
                     /\ r < Len(sessions) => sessions'[r] = sessions[r]
                     /\ sessions'[r].first = sessions[r].first
                     /\ sessions'[r].last >= sessions[r].last
                /\ \A t \in Trades : Stored(evidence, t) => evidence'[t] = evidence[t]
                /\ conflicts \subseteq conflicts'
<1> SUFFICES H
  OBVIOUS
<1>1. Types
  BY DEF IndInv
<1>2. \A r \in 1..Len(sessions) : sessions[r].last \in Nat
  <2> TAKE r \in 1..Len(sessions)
  <2>1. sessions[r] \in Rows
    BY <1>1, Ranges
  <2> QED BY <2>1 DEF Rows
<1>3. CASE UNCHANGED durable
  BY <1>2, <1>3 DEF durable
<1>4. CASE Receive
  <2> DEFINE d == Head(channel)
             n == Len(sessions)
  <2>1. evidence' = evidence /\ conflicts' = conflicts /\ channel # <<>>
    BY <1>4 DEF Receive
  <2>2. d \in Messages /\ d.session >= 1 /\ d.session \in Nat
    BY <2>1, HeadOfChannel
  <2>3. CASE OpenSession(d)
    <3> DEFINE new == [source |-> d.source, sequence |-> d.session, first |-> clock,
                       last |-> clock, counted |-> <<d>>]
    <3>1. sessions' = Append(sessions, new) /\ sessions \in Seq(Rows)
      BY <1>1, <2>3 DEF OpenSession, BeginSession, Types, StoreOK
    <3> HIDE DEF new
    <3>2. \A r \in 1..n : sessions'[r] = sessions[r]
      BY <3>1
    <3> QED BY <1>2, <2>1, <3>2
  <2>4. CASE Extend(d)
    <3>1. sessions' = ExtendSession(sessions, writer.row, clock, d) /\ writer.session # 0
      BY <2>2, <2>4 DEF Extend
    <3> HIDE DEF d
    <3>2. Grown(d)
      BY <2>2, <3>1, ExtensionGrows
    <3>3. /\ n \in Nat /\ \A r \in 1..n - 1 : sessions'[r] = sessions[r]
          /\ sessions'[n].first = sessions[n].first
          /\ sessions'[n].last >= sessions[n].last
      BY <3>2 DEF Grown
    <3>4. \A r \in 1..n : r < n => sessions'[r] = sessions[r]
      BY <3>3
    <3>5. \A r \in 1..n : /\ sessions'[r].first = sessions[r].first
                          /\ sessions'[r].last >= sessions[r].last
      <4> TAKE r \in 1..n
      <4>1. CASE r = n
        BY <3>3, <4>1
      <4>2. CASE r \in 1..n - 1
        BY <1>2, <3>3, <4>2
      <4> QED BY <4>1, <4>2, <3>3
    <3> QED BY <2>1, <3>4, <3>5
  <2> QED BY <1>4, <2>3, <2>4 DEF Receive
<1>5. CASE Persist
  <2>1. /\ writer.phase = "storing" /\ UNCHANGED sessions
        /\ evidence' = RecordTrade(evidence, <<writer.taken.signature, writer.part>>,
                                   writer.taken.economics, writer.at)
        /\ conflicts' = Quarantine(evidence, conflicts, <<writer.taken.signature, writer.part>>,
                                   writer.taken.economics)
    BY <1>5 DEF Persist, ObservedAt
  <2>2. /\ <<writer.taken.signature, writer.part>> \in Trades
        /\ writer.taken.economics \in Economics /\ writer.at \in 0..MaxTime
    BY <2>1, WritersTrade
  <2>3. /\ conflicts \subseteq conflicts'
        /\ \A t \in Trades : Stored(evidence, t) => evidence'[t] = evidence[t]
    BY ZenonT(40), <1>1, <2>1, <2>2, RecordedTrade DEF Types
  <2> QED BY <1>2, <2>1, <2>3
<1>6. ASSUME NEW i \in Sources,
             \/ PopPending(i) \/ Connect(i) \/ ConnectFails(i)
             \/ Frame(i) \/ MalformedFrame(i)
             \/ Reconcile(i) \/ ReconcileFails(i) \/ Disconnected(i)
      PROVE  UNCHANGED durable
  BY ZenonT(40), <1>6 DEF PopPending, Connect, ConnectFails, Frame, MalformedFrame, Reconcile,
              ReconcileFails, Disconnected, Deliver
<1>7. ASSUME Send \/ Shutdown \/ Drained \/ Crash \/ Start \/ Tick \/ UNCHANGED vars
      PROVE  UNCHANGED durable
  BY <1>7 DEF Send, Shutdown, Drained, Crash, Start, Tick, vars
<1> HIDE DEF H
<1> QED BY <1>3, <1>4, <1>5, <1>6, <1>7 DEF Next, Forwarder

\* Coverage and evidence agree: whatever is stored lies in a row that counts
\* it, whatever a row counts, but for the last notification of a crash, is
\* stored or in quarantine, and none of it changes afterwards.
THEOREM CoverageAlwaysMatches == Spec => CoverageMatchesEvidence
<1>1. IndInv => CountedThenStored /\ StoredIsCovered
  BY DEF IndInv, Counted
<1>2. Spec => [](CountedThenStored /\ StoredIsCovered)
  BY <1>1, Inductive, PTL
<1>3. Spec => HistoryStands
  <2> DEFINE H == [/\ \A r \in 1..Len(sessions) :
                        /\ r < Len(sessions) => sessions'[r] = sessions[r]
                        /\ sessions'[r].first = sessions[r].first
                        /\ sessions'[r].last >= sessions[r].last
                   /\ \A t \in Trades : Stored(evidence, t) => evidence'[t] = evidence[t]
                   /\ conflicts \subseteq conflicts']_vars
  <2>1. IndInv /\ [Next]_vars => H
    BY HistoryStep
  <2> QED BY <2>1, Inductive, PTL DEF Spec, HistoryStands
<1> QED BY <1>2, <1>3, PTL DEF CoverageMatchesEvidence
-----------------------------------------------------------------------------
(* Where a notification stands among those of its connection.  The line of *)
(* a session runs from the row that counts it through the channel and the  *)
(* forwarder to the stream that will deliver the next one; the invariant   *)
(* says that it has a gap nowhere.                                         *)

\* e comes right after d, where both belong to one session.
Continues(d, e) == d.session = e.session => e.conn = d.conn /\ e.nth = d.nth + 1

\* What the stream s keeps is in line, and the last of it is the last that
\* arrived on the connection it has open.
Lined(s, w) ==
    /\ \A k \in 1..Len(s.pending) - 1 : /\ s.pending[k + 1].conn = s.pending[k].conn
                                        /\ s.pending[k + 1].nth = s.pending[k].nth + 1
    /\ s.open # 0 /\ Len(s.pending) # 0 =>
          /\ s.pending[Len(s.pending)].conn = s.open
          /\ s.pending[Len(s.pending)].nth = w[s.open].arrived

\* d is the last notification before what the stream s will deliver next.
LeftOff(d, s, w) ==
    /\ Len(s.pending) # 0 => s.pending[1].conn = d.conn /\ s.pending[1].nth = d.nth + 1
    /\ Len(s.pending) = 0 /\ s.open # 0 => d.conn = s.open /\ d.nth = w[s.open].arrived

\* The last notification the writer counted, the last it has or will get from
\* the channel, and the last the forwarder delivered.
LastCounted == Latest.counted[Len(Latest.counted)]
LastSent ==
    IF Len(channel) # 0 THEN channel[Len(channel)]
    ELSE IF writer.session # 0 THEN LastCounted ELSE Nothing
LastDelivered == IF lane.phase = "send" THEN lane.held ELSE LastSent

StreamsLined ==
    /\ \A i \in Sources : Lined(stream[i], wire)
    /\ \A i \in Sources : \A j \in Sources :
          i # j /\ stream[i].open = stream[j].open => stream[i].open = 0

\* The forwarder's session is that of a connection its source has had; while
\* the source has it still, it will go on where the session stands.
SessionSource == lane.lastKey[1]
LaneLined ==
    process.state = "up" /\ lane.session # 0 =>
        /\ SessionSource \in Sources
        /\ lane.lastKey[2] <= lane.rebuilds[SessionSource]
        /\ lane.lastKey[2] = lane.rebuilds[SessionSource] =>
              /\ lane.lastKey[3] <= stream[SessionSource].generation
              /\ lane.lastKey[3] = stream[SessionSource].generation =>
                    (LastDelivered.session = lane.session =>
                        LeftOff(LastDelivered, stream[SessionSource], wire))

QueueLined ==
    /\ \A a \in 1..Len(channel) - 1 : Continues(channel[a], channel[a + 1])
    /\ writer.session # 0 => LastCounted.session = writer.session
    /\ writer.session # 0 /\ Len(channel) # 0 => Continues(LastCounted, channel[1])
    /\ lane.phase = "send" => Continues(LastSent, lane.held)
    /\ NoGapInsideSession

NoGaps == StreamsLined /\ LaneLined /\ QueueLined

\* The messages of p came over c, right after the first `before' ones.
Numbered(p, c, before) ==
    \A k \in 1..Len(p) : p[k].conn = c /\ p[k].nth = before + k

\* What arrives is in line.
LEMMA ArrivesInLine ==
    ASSUME NEW c \in Nat, NEW i \in Nat, NEW before \in Nat, NEW most \in Nat,
           NEW early \in Arriving(c, i, before, most)
    PROVE  Numbered(early, c, before)
<1>1. PICK n \in 0..most : early \in
         {[k \in 1..n |-> [session |-> 0, source |-> i,
                           signature |-> said[k][1], economics |-> said[k][2],
                           conn |-> c, nth |-> before + k]] :
              said \in [1..n -> Signatures \X Economics]}
  BY DEF Arriving
<1>2. PICK said \in [1..n -> Signatures \X Economics] :
         early = [k \in 1..n |-> [session |-> 0, source |-> i,
                                  signature |-> said[k][1], economics |-> said[k][2],
                                  conn |-> c, nth |-> before + k]]
  BY <1>1
<1>3. n \in Nat /\ Len(early) = n
  BY <1>2
<1> QED BY <1>2, <1>3 DEF Numbered

\* A stream that keeps just what has arrived since is lined.
LEMMA ArrivedIsLined ==
    ASSUME NEW s \in Streams, NEW w, NEW c, NEW before \in Nat,
           Numbered(s.pending, c, before),
           s.open # 0 => s.open = c /\ w[c].arrived = before + Len(s.pending)
    PROVE  Lined(s, w)
<1> DEFINE p == s.pending
           n == Len(s.pending)
<1>1. n \in Nat
  BY DEF Streams
<1>2. \A k \in 1..n : p[k].conn = c /\ p[k].nth = before + k
  BY DEF Numbered
<1>3. s.open # 0 => s.open = c /\ w[c].arrived = before + n
  OBVIOUS
<1> HIDE DEF p, n
<1>4. \A k \in 1..n - 1 : p[k + 1].conn = p[k].conn /\ p[k + 1].nth = p[k].nth + 1
  <2> TAKE k \in 1..n - 1
  <2>1. k \in 1..n /\ k + 1 \in 1..n /\ before + (k + 1) = (before + k) + 1
    BY <1>1
  <2> QED BY <1>2, <2>1
<1>5. s.open # 0 /\ n # 0 => p[n].conn = s.open /\ p[n].nth = w[s.open].arrived
  <2>1. n # 0 => n \in 1..n
    BY <1>1
  <2> QED BY <1>2, <1>3, <2>1
<1> QED BY <1>4, <1>5 DEF Lined, p, n

\* Closing connections changes nothing of what has arrived on them.
LEMMA CloseKeepsArrived ==
    ASSUME NEW w \in Seq(Connections), NEW cs
    PROVE  \A c \in 1..Len(w) : Close(w, cs)[c].arrived = w[c].arrived
<1> TAKE c \in 1..Len(w)
<1>1. w[c] \in Connections
  OBVIOUS
<1>2. Close(w, cs)[c] = IF c \in cs /\ w[c].closed = Never
                        THEN [w[c] EXCEPT !.closed = clock] ELSE w[c]
  BY DEF Close
<1>3. [w[c] EXCEPT !.closed = clock].arrived = w[c].arrived
  BY <1>1 DEF Connections
<1> QED BY <1>2, <1>3

\* The stream of source i becomes s, and nothing arrives but on its connection.
Moves(i, s) ==
    /\ s \in Streams /\ stream' = [stream EXCEPT ![i] = s]
    /\ Lined(s, wire')
    /\ \A c \in 1..Len(wire) : c # stream[i].open => wire'[c].arrived = wire[c].arrived
    /\ s.open \in {0, stream[i].open, Len(wire) + 1}

\* The other sources have connections of their own.
LEMMA OthersStand ==
    ASSUME Types, StreamsLined, NEW i \in Sources, NEW s, Moves(i, s),
           NEW j \in Sources, j # i
    PROVE  /\ stream'[j] = stream[j]
           /\ stream[j].open # 0 => wire'[stream[j].open].arrived = wire[stream[j].open].arrived
           /\ stream[j].open # 0 => stream[j].open # s.open
<1>1. stream \in [Sources -> Streams] /\ stream[j] \in Streams
  BY DEF Types, StreamOK
<1>2. stream[j].open \in Nat /\ stream[j].open <= Len(wire) /\ Len(wire) \in Nat
  BY <1>1 DEF Types, WireOK, Streams
<1>3. stream[j].open # 0 => stream[j].open # stream[i].open
  BY DEF StreamsLined
<1>4. stream'[j] = stream[j]
  BY <1>1 DEF Moves
<1>5. stream[j].open # 0 => stream[j].open \in 1..Len(wire)
  BY <1>2
<1>6. stream[j].open # Len(wire) + 1
  BY <1>2
<1> QED BY <1>3, <1>4, <1>5, <1>6 DEF Moves

LEMMA MovesLined ==
    ASSUME Types, StreamsLined, NEW i \in Sources, NEW s, Moves(i, s), Sources' = Sources
    PROVE  StreamsLined'
<1>1. stream'[i] = s
  BY DEF Moves, Types, StreamOK
<1>2. ASSUME NEW j \in Sources PROVE Lined(stream'[j], wire')
  <2>1. CASE j = i
    BY <1>1, <2>1 DEF Moves
  <2>2. CASE j # i
    <3>1. Lined(stream[j], wire)
      BY DEF StreamsLined
    <3> QED BY <2>2, <3>1, OthersStand DEF Lined
  <2> QED BY <2>1, <2>2
<1>3. ASSUME NEW j \in Sources, NEW k \in Sources, j # k, stream'[j].open = stream'[k].open
      PROVE  stream'[j].open = 0
  <2>1. CASE j # i /\ k # i
    BY <1>3, <2>1, OthersStand DEF StreamsLined
  <2>2. CASE j = i
    BY <1>1, <1>3, <2>2, OthersStand
  <2>3. CASE k = i
    BY <1>1, <1>3, <2>3, OthersStand
  <2> QED BY <2>1, <2>2, <2>3
<1> QED BY <1>2, <1>3 DEF StreamsLined

\* The line up to the forwarder stands while what it is made of does.
LEMMA QueueStands ==
    ASSUME QueueLined, UNCHANGED <<channel, writer, sessions>>,
           lane'.phase = "send" => lane'.phase = lane.phase /\ lane'.held = lane.held
    PROVE  QueueLined' /\ LastSent' = LastSent
<1>1. LastCounted' = LastCounted
  BY DEF LastCounted, Latest
<1>2. LastSent' = LastSent
  BY <1>1 DEF LastSent
<1> QED BY <1>1, <1>2 DEF QueueLined, NoGapInsideSession

\* The stream of i goes on where it was, or is another one to the session.
Goes(i, s) ==
    \/ lane'.rebuilds = [lane.rebuilds EXCEPT ![i] = @ + 1]
    \/ lane'.rebuilds = lane.rebuilds /\ s.generation = stream[i].generation + 1
    \/ /\ lane'.rebuilds = lane.rebuilds /\ s.generation = stream[i].generation
       /\ \A d : LeftOff(d, stream[i], wire) => LeftOff(d, s, wire')

LEMMA QuietLined ==
    ASSUME IndInv, NoGaps, process.state = "up", Quiet, NEW i \in Sources, NEW s,
           Moves(i, s), Goes(i, s)
    PROVE  NoGaps'
<1>1. Types /\ StreamsLined /\ LaneLined /\ QueueLined
  BY DEF IndInv, NoGaps
<1>2. /\ UNCHANGED <<process, channel, writer, sessions>>
      /\ lane.phase = "poll" /\ lane'.phase = "poll"
      /\ lane'.session = lane.session /\ lane'.lastKey = lane.lastKey
  BY DEF Quiet, durable
<1>3. Sources' = Sources
  BY <1>2 DEF Sources, N
<1>4. StreamsLined'
  BY <1>1, <1>3, MovesLined
<1>5. QueueLined' /\ LastSent' = LastSent
  BY <1>1, <1>2, QueueStands
<1>6. LastDelivered' = LastDelivered /\ SessionSource' = SessionSource
  BY <1>2, <1>5 DEF LastDelivered, SessionSource
<1>7. LaneLined'
  <2> SUFFICES ASSUME lane.session # 0 PROVE LaneLined'
    BY <1>2 DEF LaneLined
  <2> DEFINE k == SessionSource
  <2>1. /\ k \in Sources /\ lane.lastKey[2] <= lane.rebuilds[k]
        /\ lane.lastKey[2] = lane.rebuilds[k] =>
              /\ lane.lastKey[3] <= stream[k].generation
              /\ lane.lastKey[3] = stream[k].generation =>
                    (LastDelivered.session = lane.session =>
                        LeftOff(LastDelivered, stream[k], wire))
    BY <1>1 DEF LaneLined
  <2>2. /\ lane.lastKey[2] \in Nat /\ lane.lastKey[3] \in Nat /\ lane.rebuilds[k] \in Nat
        /\ stream[k].generation \in Nat
    <3>1. lane.lastKey \in Nat \X Nat \X Nat /\ lane.rebuilds \in [Sources -> Nat]
      BY <1>1 DEF Types, LaneOK
    <3>2. stream[k] \in Streams
      BY <1>1, <2>1 DEF Types, StreamOK
    <3> QED BY <2>1, <3>1, <3>2 DEF Streams
  <2>3. lane'.rebuilds[k] = lane.rebuilds[k] \/ (k = i /\ lane'.rebuilds[k] = lane.rebuilds[k] + 1)
    <3>1. lane.rebuilds \in [Sources -> Nat]
      BY <1>1 DEF Types, LaneOK
    <3> HIDE DEF k
    <3> QED BY <2>1, <3>1 DEF Goes
  <2> HIDE DEF k
  <2>4. CASE k # i
    <3>1. /\ stream'[k] = stream[k]
          /\ stream[k].open # 0 => wire'[stream[k].open].arrived = wire[stream[k].open].arrived
      BY <1>1, <2>1, <2>4, OthersStand
    <3>2. LeftOff(LastDelivered, stream[k], wire) => LeftOff(LastDelivered, stream[k], wire')
      BY <3>1 DEF LeftOff
    <3>3. lane'.rebuilds[k] = lane.rebuilds[k]
      BY <2>3, <2>4
    <3> QED BY <1>2, <1>3, <1>6, <2>1, <3>1, <3>2, <3>3 DEF LaneLined, k
  <2>5. CASE k = i /\ lane'.rebuilds[k] = lane.rebuilds[k] + 1
    <3>1. lane.lastKey[2] <= lane'.rebuilds[k] /\ lane.lastKey[2] # lane'.rebuilds[k]
      BY <2>1, <2>2, <2>5
    <3> QED BY <1>2, <1>3, <1>6, <2>1, <3>1 DEF LaneLined, k
  <2>6. CASE k = i /\ lane'.rebuilds[k] = lane.rebuilds[k]
    <3>1. stream'[k] = s
      BY <1>1, <2>6 DEF Moves, Types, StreamOK
    <3>2. \/ s.generation = stream[k].generation + 1
          \/ /\ s.generation = stream[k].generation
             /\ \A d : LeftOff(d, stream[k], wire) => LeftOff(d, s, wire')
      <4>1. lane'.rebuilds # [lane.rebuilds EXCEPT ![i] = @ + 1]
        <5>1. lane.rebuilds \in [Sources -> Nat]
          BY <1>1 DEF Types, LaneOK
        <5> QED BY <2>2, <2>6, <5>1
      <4> QED BY <2>6, <4>1 DEF Goes
    <3>3. CASE s.generation = stream[k].generation + 1
      <4>1. lane.lastKey[2] = lane.rebuilds[k] =>
              lane.lastKey[3] <= s.generation /\ lane.lastKey[3] # s.generation
        BY <2>1, <2>2, <3>3
      <4> QED BY <1>2, <1>3, <1>6, <2>1, <2>6, <3>1, <4>1 DEF LaneLined, k
    <3>4. CASE /\ s.generation = stream[k].generation
               /\ \A d : LeftOff(d, stream[k], wire) => LeftOff(d, s, wire')
      <4>1. LeftOff(LastDelivered, stream[k], wire) => LeftOff(LastDelivered, s, wire')
        BY <3>4
      <4> QED BY <1>2, <1>3, <1>6, <2>1, <2>6, <3>1, <3>4, <4>1 DEF LaneLined, k
    <3> QED BY <3>2, <3>3, <3>4
  <2> QED BY <2>3, <2>4, <2>5, <2>6
<1> QED BY <1>4, <1>5, <1>7 DEF NoGaps

\* What stands between the writer and the forwarder is of the forwarder's
\* session at the latest.
LEMMA SentIsNotLater ==
    ASSUME IndInv, NoGaps, process.state = "up"
    PROVE  LastSent.session \in Nat /\ LastSent.session <= lane.session
<1>1. Types
  BY DEF IndInv
<1>2. Len(channel) \in Nat /\ lane.session \in Nat
  BY <1>1, Ranges
<1>3. CASE Len(channel) # 0
  <2>1. Len(channel) \in 1..Len(channel)
    BY <1>2, <1>3
  <2>2. channel[Len(channel)].session \in Nat
    BY <1>1, <2>1, Ranges DEF Messages
  <2> QED BY <1>3, <2>1, <2>2 DEF LastSent, IndInv, InOrder
<1>4. CASE Len(channel) = 0 /\ writer.session # 0
  <2>1. LastSent.session = writer.session
    BY <1>4 DEF LastSent, NoGaps, QueueLined
  <2>2. writer.session \in Nat
    BY <1>1 DEF Types, WriterOK
  <2> QED BY <2>1, <2>2 DEF IndInv, InOrder
<1>5. CASE Len(channel) = 0 /\ writer.session = 0
  <2>1. LastSent.session = 0
    BY <1>5 DEF LastSent, Nothing
  <2> QED BY <1>2, <2>1
<1> QED BY <1>3, <1>4, <1>5

\* The forwarder takes the next notification of a stream.
LEMMA DeliverLined ==
    ASSUME IndInv, NoGaps, process.state = "up", lane.phase = "poll",
           NEW i \in Sources, NEW s, NEW d \in Messages, Moves(i, s), Deliver(i, s, d),
           s.generation = stream[i].generation,
           \A e : LeftOff(e, stream[i], wire) => d.conn = e.conn /\ d.nth = e.nth + 1,
           \A e : e.conn = d.conn /\ e.nth = d.nth => LeftOff(e, s, wire')
    PROVE  NoGaps'
<1> DEFINE key == SessionKey(i, s)
           session == SessionOf(key)
           held == [d EXCEPT !.session = session]
<1>1. Types /\ StreamsLined /\ LaneLined /\ QueueLined
  BY DEF IndInv, NoGaps
<1>2. /\ lane' = BindSession(i, key, d) /\ UNCHANGED <<process, channel, writer, sessions>>
  BY DEF Deliver, durable
<1>3. Sources' = Sources
  BY <1>2 DEF Sources, N
<1>4. held.session = session /\ held.conn = d.conn /\ held.nth = d.nth
  BY DEF Messages
<1>5. key[1] = i /\ key[2] = lane.rebuilds[i] /\ key[3] = stream[i].generation
  BY DEF SessionKey
<1>6. /\ lane'.phase = "send" /\ lane'.held = held /\ lane'.session = session
      /\ lane'.lastKey = key /\ lane'.rebuilds = lane.rebuilds
  <2>1. LaneOK
    BY <1>1 DEF Types
  <2> HIDE DEF key, session, held
  <2>2. lane' = [lane EXCEPT !.phase = "send", !.active = i, !.round = 0, !.reconnects = 0,
                             !.lastKey = key, !.session = session, !.held = held]
    BY <1>2 DEF BindSession, key, session, held
  <2> QED BY <2>1, <2>2 DEF LaneOK
<1>7. LastSent.session = session =>
        session = lane.session /\ lane.lastKey = key
  <2>1. LastSent.session \in Nat /\ LastSent.session <= lane.session /\ lane.session \in Nat
    BY <1>1, SentIsNotLater, Ranges
  <2>2. session = IF lane.lastKey = key THEN lane.session ELSE lane.session + 1
    BY DEF SessionOf
  <2> HIDE DEF key, session
  <2> QED BY <2>1, <2>2
<1>8. lane.lastKey = key => lane.session # 0
  <2>1. i # 0
    BY <1>1, Ranges
  <2>2. lane.lastKey = key => lane.lastKey # NoKey
    BY <1>5, <2>1 DEF NoKey
  <2> QED BY <2>2 DEF IndInv, InOrder
<1>9. stream'[i] = s /\ LastDelivered = LastSent
  BY <1>1 DEF Moves, Types, StreamOK, LastDelivered
<1> HIDE DEF key, session, held
<1>10. Continues(LastSent, held)
  <2> SUFFICES ASSUME LastSent.session = session
               PROVE  held.conn = LastSent.conn /\ held.nth = LastSent.nth + 1
    BY <1>4 DEF Continues
  <2>1. session = lane.session /\ lane.lastKey = key /\ lane.session # 0
    BY <1>7, <1>8
  <2>2. LeftOff(LastSent, stream[i], wire)
    BY <1>1, <1>5, <1>9, <2>1 DEF LaneLined, SessionSource
  <2> QED BY <1>4, <2>2
<1>11. QueueLined'
  <2>1. LastCounted' = LastCounted
    BY <1>2 DEF LastCounted, Latest
  <2>2. LastSent' = LastSent
    BY <1>2, <2>1 DEF LastSent
  <2> QED BY <1>1, <1>2, <1>6, <1>10, <2>1, <2>2 DEF QueueLined, NoGapInsideSession
<1>12. LaneLined'
  <2>1. LastDelivered' = held /\ SessionSource' = i
    BY <1>5, <1>6 DEF LastDelivered, SessionSource
  <2>2. LeftOff(held, s, wire')
    BY <1>4
  <2>3. lane.rebuilds[i] \in Nat /\ s.generation \in Nat
    BY <1>1, Ranges DEF Moves, Streams
  <2> QED BY <1>3, <1>5, <1>6, <1>9, <2>1, <2>2, <2>3 DEF LaneLined
<1>13. StreamsLined'
  BY <1>1, <1>3, MovesLined
<1> QED BY <1>11, <1>12, <1>13 DEF NoGaps

\* Nothing is left of the line when the process ends.
LEMMA EndsLined ==
    ASSUME Types, NoGaps, Ends
    PROVE  NoGaps'
<1>1. /\ process'.state = "down" /\ process'.sources = process.sources /\ channel' = <<>>
      /\ lane' = FreshLane /\ writer' = FreshWriter /\ sessions' = sessions
      /\ stream' = [i \in Sources |-> FreshStream]
  BY DEF Ends, ProcessEnds, durable, Types, ProcessOK
<1>2. Sources' = Sources
  BY <1>1, SourcesStay
<1>3. lane'.phase = "poll" /\ writer'.session = 0 /\ Len(channel') = 0
  BY <1>1 DEF FreshLane, FreshWriter
<1>4. StreamsLined'
  <2>1. \A i \in Sources : stream'[i].pending = <<>> /\ stream'[i].open = 0
    BY <1>1 DEF FreshStream
  <2>2. \A i \in Sources : Lined(stream'[i], wire')
    BY <2>1 DEF Lined
  <2> QED BY <1>2, <2>1, <2>2 DEF StreamsLined
<1>5. NoGapInsideSession' /\ Len(channel') - 1 < 1
  BY <1>1, <1>3 DEF NoGaps, QueueLined, NoGapInsideSession
<1>6. QueueLined'
  BY <1>3, <1>5 DEF QueueLined
<1> QED BY <1>1, <1>4, <1>6 DEF NoGaps, LaneLined

\* A rebuilt stream is another one to the session.
LEMMA RebuildLined ==
    ASSUME IndInv, NoGaps, process.state = "up", lane.phase = "poll",
           NEW i \in Sources, NEW w \in Seq(Connections), Len(w) = Len(wire),
           \A c \in 1..Len(wire) : c # stream[i].open => w[c].arrived = wire[c].arrived,
           NEW reconnects, RebuildStream(i, w, reconnects), UNCHANGED <<clock, durable>>
    PROVE  NoGaps'
<1>1. LaneOK
  BY DEF IndInv, Types
<1>2. Quiet
  BY <1>1 DEF Quiet, LaneOK, RebuildStream
<1>3. wire' = Close(w, {stream[i].open}) /\ stream' = [stream EXCEPT ![i] = FreshStream]
  BY DEF RebuildStream
<1>4. \A c \in 1..Len(wire) : c # stream[i].open => wire'[c].arrived = wire[c].arrived
  BY <1>3, CloseKeepsArrived
<1>5. FreshStream \in Streams /\ FreshStream.open = 0 /\ Lined(FreshStream, wire')
  BY DEF FreshStream, Streams, Lined
<1>6. Moves(i, FreshStream)
  BY <1>3, <1>4, <1>5 DEF Moves
<1>7. Goes(i, FreshStream)
  BY <1>1 DEF Goes, RebuildStream, LaneOK
<1> QED BY <1>2, <1>6, <1>7, QuietLined

\* What a failed stream kept is delivered, should its source have its turn
\* again before it is rebuilt.
LEMMA ErrorLined ==
    ASSUME IndInv, NoGaps, process.state = "up", lane.phase = "poll",
           NEW i \in Sources, NEW s \in Streams, NEW w \in Seq(Connections), Len(w) = Len(wire),
           \A c \in 1..Len(wire) : c # stream[i].open => w[c].arrived = wire[c].arrived,
           s.open = 0, s.generation = stream[i].generation, Lined(s, w),
           \A d : LeftOff(d, stream[i], wire) => LeftOff(d, s, w),
           RetryableError(i, s, w) \/ InvalidResponse(i, w), UNCHANGED <<clock, durable>>
    PROVE  NoGaps'
<1>1. Types /\ LaneOK
  BY DEF IndInv, Types
<1>2. CASE NextSource(i, s, w)
  <2>1. Quiet /\ lane'.rebuilds = lane.rebuilds
    BY <1>1, <1>2 DEF Quiet, LaneOK, NextSource
  <2>2. stream' = [stream EXCEPT ![i] = s] /\ wire' = Close(w, {stream[i].open})
    BY <1>2 DEF NextSource
  <2>3. \A c \in 1..Len(wire) : c # stream[i].open => wire'[c].arrived = wire[c].arrived
    BY <2>2, CloseKeepsArrived
  <2>4. Lined(s, wire') /\ \A d : LeftOff(d, s, w) => LeftOff(d, s, wire')
    BY DEF Lined, LeftOff
  <2>5. Moves(i, s)
    BY <2>2, <2>3, <2>4 DEF Moves
  <2>6. Goes(i, s)
    BY <2>1, <2>4 DEF Goes
  <2> QED BY <2>1, <2>5, <2>6, QuietLined
<1>3. ASSUME NEW reconnects, RebuildStream(i, w, reconnects) PROVE NoGaps'
  BY <1>3, RebuildLined
<1>4. CASE ForwarderEnds(w)
  <2>1. Ends
    BY <1>4 DEF ForwarderEnds, LaneEnds, Ends
  <2> QED BY <1>1, <2>1, EndsLined
<1> QED BY <1>2, <1>3, <1>4
        DEF RetryableError, RetryPublic, RoundFails, InvalidResponse

\* What arrives on the connection a stream has open.
Arrived(i, early, w) ==
    LET c == stream[i].open
        before == wire[c].arrived
    IN  /\ c \in 1..Len(wire) /\ before \in Nat
        /\ early \in Seq(Messages) /\ Len(early) \in Nat
        /\ Numbered(early, c, before)
        /\ w \in Seq(Connections) /\ Len(w) = Len(wire) /\ w[c].arrived = before + Len(early)
        /\ \A b \in 1..Len(wire) : b # c => w[b].arrived = wire[b].arrived

LEMMA ArrivesOnOpen ==
    ASSUME IndInv, NEW i \in Sources, Reading(i), NEW most \in Nat,
           NEW early \in Arriving(stream[i].open, i, wire[stream[i].open].arrived, most),
           NEW w, w = [wire EXCEPT ![stream[i].open].arrived = @ + Len(early)]
    PROVE  Ready(i) /\ Arrived(i, early, w)
<1> DEFINE c == stream[i].open
           before == wire[c].arrived
<1>1. Ready(i) /\ c # 0
  BY Polled DEF Reading
<1>2. c \in 1..Len(wire) /\ c \in Nat /\ i \in Nat /\ wire \in Seq(Connections)
  BY <1>1, SMTT(30) DEF Ready
<1>3. early \in Arriving(c, i, before, most)
  OBVIOUS
<1>4. w = [wire EXCEPT ![c].arrived = @ + Len(early)]
  OBVIOUS
<1> HIDE DEF c
<1>5. wire[c] \in Connections /\ before \in Nat
  <2>1. wire[c] \in Connections
    BY <1>2
  <2> QED BY <2>1 DEF Connections
<1> HIDE DEF before
<1>6. early \in Seq(Messages) /\ Len(early) \in Nat
  <2>1. Carried(early, i)
    BY <1>2, <1>3, <1>5, ArrivingIsTyped
  <2> QED BY <2>1 DEF Carried
<1>7. Numbered(early, c, before)
  BY <1>2, <1>3, <1>5, ArrivesInLine
<1>8. w \in Seq(Connections) /\ Len(w) = Len(wire)
  <2>1. LET more == [wire EXCEPT ![c].arrived = @ + Len(early)]
        IN  more \in Seq(Connections) /\ Len(more) = Len(wire)
    BY <1>2, <1>6, CarriesMore
  <2> QED BY <1>4, <2>1
<1> DEFINE more == [wire[c] EXCEPT !.arrived = @ + Len(early)]
<1>9. more.arrived = before + Len(early) /\ w = [wire EXCEPT ![c] = more]
  BY <1>4, <1>5 DEF Connections, before
<1> HIDE DEF more
<1>10. w[c] = more /\ \A b \in 1..Len(wire) : b # c => w[b] = wire[b]
  BY <1>2, <1>9
<1> QED BY <1>1, <1>2, <1>5, <1>6, <1>7, <1>8, <1>9, <1>10 DEF Arrived, c, before

\* A stream that was empty and keeps what arrived goes on where it was.
LEMMA KeepsArrived ==
    ASSUME NEW i \in Sources, NEW early, NEW w, Arrived(i, early, w),
           Len(stream[i].pending) = 0,
           NEW s \in Streams, s.pending = early, s.open \in {0, stream[i].open}
    PROVE  Lined(s, w) /\ \A d : LeftOff(d, stream[i], wire) => LeftOff(d, s, w)
<1> DEFINE c == stream[i].open
           before == wire[c].arrived
<1>1. /\ c # 0 /\ before \in Nat /\ Len(early) \in Nat
      /\ Numbered(early, c, before) /\ w[c].arrived = before + Len(early)
  BY DEF Arrived
<1>2. ASSUME NEW d, LeftOff(d, stream[i], wire) PROVE LeftOff(d, s, w)
  <2>1. d.conn = c /\ d.nth = before
    BY <1>1, <1>2 DEF LeftOff
  <2> HIDE DEF c, before
  <2>2. Len(early) # 0 => early[1].conn = c /\ early[1].nth = before + 1
    BY <1>1 DEF Numbered
  <2>3. Len(early) = 0 => w[c].arrived = before
    BY <1>1
  <2> QED BY <2>1, <2>2, <2>3 DEF LeftOff, c
<1> HIDE DEF c, before
<1>3. Lined(s, w)
  BY <1>1, ArrivedIsLined DEF c
<1> QED BY <1>2, <1>3

\* What the steps of the forwarder find.
LEMMA PolledLined ==
    ASSUME IndInv, NoGaps, NEW i \in Sources, Polling(i)
    PROVE  /\ Ready(i) /\ Lined(stream[i], wire)
           /\ stream[i].pending \in Seq(Messages) /\ Len(stream[i].pending) \in Nat
           /\ stream[i].open # 0 => stream[i].open \in 1..Len(wire)
<1>1. Ready(i) /\ Lined(stream[i], wire)
  BY Polled DEF NoGaps, StreamsLined
<1> QED BY <1>1 DEF Ready

LEMMA PopPendingLined == ASSUME IndInv, NoGaps, NEW i \in Sources, PopPending(i) PROVE NoGaps'
<1> DEFINE p == stream[i].pending
           q == Tail(p)
           s == [stream[i] EXCEPT !.pending = q]
<1>1. Polling(i) /\ p # <<>> /\ wire' = wire /\ Deliver(i, s, Head(p))
  BY DEF PopPending
<1>2. /\ Ready(i) /\ Lined(stream[i], wire) /\ p \in Seq(Messages)
  BY <1>1, PolledLined
<1>3. /\ Len(p) \in Nat /\ Len(p) >= 1 /\ Head(p) = p[1] /\ p[1] \in Messages
      /\ q \in Seq(Messages) /\ Len(q) = Len(p) - 1
      /\ \A k \in 1..Len(q) : q[k] = p[k + 1]
  BY <1>1, <1>2
<1>4. /\ \A k \in 1..Len(p) - 1 : p[k + 1].conn = p[k].conn /\ p[k + 1].nth = p[k].nth + 1
      /\ stream[i].open # 0 => /\ p[Len(p)].conn = stream[i].open
                               /\ p[Len(p)].nth = wire[stream[i].open].arrived
  BY <1>2, <1>3 DEF Lined
<1>5. stream[i] \in Streams
  BY <1>2 DEF Ready
<1> HIDE DEF p, q
<1>6. /\ s \in Streams /\ s.pending = q /\ s.open = stream[i].open
      /\ s.generation = stream[i].generation
  BY <1>3, <1>5 DEF Streams
<1> HIDE DEF s
<1>7. Lined(s, wire)
  <2>1. \A k \in 1..Len(q) - 1 : q[k + 1].conn = q[k].conn /\ q[k + 1].nth = q[k].nth + 1
    <3> TAKE k \in 1..Len(q) - 1
    <3>1. /\ k \in 1..Len(q) /\ k + 1 \in 1..Len(q) /\ k + 1 \in 1..Len(p) - 1
      BY <1>3
    <3>2. q[k] = p[k + 1] /\ q[k + 1] = p[(k + 1) + 1]
      BY <1>3, <3>1
    <3> QED BY <1>4, <3>1, <3>2
  <2>2. Len(q) # 0 => q[Len(q)] = p[Len(p)]
    BY <1>3
  <2> QED BY <1>4, <1>6, <2>1, <2>2 DEF Lined
<1>8. stream' = [stream EXCEPT ![i] = s]
  BY <1>1 DEF Deliver
<1>9. Moves(i, s)
  BY <1>1, <1>6, <1>7, <1>8 DEF Moves
<1>10. \A e : LeftOff(e, stream[i], wire) => p[1].conn = e.conn /\ p[1].nth = e.nth + 1
  BY <1>3 DEF LeftOff, p
<1>11. ASSUME NEW e, e.conn = p[1].conn, e.nth = p[1].nth PROVE LeftOff(e, s, wire')
  <2>1. Len(q) # 0 => q[1].conn = e.conn /\ q[1].nth = e.nth + 1
    <3>1. Len(q) # 0 => 1 \in 1..Len(q) /\ 1 \in 1..Len(p) - 1
      BY <1>3
    <3> QED BY <1>3, <1>4, <1>11, <3>1
  <2>2. Len(q) = 0 => p[1] = p[Len(p)]
    <3>1. Len(q) = 0 => Len(p) = 1
      BY <1>3
    <3> QED BY <3>1
  <2> QED BY <1>1, <1>4, <1>6, <1>11, <2>1, <2>2 DEF LeftOff
<1>12. process.state = "up" /\ lane.phase = "poll"
  BY <1>2 DEF Ready
<1>13. Deliver(i, s, p[1])
  BY <1>1, <1>3
<1> QED BY <1>3, <1>6, <1>9, <1>10, <1>11, <1>12, <1>13, DeliverLined

LEMMA FrameLined == ASSUME IndInv, NoGaps, NEW i \in Sources, Frame(i) PROVE NoGaps'
<1> DEFINE c == stream[i].open
           s == stream[i]
<1>1. Reading(i) /\ Polling(i) /\ Len(s.pending) = 0
  BY DEF Frame, Reading
<1>2. PICK frame \in Arriving(c, i, wire[c].arrived, 1) :
        Len(frame) = 1 /\ Deliver(i, s, frame[1])
  BY DEF Frame
<1>3. wire' = [wire EXCEPT ![c].arrived = @ + Len(frame)]
  BY <1>2 DEF Frame
<1>4. Ready(i) /\ Arrived(i, frame, wire')
  BY <1>1, <1>3, ArrivesOnOpen
<1>5. /\ c # 0 /\ wire'[c].arrived = wire[c].arrived + 1
      /\ \A b \in 1..Len(wire) : b # c => wire'[b].arrived = wire[b].arrived
      /\ frame \in Seq(Messages) /\ Numbered(frame, c, wire[c].arrived)
  BY <1>2, <1>4 DEF Arrived
<1>0. /\ frame[1] \in Messages /\ frame[1].conn = c /\ frame[1].nth = wire[c].arrived + 1
  <2>1. 1 \in 1..Len(frame)
    BY <1>2
  <2> QED BY <1>5, <2>1 DEF Numbered
<1>6. s \in Streams /\ process.state = "up" /\ lane.phase = "poll"
  BY <1>4 DEF Ready
<1>7. Lined(s, wire')
  BY <1>1 DEF Lined
<1>8. stream' = [stream EXCEPT ![i] = s]
  BY <1>2 DEF Deliver
<1>9. Moves(i, s)
  BY <1>5, <1>6, <1>7, <1>8 DEF Moves
<1>10. \A e : LeftOff(e, s, wire) => frame[1].conn = e.conn /\ frame[1].nth = e.nth + 1
  BY <1>0, <1>1, <1>5 DEF LeftOff
<1>11. \A e : e.conn = frame[1].conn /\ e.nth = frame[1].nth => LeftOff(e, s, wire')
  BY <1>0, <1>1, <1>5 DEF LeftOff
<1> QED BY <1>0, <1>2, <1>6, <1>9, <1>10, <1>11, DeliverLined

LEMMA ConnectLined == ASSUME IndInv, NoGaps, NEW i \in Sources, Connect(i) PROVE NoGaps'
<1> DEFINE c == Len(wire) + 1
<1>1. Polling(i) /\ UNCHANGED <<clock, process, lane, channel, writer, durable>>
  BY DEF Connect
<1>2. PICK early \in Arriving(c, i, 0, MaxEarly) :
        /\ stream' = [stream EXCEPT ![i] =
               [open |-> c, pending |-> early,
                generation |-> @.generation + 1, attempts |-> 0]]
        /\ wire' = Append(wire, [opened |-> clock, closed |-> Never, arrived |-> Len(early)])
  BY DEF Connect
<1>3. Ready(i)
  BY <1>1, Polled
<1>4. Len(wire) \in Nat /\ c \in Nat /\ i \in Nat /\ wire \in Seq(Connections)
  BY <1>3 DEF Ready
<1>5. /\ wire'[c].arrived = Len(early)
      /\ \A b \in 1..Len(wire) : wire'[b] = wire[b]
  BY <1>2, <1>4
<1> HIDE DEF c
<1>6. early \in Seq(Messages) /\ Len(early) \in Nat
  <2>1. Carried(early, i)
    BY <1>2, <1>4, ArrivingIsTyped
  <2> QED BY <2>1 DEF Carried
<1>7. Numbered(early, c, 0)
  BY <1>2, <1>4, ArrivesInLine
<1> DEFINE g == stream[i].generation + 1
           s == [open |-> c, pending |-> early, generation |-> g, attempts |-> 0]
<1>8. s \in Streams /\ s.pending = early /\ s.open = c /\ s.generation = stream[i].generation + 1
  <2>1. g \in Nat
    BY <1>3 DEF Ready
  <2> HIDE DEF g
  <2>2. s \in Streams /\ s.pending = early /\ s.open = c /\ s.generation = g
    BY <1>4, <1>6, <2>1 DEF Streams
  <2> QED BY <2>2 DEF g
<1>9. stream' = [stream EXCEPT ![i] = s]
  BY <1>2, <1>3 DEF Ready
<1> HIDE DEF s
<1>10. wire'[c].arrived = 0 + Len(early)
  BY <1>5, <1>6
<1>11. Lined(s, wire')
  BY <1>7, <1>8, <1>10, ArrivedIsLined
<1>12. Moves(i, s)
  BY <1>5, <1>8, <1>9, <1>11 DEF Moves, c
<1>13. Goes(i, s)
  BY <1>1, <1>8 DEF Goes
<1>14. Quiet /\ process.state = "up"
  BY <1>1, <1>3 DEF Quiet, Ready
<1> QED BY <1>12, <1>13, <1>14, QuietLined

LEMMA ConnectFailsLined ==
    ASSUME IndInv, NoGaps, NEW i \in Sources, ConnectFails(i) PROVE NoGaps'
<1> DEFINE a == stream[i].attempts + 1
           s == [stream[i] EXCEPT !.attempts = a]
<1>1. /\ Polling(i) /\ stream[i].pending = <<>> /\ stream[i].open = 0 /\ UNCHANGED <<clock, durable>>
      /\ \/ /\ stream' = [stream EXCEPT ![i] = s]
            /\ UNCHANGED <<process, lane, channel, writer, wire, unhealed>>
         \/ RetryableError(i, s, wire) \/ InvalidResponse(i, wire)
  BY DEF ConnectFails
<1>2. Ready(i)
  BY <1>1, Polled
<1>3. a \in Nat /\ stream[i] \in Streams
  BY <1>2 DEF Ready
<1> HIDE DEF a
<1>4. /\ s \in Streams /\ Len(s.pending) = 0 /\ s.open = 0 /\ s.generation = stream[i].generation
  BY <1>1, <1>3 DEF Streams
<1> HIDE DEF s
<1>5. Lined(s, wire) /\ \A d : LeftOff(d, s, wire)
  BY <1>4 DEF Lined, LeftOff
<1>6. process.state = "up" /\ lane.phase = "poll" /\ wire \in Seq(Connections)
  BY <1>2 DEF Ready
<1>7. CASE /\ stream' = [stream EXCEPT ![i] = s]
           /\ UNCHANGED <<process, lane, channel, writer, wire, unhealed>>
  <2>1. Moves(i, s) /\ Goes(i, s) /\ Quiet
    BY <1>1, <1>4, <1>5, <1>6, <1>7 DEF Moves, Goes, Quiet
  <2> QED BY <1>6, <2>1, QuietLined
<1>8. CASE RetryableError(i, s, wire) \/ InvalidResponse(i, wire)
  BY <1>1, <1>4, <1>5, <1>6, <1>8, ErrorLined
<1> QED BY <1>1, <1>7, <1>8

LEMMA MalformedFrameLined ==
    ASSUME IndInv, NoGaps, NEW i \in Sources, MalformedFrame(i) PROVE NoGaps'
<1>1. Polling(i) /\ InvalidResponse(i, wire) /\ UNCHANGED <<clock, durable>>
  BY DEF MalformedFrame, Reading
<1>2. process.state = "up" /\ lane.phase = "poll" /\ wire \in Seq(Connections) /\ Types
  BY <1>1, Polled DEF Ready, IndInv
<1>3. CASE RebuildStream(i, wire, 0)
  BY <1>1, <1>2, <1>3, RebuildLined
<1>4. CASE ForwarderEnds(wire)
  <2>1. Ends
    BY <1>1, <1>4 DEF ForwarderEnds, LaneEnds, Ends
  <2> QED BY <1>2, <2>1, EndsLined
<1> QED BY <1>1, <1>3, <1>4 DEF InvalidResponse

LEMMA ReconcileLined == ASSUME IndInv, NoGaps, NEW i \in Sources, Reconcile(i) PROVE NoGaps'
<1>1. /\ Reading(i) /\ Len(stream[i].pending) = 0
      /\ UNCHANGED <<clock, process, lane, channel, writer, durable>>
  BY DEF Reconcile, Reading
<1>2. PICK early \in Arriving(stream[i].open, i, wire[stream[i].open].arrived, MaxEarly) :
        /\ stream' = [stream EXCEPT ![i].pending = early]
        /\ wire' = [wire EXCEPT ![stream[i].open].arrived = @ + Len(early)]
  BY DEF Reconcile
<1>3. Ready(i) /\ Arrived(i, early, wire')
  BY <1>1, <1>2, ArrivesOnOpen
<1> DEFINE s == [stream[i] EXCEPT !.pending = early]
<1>4. /\ s \in Streams /\ s.pending = early /\ s.open = stream[i].open
      /\ s.generation = stream[i].generation
  BY <1>3 DEF Ready, Arrived, Streams
<1>5. stream' = [stream EXCEPT ![i] = s]
  BY <1>2
<1> HIDE DEF s
<1>6. Lined(s, wire') /\ \A d : LeftOff(d, stream[i], wire) => LeftOff(d, s, wire')
  BY <1>1, <1>3, <1>4, KeepsArrived
<1>7. Moves(i, s)
  BY <1>3, <1>4, <1>5, <1>6 DEF Moves, Arrived
<1>8. Goes(i, s) /\ Quiet /\ process.state = "up"
  BY <1>1, <1>3, <1>4, <1>6 DEF Goes, Quiet, Ready
<1> QED BY <1>7, <1>8, QuietLined

LEMMA ReconcileFailsLined ==
    ASSUME IndInv, NoGaps, NEW i \in Sources, ReconcileFails(i) PROVE NoGaps'
<1>1. Reading(i) /\ Len(stream[i].pending) = 0 /\ UNCHANGED <<clock, durable>>
  BY DEF ReconcileFails, Reading
<1>2. PICK early \in Arriving(stream[i].open, i, wire[stream[i].open].arrived, MaxEarly) :
        LET s == [stream[i] EXCEPT !.open = 0, !.pending = early]
            w == [wire EXCEPT ![stream[i].open].arrived = @ + Len(early)]
        IN  /\ Fail(Len(early))
            /\ RetryableError(i, s, w) \/ InvalidResponse(i, w)
  BY ZenonT(40) DEF ReconcileFails
<1> DEFINE s == [stream[i] EXCEPT !.open = 0, !.pending = early]
           w == [wire EXCEPT ![stream[i].open].arrived = @ + Len(early)]
<1>3. Ready(i) /\ Arrived(i, early, w)
  BY <1>1, ArrivesOnOpen
<1>4. /\ s \in Streams /\ s.pending = early /\ s.open = 0
      /\ s.generation = stream[i].generation
  BY <1>3 DEF Ready, Arrived, Streams
<1>5. RetryableError(i, s, w) \/ InvalidResponse(i, w)
  BY <1>2
<1> HIDE DEF s, w
<1>6. Lined(s, w) /\ \A d : LeftOff(d, stream[i], wire) => LeftOff(d, s, w)
  BY <1>1, <1>3, <1>4, KeepsArrived
<1>7. /\ w \in Seq(Connections) /\ Len(w) = Len(wire)
      /\ \A c \in 1..Len(wire) : c # stream[i].open => w[c].arrived = wire[c].arrived
      /\ process.state = "up" /\ lane.phase = "poll"
  BY <1>3 DEF Arrived, Ready
<1> QED BY <1>1, <1>4, <1>5, <1>6, <1>7, ErrorLined

LEMMA DisconnectedLined ==
    ASSUME IndInv, NoGaps, NEW i \in Sources, Disconnected(i) PROVE NoGaps'
<1> DEFINE a == stream[i].attempts + 1
           s == [stream[i] EXCEPT !.open = 0, !.attempts = a]
<1>1. /\ Polling(i) /\ stream[i].pending = <<>>
      /\ stream' = [stream EXCEPT ![i].open = 0, ![i].attempts = @ + 1]
      /\ wire' = Close(wire, {stream[i].open})
      /\ UNCHANGED <<clock, process, lane, channel, writer, durable>>
  BY DEF Disconnected, Reading
<1>2. Ready(i)
  BY <1>1, Polled
<1>3. a \in Nat /\ stream[i] \in Streams
  BY <1>2 DEF Ready
<1>4. stream' = [stream EXCEPT ![i] = s]
  BY <1>1, <1>2 DEF Ready
<1> HIDE DEF a
<1>5. /\ s \in Streams /\ Len(s.pending) = 0 /\ s.open = 0 /\ s.generation = stream[i].generation
  BY <1>1, <1>3 DEF Streams
<1> HIDE DEF s
<1>6. Lined(s, wire') /\ \A d : LeftOff(d, s, wire')
  BY <1>5 DEF Lined, LeftOff
<1>7. \A c \in 1..Len(wire) : wire'[c].arrived = wire[c].arrived
  BY <1>1, <1>2, CloseKeepsArrived DEF Ready
<1>8. Moves(i, s)
  BY <1>4, <1>5, <1>6, <1>7 DEF Moves
<1>9. Goes(i, s) /\ Quiet /\ process.state = "up"
  BY <1>1, <1>2, <1>5, <1>6 DEF Goes, Quiet, Ready
<1> QED BY <1>8, <1>9, QuietLined

\* Steps that change neither the streams nor where the forwarder's session
\* stands keep the first two parts.
LEMMA StreamsStand ==
    ASSUME NoGaps, UNCHANGED <<process, stream, wire>>,
           lane'.session = lane.session /\ lane'.lastKey = lane.lastKey
              /\ lane'.rebuilds = lane.rebuilds,
           process.state = "up" => LastDelivered' = LastDelivered
    PROVE  StreamsLined' /\ LaneLined'
<1>1. Sources' = Sources /\ SessionSource' = SessionSource
  BY DEF Sources, N, SessionSource
<1>2. StreamsLined'
  BY <1>1 DEF NoGaps, StreamsLined
<1>3. LaneLined'
  BY <1>1 DEF NoGaps, LaneLined
<1> QED BY <1>2, <1>3

LEMMA SendLined == ASSUME IndInv, NoGaps, Send PROVE NoGaps'
<1> DEFINE e == lane.held
           n == Len(channel)
<1>1. /\ process.state = "up" /\ lane.phase = "send" /\ channel' = Append(channel, e)
      /\ lane' = [lane EXCEPT !.phase = "poll", !.held = Nothing]
      /\ UNCHANGED <<process, stream, writer, sessions, wire>>
  BY DEF Send, durable
<1>2. LaneOK /\ channel \in Seq(Messages)
  BY DEF IndInv, Types, ChannelOK
<1>3. /\ n \in Nat /\ Len(channel') = n + 1 /\ channel'[n + 1] = e
      /\ \A a \in 1..n : channel'[a] = channel[a]
  BY <1>1, <1>2
<1>4. /\ lane'.phase = "poll" /\ lane'.session = lane.session /\ lane'.lastKey = lane.lastKey
      /\ lane'.rebuilds = lane.rebuilds
  BY <1>1, <1>2 DEF LaneOK
<1> HIDE DEF e
<1>5. LastCounted' = LastCounted
  BY <1>1 DEF LastCounted, Latest
<1>6. LastSent' = e /\ LastDelivered = e
  BY <1>1, <1>3 DEF LastSent, LastDelivered, e
<1>7. LastDelivered' = LastDelivered
  BY <1>4, <1>6 DEF LastDelivered
<1>8. QueueLined /\ Continues(LastSent, e)
  BY <1>1 DEF NoGaps, QueueLined, e
<1> HIDE DEF n
<1>9. \A a \in 1..(n + 1) - 1 : Continues(channel'[a], channel'[a + 1])
  <2> TAKE a \in 1..(n + 1) - 1
  <2>1. CASE a = n
    <3>1. n # 0 /\ n \in 1..n /\ LastSent = channel[n]
      BY <1>3, <2>1 DEF LastSent, n
    <3> QED BY <1>3, <1>8, <2>1, <3>1
  <2>2. CASE a # n
    <3>1. a \in 1..n - 1 /\ a \in 1..n /\ a + 1 \in 1..n
      BY <1>3, <2>2
    <3> QED BY <1>3, <1>8, <3>1 DEF QueueLined, n
  <2> QED BY <2>1, <2>2
<1>10. writer.session # 0 => Continues(LastCounted, channel'[1])
  <2>1. CASE n = 0
    <3>1. writer.session # 0 => LastSent = LastCounted
      BY <2>1 DEF LastSent, n
    <3> QED BY <1>3, <1>8, <2>1, <3>1
  <2>2. CASE n # 0
    <3>1. 1 \in 1..n
      BY <1>3, <2>2
    <3> QED BY <1>3, <1>8, <2>2, <3>1 DEF QueueLined, n
  <2> QED BY <2>1, <2>2
<1>11. QueueLined'
  BY <1>1, <1>3, <1>4, <1>5, <1>8, <1>9, <1>10 DEF QueueLined, NoGapInsideSession
<1> QED BY <1>1, <1>4, <1>7, <1>11, StreamsStand DEF NoGaps

LEMMA ShutdownLined == ASSUME IndInv, NoGaps, Shutdown PROVE NoGaps'
<1>1. /\ process'.state = "draining" /\ process'.sources = process.sources
      /\ stream' = [i \in Sources |-> FreshStream] /\ lane' = FreshLane
      /\ UNCHANGED <<channel, writer, sessions>>
  BY DEF Shutdown, durable, IndInv, Types, ProcessOK
<1>2. Sources' = Sources /\ lane'.phase = "poll"
  BY <1>1, SourcesStay DEF FreshLane
<1>3. StreamsLined'
  <2>1. \A i \in Sources : stream'[i].pending = <<>> /\ stream'[i].open = 0
    BY <1>1 DEF FreshStream
  <2>2. \A i \in Sources : Lined(stream'[i], wire')
    BY <2>1 DEF Lined
  <2> QED BY <1>2, <2>1, <2>2 DEF StreamsLined
<1>4. QueueLined'
  BY <1>1, <1>2, QueueStands DEF NoGaps
<1> QED BY <1>1, <1>3, <1>4 DEF NoGaps, LaneLined

LEMMA StartLined == ASSUME IndInv, NoGaps, Start PROVE NoGaps'
<1>1. /\ process.state = "down" /\ process'.sources = process.sources
      /\ UNCHANGED <<stream, lane, channel, writer, sessions, wire>>
  BY DEF Start, volatile, durable, IndInv, Types, ProcessOK
<1>2. lane.session = 0
  BY <1>1 DEF IndInv, Types, FreshLane
<1>3. StreamsLined'
  BY <1>1, SourcesStay DEF NoGaps, StreamsLined
<1>4. QueueLined'
  BY <1>1, QueueStands DEF NoGaps
<1> QED BY <1>1, <1>2, <1>3, <1>4 DEF NoGaps, LaneLined

\* Time passes, a trade is stored, or nothing happens.
LEMMA BesideLined ==
    ASSUME IndInv, NoGaps,
           UNCHANGED <<process, stream, lane, channel, sessions, wire>>,
           writer'.session = writer.session /\ writer'.row = writer.row
    PROVE  NoGaps'
<1>1. LastCounted' = LastCounted
  BY DEF LastCounted, Latest
<1>2. LastSent' = LastSent
  BY <1>1 DEF LastSent
<1>3. LastDelivered' = LastDelivered
  BY <1>2 DEF LastDelivered
<1>4. QueueLined'
  BY <1>1, <1>2 DEF NoGaps, QueueLined, NoGapInsideSession
<1> QED BY <1>3, <1>4, StreamsStand DEF NoGaps

\* The writer takes a notification over and counts it.
LEMMA TakenLined ==
    ASSUME IndInv, NoGaps, channel # <<>>, channel' = Tail(channel),
           UNCHANGED <<process, stream, lane, wire>>,
           writer'.session = Head(channel).session, LastCounted' = Head(channel),
           NoGapInsideSession'
    PROVE  NoGaps'
<1> DEFINE d == Head(channel)
           n == Len(channel)
<1>1. channel \in Seq(Messages)
  BY DEF IndInv, Types, ChannelOK
<1>2. /\ n \in Nat /\ n >= 1 /\ d = channel[1] /\ Len(channel') = n - 1
      /\ \A a \in 1..n - 1 : channel'[a] = channel[a + 1]
  BY <1>1
<1>3. d.session # 0
  <2>1. d.session >= 1 /\ d.session \in Nat
    BY HeadOfChannel
  <2> QED BY <2>1
<1>4. LastSent = channel[n] /\ LastSent' = channel[n]
  <2>1. LastSent = channel[n]
    BY <1>2 DEF LastSent
  <2>2. CASE n = 1
    <3>1. LastSent' = LastCounted' /\ Len(channel') = 0
      BY <1>2, <1>3, <2>2 DEF LastSent
    <3> QED BY <1>2, <2>1, <2>2, <3>1
  <2>3. CASE n # 1
    <3>1. Len(channel') # 0 /\ n - 1 \in 1..n - 1
      BY <1>2, <2>3
    <3>2. LastSent' = channel'[n - 1] /\ (n - 1) + 1 = n
      BY <1>2, <3>1 DEF LastSent
    <3> QED BY <1>2, <2>1, <3>1, <3>2
  <2> QED BY <2>1, <2>2, <2>3
<1>5. LastDelivered' = LastDelivered
  BY <1>4 DEF LastDelivered
<1>6. QueueLined
  BY DEF NoGaps
<1> HIDE DEF d, n
<1>7. \A a \in 1..(n - 1) - 1 : Continues(channel'[a], channel'[a + 1])
  <2> TAKE a \in 1..(n - 1) - 1
  <2>1. a \in 1..n - 1 /\ a + 1 \in 1..n - 1
    BY <1>2
  <2>2. channel'[a] = channel[a + 1] /\ channel'[a + 1] = channel[(a + 1) + 1]
    BY <1>2, <2>1
  <2> QED BY <1>6, <2>1, <2>2 DEF QueueLined, n
<1>8. Len(channel') # 0 => Continues(d, channel'[1])
  <2>1. Len(channel') # 0 => 1 \in 1..n - 1
    BY <1>2
  <2> QED BY <1>2, <1>6, <2>1 DEF QueueLined, n
<1>9. QueueLined'
  BY <1>2, <1>4, <1>6, <1>7, <1>8 DEF QueueLined, d
<1> QED BY <1>5, <1>9, StreamsStand DEF NoGaps

LEMMA OpenSessionLined ==
    ASSUME IndInv, NoGaps, Receive, OpenSession(Head(channel)) PROVE NoGaps'
<1> DEFINE d == Head(channel)
           n == Len(sessions)
           new == [source |-> d.source, sequence |-> d.session, first |-> clock,
                   last |-> clock, counted |-> <<d>>]
<1>1. /\ channel # <<>> /\ channel' = Tail(channel)
      /\ UNCHANGED <<process, stream, lane, wire>>
      /\ sessions' = Append(sessions, new)
      /\ writer'.session = d.session /\ writer'.row = n + 1
  BY DEF Receive, OpenSession, BeginSession, StoringFrom
<1>2. sessions \in Seq(Rows) /\ n \in Nat
  BY DEF IndInv, Types, StoreOK
<1>3. Len(new.counted) = 1 /\ new.counted[1] = d
  OBVIOUS
<1> HIDE DEF d, new
<1>4. /\ Len(sessions') = n + 1 /\ sessions'[n + 1] = new
      /\ \A r \in 1..n : sessions'[r] = sessions[r]
  BY <1>1, <1>2
<1>5. LastCounted' = d
  BY <1>1, <1>3, <1>4 DEF LastCounted, Latest
<1>6. NoGapInsideSession'
  <2> SUFFICES ASSUME NEW r \in 1..n + 1, NEW k \in 1..Len(sessions'[r].counted) - 1
               PROVE  /\ sessions'[r].counted[k + 1].conn = sessions'[r].counted[k].conn
                      /\ sessions'[r].counted[k + 1].nth = sessions'[r].counted[k].nth + 1
    BY <1>4 DEF NoGapInsideSession
  <2>1. r # n + 1
    <3> SUFFICES ASSUME r = n + 1 PROVE FALSE
      OBVIOUS
    <3>1. Len(sessions'[r].counted) = 1
      BY <1>3, <1>4
    <3> QED BY <3>1
  <2>2. r \in 1..n /\ sessions'[r] = sessions[r]
    BY <1>2, <1>4, <2>1
  <2> QED BY <2>2 DEF NoGaps, QueueLined, NoGapInsideSession
<1> QED BY <1>1, <1>5, <1>6, TakenLined DEF d

LEMMA ExtendLined ==
    ASSUME IndInv, NoGaps, Receive, Extend(Head(channel)) PROVE NoGaps'
<1> DEFINE d == Head(channel)
           n == Len(sessions)
           old == sessions[n].counted
           new == sessions'[n].counted
<1>1. /\ channel # <<>> /\ channel' = Tail(channel)
      /\ UNCHANGED <<process, stream, lane, wire>> /\ d.session = writer.session
      /\ sessions' = ExtendSession(sessions, writer.row, clock, d)
      /\ writer'.session = writer.session /\ writer'.row = writer.row
  BY DEF Receive, Extend, StoringFrom
<1>2. d \in Messages /\ d.session # 0 /\ d = channel[1] /\ Len(channel) # 0
  <2>1. d.session >= 1 /\ d.session \in Nat /\ d \in Messages
    BY <1>1, HeadOfChannel
  <2>2. channel \in Seq(Messages)
    BY DEF IndInv, Types, ChannelOK
  <2> QED BY <1>1, <2>1, <2>2
<1> HIDE DEF d
<1>3. Grown(d)
  BY <1>1, <1>2, ExtensionGrows
<1>4. /\ n \in Nat /\ n >= 1 /\ writer.row = n /\ Len(sessions') = n
      /\ \A r \in 1..n - 1 : sessions'[r] = sessions[r]
      /\ new = Append(old, d) /\ old \in Seq(Messages)
  BY <1>3 DEF Grown
<1>5. /\ Len(old) >= 1 /\ Len(old) \in Nat
  <2>1. n \in 1..Len(sessions)
    BY <1>4
  <2> QED BY <1>4, <2>1 DEF IndInv, RowsOK
<1> HIDE DEF n, old, new
<1>6. /\ Len(new) = Len(old) + 1 /\ new[Len(old) + 1] = d
      /\ \A k \in 1..Len(old) : new[k] = old[k]
  BY <1>4
<1>7. LastCounted = old[Len(old)]
  BY <1>4 DEF LastCounted, Latest, old
<1>8. LastCounted' = d
  BY <1>1, <1>4, <1>6 DEF LastCounted, Latest, new
<1>9. /\ Continues(old[Len(old)], d) /\ old[Len(old)].session = d.session
      /\ NoGapInsideSession
  BY <1>1, <1>2, <1>7 DEF NoGaps, QueueLined
<1>10. NoGapInsideSession'
  <2> SUFFICES ASSUME NEW r \in 1..n, NEW k \in 1..Len(sessions'[r].counted) - 1
               PROVE  /\ sessions'[r].counted[k + 1].conn = sessions'[r].counted[k].conn
                      /\ sessions'[r].counted[k + 1].nth = sessions'[r].counted[k].nth + 1
    BY <1>4 DEF NoGapInsideSession
  <2>1. CASE r # n
    <3>1. r \in 1..n - 1 /\ r \in 1..n
      BY <1>4, <2>1
    <3> QED BY <1>4, <1>9, <3>1 DEF NoGapInsideSession, n
  <2>2. CASE r = n
    <3>1. sessions'[r].counted = new
      BY <2>2 DEF new
    <3>2. CASE k = Len(old)
      <4>1. new[k + 1] = d /\ new[k] = old[Len(old)]
        BY <1>5, <1>6, <3>2
      <4> QED BY <1>9, <3>1, <4>1 DEF Continues
    <3>3. CASE k # Len(old)
      <4>1. k \in 1..Len(old) - 1 /\ k \in 1..Len(old) /\ k + 1 \in 1..Len(old)
        BY <1>5, <1>6, <3>1, <3>3
      <4>2. new[k] = old[k] /\ new[k + 1] = old[k + 1]
        BY <1>6, <4>1
      <4>3. n \in 1..Len(sessions)
        BY <1>4 DEF n
      <4> QED BY <1>9, <3>1, <4>1, <4>2, <4>3 DEF NoGapInsideSession, old
    <3> QED BY <3>2, <3>3
  <2> QED BY <2>1, <2>2
<1> QED BY <1>1, <1>8, <1>10, TakenLined DEF d

LEMMA InitLined == Init => NoGaps
<1> SUFFICES ASSUME Init PROVE NoGaps
  OBVIOUS
<1>1. \A i \in Sources : stream[i].pending = <<>> /\ stream[i].open = 0
  BY DEF Init, FreshStream
<1>2. StreamsLined
  <2>1. \A i \in Sources : Lined(stream[i], wire)
    BY <1>1 DEF Lined
  <2> QED BY <1>1, <2>1 DEF StreamsLined
<1>3. LaneLined
  BY DEF LaneLined, Init, FreshLane
<1>4. QueueLined
  BY DEF QueueLined, NoGapInsideSession, Init, FreshLane, FreshWriter
<1> QED BY <1>2, <1>3, <1>4 DEF NoGaps

LEMMA NextLined == ASSUME IndInv, NoGaps, [Next]_vars PROVE NoGaps'
<1>1. ASSUME NEW i \in Sources,
             \/ PopPending(i) \/ Connect(i) \/ ConnectFails(i)
             \/ Frame(i) \/ MalformedFrame(i)
             \/ Reconcile(i) \/ ReconcileFails(i) \/ Disconnected(i)
      PROVE  NoGaps'
  BY <1>1, PopPendingLined, ConnectLined, ConnectFailsLined, FrameLined, MalformedFrameLined,
     ReconcileLined, ReconcileFailsLined, DisconnectedLined
<1>2. CASE Send \/ Shutdown \/ Start
  BY <1>2, SendLined, ShutdownLined, StartLined
<1>3. CASE Drained \/ Crash
  <2>1. Types
    BY DEF IndInv
  <2>2. Ends
    BY <1>3 DEF Drained, Crash, LaneEnds, Ends
  <2> QED BY <2>1, <2>2, EndsLined
<1>4. CASE Receive
  BY <1>4, OpenSessionLined, ExtendLined DEF Receive
<1>5. CASE Persist
  <2>1. /\ UNCHANGED <<process, stream, lane, channel, sessions, wire>>
        /\ writer'.session = writer.session /\ writer'.row = writer.row
    BY <1>5 DEF Persist, IndInv, Types, WriterOK
  <2> QED BY <2>1, BesideLined
<1>6. CASE Tick \/ UNCHANGED vars
  <2>1. UNCHANGED <<process, stream, lane, channel, writer, sessions, wire>>
    BY <1>6 DEF Tick, vars, volatile, durable
  <2> QED BY <2>1, BesideLined
<1> QED BY <1>1, <1>2, <1>3, <1>4, <1>5, <1>6 DEF Next, Forwarder

\* The notifications that a coverage row counts came over one connection and
\* in the order they arrived there, none missing: through pending messages
\* of a changed subscription, failover, rebuilt streams, a full channel and
\* restarts (bounded_pump_realtime.rs, bounded_pump_realtime_failover.rs,
\* runtime.rs), each of which the session's name tells apart.
THEOREM RowsHaveNoGap == Spec => []NoGapInsideSession
<1>1. Init => IndInv /\ NoGaps
  BY InitInv, InitLined
<1>2. (IndInv /\ NoGaps) /\ [Next]_vars => (IndInv /\ NoGaps)'
  BY NextInv, NextLined
<1>3. IndInv /\ NoGaps => NoGapInsideSession
  BY DEF NoGaps, QueueLined
<1> QED BY <1>1, <1>2, <1>3, PTL DEF Spec
=============================================================================
