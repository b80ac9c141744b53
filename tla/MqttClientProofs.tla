-------------------------- MODULE MqttClientProofs --------------------------
(* Proofs about MqttClient and its keepalive, for every value of the        *)
(* constants.                                                               *)
EXTENDS MqttKeepalive, CommandsProofs, SequenceTheorems

-----------------------------------------------------------------------------
(* The operators that the actions are built from.                           *)

(* Clock arithmetic stays within the clock. *)
LEMMA PlusType ==
  ASSUME NEW t \in Ticks, NEW d \in 0 .. TickMod - 1
  PROVE  Plus(t, d) \in Ticks
  BY MqttAssumption DEF Plus, Ticks

LEMMA NoTxType == NoTx \in TxStates
  BY DEF TxStates

LEMMA SendType == ASSUME NEW pkt \in Requests PROVE mqtt_send(pkt) \in TxStates
  BY MqttAssumption DEF mqtt_send, TxStates

LEMMA ClosedType == Closed \in Sockets /\ Opened \in Sockets
<1>1. <<>> \in Seq(Answers) /\ <<>> \in Seq(Requests \cup {GARBAGE})
  OBVIOUS
<1>2. 0 \in 0 .. PktLen - 1
  BY MqttAssumption
<1>3. Closed \in Sockets
  BY <1>1, <1>2, NoTxType DEF Closed, Sockets
<1>4. Opened \in Sockets
  BY <1>3 DEF Opened, Sockets
<1> QED BY <1>3, <1>4

(* A packet that is queued has a part that is not on the wire. *)
LEMMA QueuedType ==
  ASSUME NEW tx \in TxStates, tx # NoTx
  PROVE  /\ tx \in [pkt : Requests, sent : 0 .. PktLen - 1]
         /\ tx.pkt \in Requests /\ tx.sent \in 0 .. PktLen - 1
         /\ PktLen - tx.sent \in 1 .. PktLen - tx.sent
<1>1. tx \in [pkt : Requests, sent : 0 .. PktLen - 1]
  BY DEF TxStates
<1>2. tx.pkt \in Requests /\ tx.sent \in 0 .. PktLen - 1
  BY <1>1
<1> QED BY <1>1, <1>2, MqttAssumption

(* A socket is its fields. *)
LEMMA SockFields ==
  ASSUME NEW sk \in Sockets
  PROVE  /\ sk = [sr |-> sk.sr, busy |-> sk.busy, in |-> sk.in, out |-> sk.out,
                  frame |-> sk.frame, half |-> sk.half, held |-> sk.held, tail |-> sk.tail]
         /\ sk.out \in Seq(Requests \cup {GARBAGE}) /\ sk.in \in Seq(Answers)
         /\ sk.frame \in 0 .. PktLen - 1 /\ sk.held \in TxStates
         /\ sk.busy \in BOOLEAN /\ sk.half \in BOOLEAN /\ sk.tail \in BOOLEAN
  BY DEF Sockets

(* k units that continue the packet on the wire advance the wire, and       *)
(* complete that packet if they are the rest of it; others spoil it.        *)
LEMMA PushedWire ==
  ASSUME NEW tx \in TxStates, tx # NoTx, NEW sk \in Sockets,
         NEW k \in 1 .. PktLen - tx.sent, NEW new, new = Pushed(tx, sk, k)
  PROVE  /\ new \in Sockets
         /\ new.sr = sk.sr /\ new.in = sk.in /\ new.half = sk.half
         /\ new.held = sk.held /\ new.tail = sk.tail /\ new.busy
         /\ sk.frame = tx.sent =>
              \/ tx.sent + k = PktLen /\ new.frame = 0 /\ new.out = Append(sk.out, tx.pkt)
              \/ tx.sent + k < PktLen /\ new.frame = tx.sent + k /\ new.out = sk.out
         /\ sk.frame # tx.sent => new.out = sk.out \/ new.out = Append(sk.out, GARBAGE)
<1> DEFINE sent == IF sk.frame = tx.sent THEN tx.pkt ELSE GARBAGE
           units == sk.frame + k
           frame == IF units < PktLen THEN units ELSE units - PktLen
           out == IF units < PktLen THEN sk.out ELSE Append(sk.out, sent)
<1>1. tx.pkt \in Requests /\ tx.sent \in 0 .. PktLen - 1 /\ sk.frame \in 0 .. PktLen - 1
  BY QueuedType, SockFields
<1>2. new = [sr |-> sk.sr, busy |-> TRUE, in |-> sk.in, out |-> out, frame |-> frame,
             half |-> sk.half, held |-> sk.held, tail |-> sk.tail]
  <2>1. new = [sk EXCEPT !.busy = TRUE, !.frame = frame, !.out = out]
    BY DEF Pushed
  <2> HIDE DEF frame, out, sent, units
  <2> QED BY <2>1, SockFields
<1>3. frame \in 0 .. PktLen - 1
  <2>1. units \in Nat /\ units < 2 * PktLen
    BY <1>1, MqttAssumption
  <2> HIDE DEF units
  <2> QED BY <2>1, MqttAssumption
<1>4. out \in Seq(Requests \cup {GARBAGE})
  <2>1. sent \in Requests \cup {GARBAGE}
    BY <1>1
  <2> HIDE DEF sent, units
  <2> QED BY <2>1, SockFields
<1>5. new \in Sockets
  <2> HIDE DEF frame, out, sent, units
  <2> QED BY <1>2, <1>3, <1>4 DEF Sockets
<1>6. sk.frame = tx.sent /\ tx.sent + k = PktLen => frame = 0 /\ out = Append(sk.out, tx.pkt)
  <2> SUFFICES ASSUME sk.frame = tx.sent, tx.sent + k = PktLen
      PROVE  frame = 0 /\ out = Append(sk.out, tx.pkt)
    OBVIOUS
  <2>1. units = PktLen /\ sent = tx.pkt
    OBVIOUS
  <2> HIDE DEF units, sent
  <2> QED BY <2>1, MqttAssumption
<1>7. sk.frame = tx.sent /\ tx.sent + k # PktLen
        => tx.sent + k < PktLen /\ frame = tx.sent + k /\ out = sk.out
  <2>1. tx.sent + k # PktLen => tx.sent + k < PktLen
    BY <1>1, MqttAssumption
  <2> QED BY <2>1
<1>8. sk.frame # tx.sent => out = sk.out \/ out = Append(sk.out, GARBAGE)
  OBVIOUS
<1> HIDE DEF frame, out, sent, units
<1> QED BY <1>2, <1>5, <1>6, <1>7, <1>8

(* What was kept is out, and it is the packet that was kept unless that was *)
(* misplaced or the end of another.                                         *)
LEMMA FlushedWire ==
  ASSUME NEW sk \in Sockets, sk.held # NoTx, NEW new, new = Flushed(sk)
  PROVE  /\ new \in Sockets
         /\ new.sr = sk.sr /\ new.in = sk.in /\ new.half = sk.half
         /\ new.held = NoTx /\ ~new.tail /\ new.busy
         /\ ~sk.tail /\ sk.frame = sk.held.sent =>
              new.frame = 0 /\ new.out = Append(sk.out, sk.held.pkt)
         /\ sk.tail \/ sk.frame # sk.held.sent =>
              new.out = sk.out \/ new.out = Append(sk.out, GARBAGE)
<1> DEFINE rest == [sk EXCEPT !.held = NoTx, !.tail = FALSE]
<1>1. /\ rest \in Sockets
      /\ rest.sr = sk.sr /\ rest.in = sk.in /\ rest.out = sk.out /\ rest.half = sk.half
      /\ rest.frame = sk.frame /\ rest.held = NoTx /\ rest.tail = FALSE
  BY NoTxType DEF Sockets
<1>2. sk.tail \in BOOLEAN /\ sk.out \in Seq(Requests \cup {GARBAGE}) /\ sk.held \in TxStates
  BY SockFields
<1>3. CASE sk.tail
  <2>1. new = [rest EXCEPT !.busy = TRUE, !.out = Append(sk.out, GARBAGE)]
    BY <1>3 DEF Flushed
  <2>2. Append(sk.out, GARBAGE) \in Seq(Requests \cup {GARBAGE})
    BY <1>2
  <2> DEFINE out == Append(sk.out, GARBAGE)
  <2>3. /\ new \in Sockets /\ new.busy = TRUE /\ new.out = out
        /\ new.sr = rest.sr /\ new.in = rest.in /\ new.half = rest.half
        /\ new.frame = rest.frame /\ new.held = rest.held /\ new.tail = rest.tail
    <3> HIDE DEF rest, out
    <3> QED BY <1>1, <2>1, <2>2 DEF Sockets, out
  <2> HIDE DEF rest
  <2> QED BY <1>1, <1>3, <2>3
<1>4. CASE ~sk.tail
  <2> DEFINE k == PktLen - sk.held.sent
  <2>1. sk.held.sent \in 0 .. PktLen - 1 /\ k \in 1 .. k
    BY <1>2, QueuedType
  <2>2. sk.held.sent + k = PktLen /\ ~(PktLen < PktLen)
    BY <2>1, MqttAssumption
  <2>3. new = Pushed(sk.held, rest, k)
    BY <1>4 DEF Flushed
  <2>4. PICK tx, base : tx = sk.held /\ base = rest
    OBVIOUS
  <2>5. /\ tx \in TxStates /\ tx # NoTx /\ base \in Sockets
        /\ k \in 1 .. PktLen - tx.sent /\ new = Pushed(tx, base, k)
        /\ tx.sent + k = PktLen
    BY <1>1, <1>2, <2>1, <2>2, <2>3, <2>4
  <2>6. /\ new \in Sockets /\ new.sr = base.sr /\ new.in = base.in /\ new.half = base.half
        /\ new.held = base.held /\ new.tail = base.tail /\ new.busy
        /\ base.frame = tx.sent => new.frame = 0 /\ new.out = Append(base.out, tx.pkt)
        /\ base.frame # tx.sent => new.out = base.out \/ new.out = Append(base.out, GARBAGE)
    <3> HIDE DEF rest, k
    <3>1. /\ new \in Sockets /\ new.sr = base.sr /\ new.in = base.in /\ new.half = base.half
          /\ new.held = base.held /\ new.tail = base.tail /\ new.busy
          /\ base.frame = tx.sent =>
               \/ tx.sent + k = PktLen /\ new.frame = 0 /\ new.out = Append(base.out, tx.pkt)
               \/ tx.sent + k < PktLen /\ new.frame = tx.sent + k /\ new.out = base.out
          /\ base.frame # tx.sent => new.out = base.out \/ new.out = Append(base.out, GARBAGE)
      BY <2>5, PushedWire
    <3>2. ~(tx.sent + k < PktLen)
      BY <2>2, <2>5
    <3> QED BY <3>1, <3>2
  <2> HIDE DEF rest, k
  <2> QED BY <1>1, <1>4, <2>4, <2>6
<1> QED BY <1>2, <1>3, <1>4

(* The kinds of outcome of mqtt_tx_pump(): nothing is tried; the record is   *)
(* kept; what was kept goes out, as the whole of tx or as a part of it or   *)
(* as something else; k units are written.                                  *)
Untried(p, tx, sk) ==
  /\ p.tx = tx /\ p.sock = sk /\ p.rc \in {"idle", "error"}
  /\ p.rc = "idle" => tx = NoTx \/ s_ssl = NULL
Waits(p, tx, sk) ==
  tx # NoTx /\ p.rc = "want" /\ p.tx = tx /\ p.sock = Withheld(tx, sk)
Resumes(p, tx, sk) ==
  /\ tx # NoTx /\ ~sk.busy /\ sk.held = tx
  /\ p.rc = "drained" /\ p.tx = NoTx /\ p.sock = Flushed(sk)
Tailed(tx, sk) == [Flushed(sk) EXCEPT !.held = tx, !.tail = TRUE]
Mistakes(p, tx, sk) ==
  /\ tx # NoTx /\ ~sk.busy /\ sk.held # NoTx /\ sk.held # tx
  /\ \/ p.rc = "drained" /\ p.tx = NoTx /\ p.sock = Flushed(sk)
     \/ p.rc = "error" /\ p.tx = tx /\ p.sock = Flushed(sk)
     \/ p.rc = "want" /\ p.tx = tx /\ p.sock = Tailed(tx, sk)
Writes(p, tx, sk) ==
  /\ tx # NoTx /\ ~sk.busy /\ sk.held = NoTx
  /\ \E k \in 1 .. PktLen - tx.sent : p = Written(tx, sk, k)

LEMMA PumpCases ==
  ASSUME NEW tx \in TxStates, NEW sk \in Sockets, NEW p \in mqtt_tx_pump(tx, sk)
  PROVE  \/ Untried(p, tx, sk) \/ Waits(p, tx, sk) \/ Resumes(p, tx, sk)
         \/ Mistakes(p, tx, sk) \/ Writes(p, tx, sk)
<1>1. CASE tx = NoTx \/ s_ssl = NULL
  <2>1. p = Outcome("idle", tx, sk)
    BY <1>1 DEF mqtt_tx_pump
  <2> QED BY <1>1, <2>1 DEF Outcome, Untried
<1>2. CASE ~(tx = NoTx \/ s_ssl = NULL) /\ ~CanSend(sk)
  <2>1. p = Outcome("error", tx, sk)
    BY <1>2 DEF mqtt_tx_pump
  <2> QED BY <2>1 DEF Outcome, Untried
<1>3. CASE ~(tx = NoTx \/ s_ssl = NULL) /\ CanSend(sk) /\ sk.busy
  <2>1. p = Outcome("want", tx, Withheld(tx, sk))
    BY <1>3 DEF mqtt_tx_pump
  <2> QED BY <1>3, <2>1 DEF Outcome, Waits
<1>4. CASE ~(tx = NoTx \/ s_ssl = NULL) /\ CanSend(sk) /\ ~sk.busy /\ sk.held # NoTx
  <2>1. p \in Resumed(tx, sk)
    BY <1>4 DEF mqtt_tx_pump
  <2>2. CASE sk.held = tx
    <3>1. p = Outcome("drained", NoTx, Flushed(sk))
      BY <2>1, <2>2 DEF Resumed
    <3> QED BY <1>4, <2>2, <3>1 DEF Outcome, Resumes
  <2>3. CASE sk.held # tx
    <3>1. \/ p = Outcome("want", tx, [Flushed(sk) EXCEPT !.held = tx, !.tail = TRUE])
          \/ p = Outcome("drained", NoTx, Flushed(sk))
          \/ p = Outcome("error", tx, Flushed(sk))
      BY <2>1, <2>3 DEF Resumed
    <3> QED BY <1>4, <2>3, <3>1 DEF Outcome, Mistakes, Tailed
  <2> QED BY <2>2, <2>3
<1>5. CASE ~(tx = NoTx \/ s_ssl = NULL) /\ CanSend(sk) /\ ~sk.busy /\ sk.held = NoTx
  BY <1>5 DEF mqtt_tx_pump, Writes
<1> QED BY <1>1, <1>2, <1>3, <1>4, <1>5

(* What wolfSSL_write() took of k units. *)
LEMMA WrittenCases ==
  ASSUME NEW tx \in TxStates, tx # NoTx, NEW sk \in Sockets,
         NEW k \in 1 .. PktLen - tx.sent, NEW p, p = Written(tx, sk, k)
  PROVE  /\ p.sock = Pushed(tx, sk, k)
         /\ \/ tx.sent + k = PktLen /\ p.rc = "drained" /\ p.tx = NoTx
            \/ /\ tx.sent + k < PktLen /\ p.rc = "partial" /\ p.tx # NoTx
               /\ p.tx \in TxStates /\ p.tx.pkt = tx.pkt /\ p.tx.sent = tx.sent + k
<1>0. /\ tx \in [pkt : Requests, sent : 0 .. PktLen - 1] /\ tx.pkt # NULL
  BY QueuedType, NullAssumption
<1>1. CASE tx.sent + k = PktLen
  BY <1>1 DEF Written, Outcome
<1>2. CASE tx.sent + k # PktLen
  <2>1. tx.sent + k < PktLen /\ tx.sent + k \in 0 .. PktLen - 1
    BY <1>0, <1>2, MqttAssumption
  <2>2. p = Outcome("partial", [tx EXCEPT !.sent = tx.sent + k], Pushed(tx, sk, k))
    BY <1>2 DEF Written
  <2>3. [tx EXCEPT !.sent = tx.sent + k] = [pkt |-> tx.pkt, sent |-> tx.sent + k]
    BY <1>0
  <2> QED BY <1>0, <2>1, <2>2, <2>3 DEF Outcome, TxStates, NoTx
<1> QED BY <1>1, <1>2

LEMMA WithheldFacts ==
  ASSUME NEW tx \in TxStates, NEW sk \in Sockets, NEW new, new = Withheld(tx, sk)
  PROVE  /\ new \in Sockets /\ new.held \in {sk.held, tx} /\ new.tail = sk.tail
         /\ sk.held # NoTx => new.held = sk.held
         /\ new.sr = sk.sr /\ new.in = sk.in /\ new.out = sk.out
         /\ new.half = sk.half /\ new.frame = sk.frame
  BY SockFields DEF Withheld, Sockets

(* Another packet than the one that was kept, and longer. *)
LEMMA FlushedTail ==
  ASSUME NEW tx \in TxStates, NEW sk \in Sockets, sk.held # NoTx, NEW new,
         new = Tailed(tx, sk)
  PROVE  /\ new \in Sockets /\ new.held = tx
         /\ new.sr = sk.sr /\ new.in = sk.in /\ new.half = sk.half
         /\ new.out = Flushed(sk).out
<1>1. PICK rest : rest = Flushed(sk)
  OBVIOUS
<1>2. rest \in Sockets /\ rest.sr = sk.sr /\ rest.in = sk.in /\ rest.half = sk.half
  BY <1>1, FlushedWire
<1>3. new = [rest EXCEPT !.held = tx, !.tail = TRUE]
  BY <1>1 DEF Tailed
<1>4. /\ new \in Sockets /\ new.held = tx /\ new.sr = rest.sr /\ new.in = rest.in
      /\ new.out = rest.out /\ new.half = rest.half
  BY <1>2, <1>3, SockFields DEF Sockets
<1> QED BY <1>1, <1>2, <1>4

(* mqtt_tx_pump() keeps s_tx and the socket what they are. *)
LEMMA PumpType ==
  ASSUME NEW tx \in TxStates, NEW sk \in Sockets, NEW p \in mqtt_tx_pump(tx, sk)
  PROVE  p.tx \in TxStates /\ p.sock \in Sockets
<1>1. sk.held # NoTx => Flushed(sk) \in Sockets
  BY FlushedWire
<1>2. CASE Untried(p, tx, sk)
  BY <1>2 DEF Untried
<1>3. CASE Waits(p, tx, sk)
  BY <1>3, WithheldFacts DEF Waits
<1>4. CASE Resumes(p, tx, sk)
  BY <1>1, <1>4, NoTxType DEF Resumes
<1>5. CASE Mistakes(p, tx, sk)
  <2>0. sk.held # NoTx
    BY <1>5 DEF Mistakes
  <2>1. Tailed(tx, sk) \in Sockets
    BY <2>0, FlushedTail
  <2> QED BY <1>1, <1>5, <2>0, <2>1, NoTxType DEF Mistakes
<1>6. CASE Writes(p, tx, sk)
  <2>1. PICK k \in 1 .. PktLen - tx.sent : p = Written(tx, sk, k)
    BY <1>6 DEF Writes
  <2>2. tx # NoTx
    BY <1>6 DEF Writes
  <2>3. p.tx \in TxStates /\ p.sock = Pushed(tx, sk, k)
    BY <2>1, <2>2, WrittenCases, NoTxType
  <2> QED BY <2>2, <2>3, PushedWire
<1> QED BY <1>2, <1>3, <1>4, <1>5, <1>6, PumpCases

(* MQTTPacket_readnb() never changes the session it reads from. *)
LEMMA ReadType ==
  ASSUME NEW trp \in Transports, NEW sk \in Sockets,
         NEW r \in MQTTPacket_readnb(trp, sk)
  PROVE  /\ r.trp \in Transports /\ r.trp.sck = trp.sck
         /\ r.sock \in Sockets
         /\ r.rc = "packet" => r.pkt \in Answers
<1>1. CASE r = ReadError(trp, sk) \/ r = ReadError(trp, Closed)
  BY <1>1, ClosedType DEF ReadError
<1>2. CASE r = Nothing(trp, sk)
  BY <1>2 DEF Nothing
<1>3. CASE r = HalfPacket(trp, sk)
  BY <1>3 DEF HalfPacket, Nothing, Transports, Sockets
<1>4. CASE sk.in # <<>> /\ r = Packet(trp, sk)
  <2>1. sk.in \in Seq(Answers)
    BY DEF Sockets
  <2>2. Head(sk.in) \in Answers /\ Tail(sk.in) \in Seq(Answers)
    BY <1>4, <2>1
  <2> QED BY <1>4, <2>2 DEF Packet, Transports, Sockets
<1>5. \/ r = ReadError(trp, sk) \/ r = ReadError(trp, Closed)
      \/ r = Nothing(trp, sk) \/ r = HalfPacket(trp, sk)
      \/ sk.in # <<>> /\ r = Packet(trp, sk)
  BY DEF MQTTPacket_readnb
<1> QED BY <1>1, <1>2, <1>3, <1>4, <1>5

-----------------------------------------------------------------------------
(* Type correctness.                                                        *)

LEMMA TrpType ==
  /\ NoTrp \in Transports
  /\ \A s \in Sessions \cup {NULL} : [NoTrp EXCEPT !.sck = s] \in Transports
  BY DEF NoTrp, Transports

LEMMA BackOffType ==
  ASSUME TypeOK, BackOff
  PROVE  s_state' \in States /\ s_state_deadline_ms' \in Ticks
<1>1. RECONNECT_BACKOFF_MS \in 0 .. TickMod - 1
  BY MqttAssumption, CommandsAssumption
<1>2. Plus(tick, RECONNECT_BACKOFF_MS) \in Ticks
  BY <1>1, PlusType DEF TypeOK
<1> QED BY <1>2 DEF BackOff, States

LEMMA ReconnectType ==
  ASSUME TypeOK, go_reconnect
  PROVE  /\ s_state' \in States /\ s_state_deadline_ms' \in Ticks
         /\ s_ssl' \in Sessions \cup {NULL} /\ heap' \subseteq Sessions
         /\ s_tx' \in TxStates /\ s_rx_trp' \in Transports
         /\ tls' = "idle" /\ sock' \in Sockets
  BY BackOffType, NoTxType, TrpType, ClosedType
  DEF go_reconnect, teardown_connection, TypeOK

LEMMA ActivityType ==
  ASSUME TypeOK, NEW p PROVE Activity(p) \in Ticks
  BY DEF Activity, TypeOK

LEMMA TaskType ==
  ASSUME TypeOK, NEW state, Task(state)
  PROVE  /\ s_ctx' \in BOOLEAN /\ gap' \in 0 .. MaxGap
         /\ broker' \in [peer : {"up", "gone"}, stage : Stages]
  BY MqttAssumption DEF Task, TypeOK

LEMMA FaultType ==
  ASSUME TypeOK, Fault \/ UNCHANGED faults PROVE faults' \in 0 .. MaxFaults
  BY MqttAssumption DEF Fault, TypeOK

(* The opening of a connection, up to the TLS handshake. *)
LEMMA OpeningType ==
  ASSUME TypeOK,
         \/ SockOpen \/ TcpConnectingWait \/ TcpConnectingUp
         \/ TcpConnectingNoSession \/ TcpConnectingFailed
  PROVE  TypeOK'
<1>1. CASE SockOpen
  <2>1. s_state' \in States /\ sock' \in Sockets /\ faults' \in 0 .. MaxFaults
    BY <1>1, ClosedType, FaultType DEF SockOpen, Goto, States, TypeOK
  <2> QED BY <1>1, <2>1, TaskType DEF SockOpen, Goto, TypeOK
<1>2. CASE TcpConnectingWait
  <2>1. sock' \in Sockets
    BY <1>2 DEF TcpConnectingWait, TypeOK, Sockets
  <2> QED BY <1>2, <2>1, TaskType DEF TcpConnectingWait, Goto, TypeOK, States
<1>3. CASE TcpConnectingUp
  BY <1>3, TaskType DEF TcpConnectingUp, Goto, TypeOK, States
<1>4. CASE TcpConnectingNoSession
  BY <1>4, TaskType, BackOffType, FaultType, ClosedType, NoTxType, TrpType
  DEF TcpConnectingNoSession, TypeOK
<1>5. CASE TcpConnectingFailed
  BY <1>5, TaskType, ReconnectType DEF TcpConnectingFailed, TypeOK
<1> QED BY <1>1, <1>2, <1>3, <1>4, <1>5

(* The TLS handshake, and the packets that begin the MQTT session. *)
LEMMA JoiningType ==
  ASSUME TypeOK,
         \/ TlsHandshakeStep \/ TlsHandshakeDone \/ TlsHandshakeFailed
         \/ SendConnect \/ SendSubscribe
  PROVE  TypeOK'
<1>0. CONNECT \in Requests /\ SUBSCRIBE \in Requests
  BY DEF Requests
<1>1. CASE TlsHandshakeStep
  <2>1. sock' \in Sockets
    BY <1>1 DEF TlsHandshakeStep, TypeOK, Sockets
  <2> QED BY <1>1, <2>1, TaskType DEF TlsHandshakeStep, Goto, TypeOK, States
<1>2. CASE TlsHandshakeDone
  BY <1>2, TaskType DEF TlsHandshakeDone, Goto, TypeOK, States
<1>3. CASE TlsHandshakeFailed
  BY <1>3, TaskType, ReconnectType DEF TlsHandshakeFailed, TypeOK
<1>4. CASE SendConnect
  BY <1>0, <1>4, TaskType, SendType, TrpType
  DEF SendConnect, Goto, TypeOK, States
<1>5. CASE SendSubscribe
  BY <1>0, <1>5, TaskType, SendType DEF SendSubscribe, Goto, TypeOK, States
<1> QED BY <1>1, <1>2, <1>3, <1>4, <1>5

(* Sending and awaiting answers. *)
LEMMA AwaitingType ==
  ASSUME TypeOK,
         TxFailed \/ TxPending \/ WaitAnswer \/ AnswerFailed \/ WaitConnack \/ WaitSuback
  PROVE  TypeOK'
<1>0. ASSUME NEW p \in mqtt_tx_pump(s_tx, sock),
             NEW r \in MQTTPacket_readnb(s_rx_trp, p.sock)
      PROVE  /\ p.sock \in Sockets /\ r.sock \in Sockets /\ r.trp \in Transports
             /\ Activity(p) \in Ticks
  BY <1>0, PumpType, ReadType, ActivityType DEF TypeOK
<1>1. CASE TxFailed
  BY <1>1, TaskType, BackOffType, PumpType DEF TxFailed, TypeOK
<1>2. CASE TxPending
  BY <1>2, TaskType, PumpType DEF TxPending, TypeOK
<1>3. CASE WaitAnswer
  <2>1. PICK state, p, r :
               /\ state \in {"WAIT_CONNACK", "WAIT_SUBACK"} /\ Awaits(state, p, r) /\ Consume(p, r) /\ s_tx' = NoTx
               /\ s_last_activity_ms' = Activity(p) /\ Goto(state)
    BY <1>3 DEF WaitAnswer
  <2> QED BY <2>1, <1>0, TaskType, NoTxType DEF Awaits, Consume, Goto, TypeOK, States
<1>4. CASE AnswerFailed
  <2>1. PICK state, p, r :
               /\ state \in {"WAIT_CONNACK", "WAIT_SUBACK"} /\ Awaits(state, p, r) /\ go_reconnect
               /\ s_last_activity_ms' = Activity(p)
    BY <1>4 DEF AnswerFailed
  <2> QED BY <2>1, <1>0, TaskType, ReconnectType DEF Awaits, TypeOK
<1>5. CASE WaitConnack
  <2>1. PICK p, r :
               /\ Awaits("WAIT_CONNACK", p, r) /\ Consume(p, r) /\ s_tx' = NoTx
               /\ s_last_activity_ms' = Activity(p) /\ Goto("SEND_SUBSCRIBE")
    BY <1>5 DEF WaitConnack
  <2> QED BY <2>1, <1>0, TaskType, NoTxType DEF Awaits, Consume, Goto, TypeOK, States
<1>6. CASE WaitSuback
  <2>1. PICK p, r :
               /\ Awaits("WAIT_SUBACK", p, r) /\ Consume(p, r) /\ s_tx' = NoTx
               /\ s_last_activity_ms' = tick /\ Goto("CONNECTED")
    BY <1>6 DEF WaitSuback
  <2> QED BY <2>1, <1>0, TaskType, NoTxType DEF Awaits, Consume, Goto, TypeOK, States
<1> QED BY <1>1, <1>2, <1>3, <1>4, <1>5, <1>6

(* A command that was published for the client is a command. *)
LEMMA PayloadType ==
  ASSUME NEW r, r.rc = "packet" => r.pkt \in Answers, IsCommand(r)
  PROVE  r.pkt.payload \in CmdPayloads /\ r.pkt.payload \in Commands
<1>1. r.pkt \in Answers /\ r.pkt.type = "PUBLISH"
  BY DEF IsCommand
<1>2. PICK x \in CmdPayloads \cup {TooLong, NotForUs} : r.pkt = PUBLISH(x)
  BY <1>1 DEF Answers, CONNACK, SUBACK, PINGRESP
<1>3. x \in CmdPayloads
  BY <1>2 DEF IsCommand, PUBLISH
<1> QED BY <1>2, <1>3, MqttAssumption DEF PUBLISH

LEMMA StatusType ==
  ASSUME NEW c \in Commands, NEW total \in Ulongs
  PROVE  STATUS(Reply(c, total)) \in Requests
  BY ReplyType DEF STATUS, Requests

(* Serving commands, and losing the connection. *)
LEMMA ServingType ==
  ASSUME TypeOK, ConnectedIdle \/ ConnectedCommand \/ ConnectedLost
  PROVE  TypeOK'
<1>0. ASSUME NEW p \in mqtt_tx_pump(s_tx, sock),
             NEW r \in MQTTPacket_readnb(s_rx_trp, p.sock)
      PROVE  /\ p.tx \in TxStates
             /\ r.sock \in Sockets /\ r.trp \in Transports
             /\ r.rc = "packet" => r.pkt \in Answers
             /\ Activity(p) \in Ticks
  BY <1>0, PumpType, ReadType, ActivityType DEF TypeOK
<1>1. CASE ConnectedIdle
  <2>1. PICK p, r :
          /\ Serving(p, r) /\ Consume(p, r)
          /\ s_tx' = KeepAlive(p)
          /\ s_last_activity_ms' \in {tick, Activity(p)}
          /\ Goto("CONNECTED") /\ UNCHANGED <<s_total_blinks, led, tick>>
    BY <1>1 DEF ConnectedIdle
  <2>2. KeepAlive(p) \in TxStates
    <3>1. p.tx \in TxStates
      BY <2>1, <1>0 DEF Serving
    <3>2. mqtt_send(PINGREQ) \in TxStates
      BY SendType DEF Requests
    <3> QED BY <3>1, <3>2 DEF KeepAlive
  <2> QED BY <2>1, <2>2, <1>0, TaskType DEF Serving, Consume, Goto, TypeOK, States
<1>2. CASE ConnectedCommand
  <2> DEFINE Cmd(r) == r.pkt.payload
  <2>1. PICK p, r :
          /\ Serving(p, r) /\ Consume(p, r) /\ IsCommand(r)
          /\ s_tx' = mqtt_send(STATUS(Reply(Cmd(r), s_total_blinks)))
          /\ s_total_blinks' = TotalAfter(Cmd(r), s_total_blinks)
          /\ tick' = Plus(tick, BLINK_MS * Blinked(Cmd(r)))
          /\ led' = (led /\ Blinked(Cmd(r)) = 0)
          /\ s_last_activity_ms' = Activity(p)
          /\ Goto("CONNECTED")
    BY <1>2 DEF ConnectedCommand
  <2>2. Cmd(r) \in Commands
    BY <2>1, <1>0, PayloadType DEF Serving
  <2>3. BLINK_MS * Blinked(Cmd(r)) \in 0 .. TickMod - 1
    BY <2>2, BlinkTime, MqttAssumption, CommandsAssumption
  <2>4. tick' \in Ticks
    BY <2>1, <2>3, PlusType DEF TypeOK
  <2>5. s_total_blinks' \in Ulongs /\ s_tx' \in TxStates
    BY <2>1, <2>2, TotalType, StatusType, SendType DEF TypeOK
  <2>6. led' \in BOOLEAN
    BY <2>1
  <2> HIDE DEF Cmd
  <2> QED BY <2>1, <2>4, <2>5, <2>6, <1>0, TaskType
          DEF Serving, Consume, Goto, TypeOK, States
<1>3. CASE ConnectedLost
  <2>1. PICK p, r :
          /\ Serving(p, r) /\ go_reconnect
          /\ s_last_activity_ms' = Activity(p)
          /\ UNCHANGED <<s_total_blinks, led, tick>>
    BY <1>3 DEF ConnectedLost
  <2> QED BY <2>1, <1>0, TaskType, ReconnectType DEF Serving, TypeOK
<1> QED BY <1>1, <1>2, <1>3

(* Waiting, and polling a client that was never enabled. *)
LEMMA IdleType ==
  ASSUME TypeOK, Disabled \/ ReconnectWait
  PROVE  TypeOK'
<1>1. CASE Disabled
  BY <1>1, MqttAssumption DEF Disabled, client, TypeOK
<1>2. CASE ReconnectWait
  BY <1>2, TaskType DEF ReconnectWait, Goto, TypeOK, States
<1> QED BY <1>1, <1>2

(* The environment's steps. *)
LEMMA NetworkFrame ==
  ASSUME TypeOK, Environment, sock' \in Sockets,
         tls' \in {"idle", "hello", "ready", "done", "broken"},
         broker' \in [peer : {"up", "gone"}, stage : Stages],
         Fault \/ UNCHANGED faults
  PROVE  TypeOK'
  BY FaultType DEF Environment, client, TypeOK

LEMMA AnswerType ==
  ASSUME TypeOK, Linked, sock.out # <<>>, NEW answers \in Seq(Answers),
         NEW stage \in Stages, Answer(answers, stage) \/ HangUp(answers, stage)
  PROVE  /\ sock' \in Sockets
         /\ broker' \in [peer : {"up", "gone"}, stage : Stages]
<1>1. sock.out \in Seq(Requests \cup {GARBAGE}) /\ sock.in \in Seq(Answers)
  BY DEF TypeOK, Sockets
<1>2. Tail(sock.out) \in Seq(Requests \cup {GARBAGE}) /\ <<>> \in Seq(Requests \cup {GARBAGE})
  BY <1>1
<1>3. sock.in \o answers \in Seq(Answers)
  BY <1>1
<1> QED BY <1>2, <1>3 DEF Answer, HangUp, TypeOK, Sockets

LEMMA ShortSeq ==
  ASSUME NEW S, NEW a \in S, NEW b \in S
  PROVE  <<>> \in Seq(S) /\ <<a>> \in Seq(S) /\ <<a, b>> \in Seq(S)
  OBVIOUS

LEMMA BrokerType == ASSUME TypeOK, BrokerRecv PROVE TypeOK'
<1>1. PICK answers, stage :
        /\ answers \in Seq(Answers) /\ stage \in Stages
        /\ Answer(answers, stage) \/ HangUp(answers, stage)
        /\ Fault \/ UNCHANGED faults
  <2>1. /\ <<>> \in Seq(Answers)
        /\ \A ok \in BOOLEAN : /\ <<CONNACK(ok)>> \in Seq(Answers)
                               /\ <<SUBACK(ok)>> \in Seq(Answers)
        /\ <<PINGRESP>> \in Seq(Answers)
        /\ \A c \in CmdPayloads : <<PUBLISH(c), SUBACK(TRUE)>> \in Seq(Answers)
    <3>1. /\ \A ok \in BOOLEAN : CONNACK(ok) \in Answers /\ SUBACK(ok) \in Answers
          /\ PINGRESP \in Answers
          /\ \A c \in CmdPayloads : PUBLISH(c) \in Answers
      BY DEF Answers
    <3> QED BY <3>1, ShortSeq
  <2>2. CASE BrokerJoin
    BY <2>1, <2>2 DEF BrokerJoin, Stages
  <2>3. CASE BrokerSubscribe
    BY <2>1, <2>3 DEF BrokerSubscribe, Stages
  <2>4. broker.stage \in Stages
    BY DEF TypeOK
  <2>5. CASE BrokerPing \/ BrokerStatus
    BY <2>1, <2>4, <2>5 DEF BrokerPing, BrokerStatus
  <2>6. CASE BrokerError
    BY <2>1, <2>6 DEF BrokerError, Stages
  <2> QED BY <2>2, <2>3, <2>5, <2>6 DEF BrokerRecv
<1>2. /\ sock' \in Sockets
      /\ broker' \in [peer : {"up", "gone"}, stage : Stages]
  BY <1>1, AnswerType DEF BrokerRecv
<1> QED BY <1>1, <1>2, NetworkFrame DEF BrokerRecv, TypeOK

LEMMA NetworkType == ASSUME TypeOK, Network PROVE TypeOK'
<1> USE NetworkFrame DEF TypeOK
<1>1. CASE TcpEstablish
  <2>1. sock' \in Sockets /\ broker' \in [peer : {"up", "gone"}, stage : Stages]
    BY <1>1 DEF TcpEstablish, Sockets, Stages
  <2> QED BY <1>1, <2>1 DEF TcpEstablish
<1>2. CASE TcpRefuse \/ PeerReset \/ RetransmitTimeout
  BY <1>2, ClosedType DEF TcpRefuse, PeerReset, RetransmitTimeout
<1>3. CASE PeerFin
  <2>1. sock' \in Sockets
    BY <1>3 DEF PeerFin, Sockets
  <2> QED BY <1>3, <2>1 DEF PeerFin
<1>4. CASE PeerVanish
  BY <1>4 DEF PeerVanish
<1>5. CASE SendOk
  <2>1. sock' \in Sockets
    <3>1. <<>> \in Seq(Requests \cup {GARBAGE})
      OBVIOUS
    <3> QED BY <1>5, <3>1 DEF SendOk, Sockets
  <2> QED BY <1>5, <2>1 DEF SendOk
<1>6. CASE BrokerTls
  BY <1>6 DEF BrokerTls
<1>7. CASE TlsFault
  BY <1>7 DEF TlsFault
<1>8. CASE BrokerRecv
  BY <1>8, BrokerType
<1>9. CASE BrokerPublish
  <2>1. PICK x \in CmdPayloads \cup {TooLong, NotForUs} :
          sock' = [sock EXCEPT !.in = Append(sock.in, PUBLISH(x))]
    BY <1>9 DEF BrokerPublish
  <2>2. PUBLISH(x) \in Answers
    BY DEF Answers
  <2>3. Append(sock.in, PUBLISH(x)) \in Seq(Answers)
    BY <2>2 DEF Sockets
  <2>4. sock' \in Sockets
    BY <2>1, <2>3 DEF Sockets
  <2> QED BY <1>9, <2>4 DEF BrokerPublish
<1> QED BY <1>1, <1>2, <1>3, <1>4, <1>5, <1>6, <1>7, <1>8, <1>9 DEF Network

LEMMA ElapseType == ASSUME TypeOK, Elapse PROVE TypeOK'
<1>1. 1 \in 0 .. TickMod - 1 \/ TickMod = 1
  BY MqttAssumption
<1>2. Plus(tick, 1) \in Ticks
  BY <1>1, MqttAssumption DEF Plus, Ticks, TypeOK
<1>3. gap + 1 \in 0 .. MaxGap
  BY MqttAssumption DEF Elapse, TypeOK
<1> QED BY <1>2, <1>3 DEF Elapse, client, TypeOK

LEMMA InitType == ASSUME Init PROVE TypeOK
<1>1. {} \subseteq Sessions /\ NULL \in Sessions \cup {NULL}
  OBVIOUS
<1>2. 0 \in Ticks /\ 0 \in 0 .. MaxGap /\ 0 \in 0 .. MaxFaults /\ 0 \in Ulongs
  BY MqttAssumption, CommandsAssumption DEF Ticks, Ulongs
<1>3. s_ctx \in BOOLEAN /\ led \in BOOLEAN /\ s_state \in States
  BY DEF Init, States
<1>4. broker \in [peer : {"up", "gone"}, stage : Stages] /\ tick \in Ticks
  BY DEF Init, Stages, Ticks
<1> QED BY <1>1, <1>2, <1>3, <1>4, ClosedType, NoTxType, TrpType DEF Init, TypeOK

LEMMA NextType == ASSUME TypeOK, [Next]_vars PROVE TypeOK'
<1>1. CASE MQTT_Client_Task
  BY <1>1, OpeningType, JoiningType, AwaitingType, ServingType, IdleType
  DEF MQTT_Client_Task
<1>2. CASE Network
  BY <1>2, NetworkType
<1>3. CASE Elapse
  BY <1>3, ElapseType
<1>4. CASE UNCHANGED vars
  BY <1>4 DEF vars, client, TypeOK
<1> QED BY <1>1, <1>2, <1>3, <1>4 DEF Next

(* Every variable keeps its type. *)
THEOREM TypeCorrect == Spec => []TypeOK
<1>1. Init => TypeOK
  BY InitType
<1>2. TypeOK /\ [Next]_vars => TypeOK'
  BY NextType
<1> QED BY <1>1, <1>2, PTL DEF Spec

-----------------------------------------------------------------------------
(* Session safety.  The inductive invariant also follows s_ssl outside the  *)
(* Secured states, where TxFailed may have left a session behind: it is     *)
(* NULL or live, so that teardown_connection() never frees it twice.        *)

SessionInv ==
  /\ s_ssl # NULL => s_ssl \in heap
  /\ s_state \in Secured => s_ssl # NULL
  /\ s_state \in Reading \cup {"SEND_SUBSCRIBE"} => s_rx_trp.sck = s_ssl

LEMMA ReconnectSession ==
  ASSUME go_reconnect PROVE SessionInv'
  BY DEF go_reconnect, teardown_connection, BackOff, SessionInv, Secured, Reading

LEMMA ConsumeSession ==
  ASSUME TypeOK, SessionInv, s_state \in Reading,
         NEW p \in mqtt_tx_pump(s_tx, sock),
         NEW r \in MQTTPacket_readnb(s_rx_trp, p.sock),
         Consume(p, r)
  PROVE  SessionInv'
<1>1. r.trp.sck = s_rx_trp.sck
  BY PumpType, ReadType DEF TypeOK
<1> QED BY <1>1 DEF Consume, SessionInv, Secured, Reading

LEMMA TaskSession ==
  ASSUME TypeOK, SessionInv, MQTT_Client_Task PROVE SessionInv'
<1> USE DEF Task, Goto
<1>1. CASE Disabled
  BY <1>1 DEF Disabled, client, SessionInv
<1>2. CASE SockOpen \/ TcpConnectingWait \/ ReconnectWait
  BY <1>2 DEF SockOpen, TcpConnectingWait, ReconnectWait, SessionInv, Secured, Reading
<1>3. CASE TcpConnectingUp
  BY <1>3, MqttAssumption DEF TcpConnectingUp, SessionInv, Secured, Reading
<1>4. CASE TcpConnectingNoSession
  BY <1>4 DEF TcpConnectingNoSession, BackOff, SessionInv, Secured, Reading
<1>5. CASE TcpConnectingFailed \/ TlsHandshakeFailed \/ AnswerFailed \/ ConnectedLost
  BY <1>5, ReconnectSession
  DEF TcpConnectingFailed, TlsHandshakeFailed, AnswerFailed, ConnectedLost
<1>6. CASE TlsHandshakeStep \/ TlsHandshakeDone
  BY <1>6 DEF TlsHandshakeStep, TlsHandshakeDone, SessionInv, Secured, Reading
<1>7. CASE SendConnect
  BY <1>7 DEF SendConnect, NoTrp, SessionInv, Secured, Reading
<1>8. CASE SendSubscribe
  BY <1>8 DEF SendSubscribe, SessionInv, Secured, Reading
<1>9. CASE TxFailed \/ TxPending
  BY <1>9 DEF TxFailed, TxPending, BackOff, SessionInv, Secured, Reading
<1>10. CASE WaitAnswer \/ WaitConnack \/ WaitSuback
  BY <1>10, ConsumeSession DEF WaitAnswer, WaitConnack, WaitSuback, Awaits, Reading
<1>11. CASE ConnectedIdle \/ ConnectedCommand
  BY <1>11, ConsumeSession DEF ConnectedIdle, ConnectedCommand, Serving, Reading
<1> QED BY <1>1, <1>2, <1>3, <1>4, <1>5, <1>6, <1>7, <1>8, <1>9, <1>10, <1>11
        DEF MQTT_Client_Task

LEMMA NextSession ==
  ASSUME TypeOK, SessionInv, [Next]_vars PROVE SessionInv'
<1>1. CASE MQTT_Client_Task
  BY <1>1, TaskSession
<1>2. CASE Network \/ Elapse \/ UNCHANGED vars
  <2>1. UNCHANGED client
    BY <1>2 DEF Network, Elapse, vars, Environment, TcpEstablish, TcpRefuse, PeerFin,
       PeerReset, PeerVanish, RetransmitTimeout, SendOk, BrokerTls, TlsFault,
       BrokerRecv, BrokerPublish
  <2> QED BY <2>1 DEF client, SessionInv
<1> QED BY <1>1, <1>2 DEF Next

(* No behaviour hands wolfSSL a session that is NULL or freed, and packets  *)
(* are read from the session of the current connection.                     *)
THEOREM SessionsAreSafe == Spec => []SessionSafety
<1>1. Init => SessionInv
  BY DEF Init, SessionInv, Secured, Reading
<1>2. TypeOK /\ SessionInv /\ [Next]_vars => SessionInv'
  BY NextSession
<1>3. SessionInv => SessionSafety
  BY DEF SessionInv, SessionSafety, Secured
<1> QED BY <1>1, <1>2, <1>3, TypeCorrect, PTL DEF Spec

-----------------------------------------------------------------------------
(* The backoff, on a clock that wraps.  In RECONNECT_WAIT the deadline lies *)
(* ahead by no more than the backoff, or behind by no more than the Task    *)
(* has not been called: the two cases are told apart by the sign of a       *)
(* 32-bit difference only because both are less than half the clock.        *)

BackoffInv ==
  /\ s_state = "RECONNECT_WAIT" =>
       \/ Minus(s_state_deadline_ms, tick) \in 1 .. RECONNECT_BACKOFF_MS
       \/ Minus(tick, s_state_deadline_ms) <= gap
  /\ s_ctx \/ s_state = "IDLE"

LEMMA ClockBounds ==
  /\ RECONNECT_BACKOFF_MS \in Nat /\ MaxGap \in Nat /\ TickMod \in Nat \ {0}
  /\ 2 * (RECONNECT_BACKOFF_MS + MaxGap) < TickMod
<1>1. BLINK_MAX * BLINK_MS >= 0
  BY CommandsAssumption
<1> QED BY <1>1, MqttAssumption, CommandsAssumption

LEMMA BackOffBackoff ==
  ASSUME TypeOK, BackOff, gap' = 0, tick' = tick, s_ctx' PROVE BackoffInv'
<1>1. CASE RECONNECT_BACKOFF_MS = 0
  BY <1>1, ClockBounds DEF BackOff, BackoffInv, Plus, Minus, TypeOK, Ticks
<1>2. CASE RECONNECT_BACKOFF_MS > 0
  BY <1>2, ClockBounds DEF BackOff, BackoffInv, Plus, Minus, TypeOK, Ticks
<1> QED BY <1>1, <1>2, ClockBounds

LEMMA WaitBackoff ==
  ASSUME TypeOK, BackoffInv, ReconnectWait
  PROVE  /\ BackoffInv'
         /\ s_state' # s_state => Minus(tick, s_state_deadline_ms) <= MaxGap
<1>1. CASE Minus(s_state_deadline_ms, tick) \in 1 .. RECONNECT_BACKOFF_MS
  <2>1. ~Reached(s_state_deadline_ms)
    BY <1>1, ClockBounds DEF Reached, Minus, TypeOK, Ticks
  <2> QED BY <1>1, <2>1 DEF ReconnectWait, Task, Goto, BackoffInv
<1>2. CASE Minus(tick, s_state_deadline_ms) <= gap
  <2>1. Reached(s_state_deadline_ms)
    BY <1>2, ClockBounds DEF Reached, Minus, TypeOK, Ticks
  <2>2. Minus(tick, s_state_deadline_ms) <= MaxGap
    BY <1>2, ClockBounds DEF Minus, TypeOK, Ticks
  <2> QED BY <2>1, <2>2 DEF ReconnectWait, Task, Goto, BackoffInv
<1> QED BY <1>1, <1>2 DEF ReconnectWait, Task, BackoffInv

LEMMA ElapseBackoff ==
  ASSUME TypeOK, BackoffInv, Elapse PROVE BackoffInv'
<1>1. ASSUME s_state = "RECONNECT_WAIT",
             Minus(s_state_deadline_ms, tick) \in 1 .. RECONNECT_BACKOFF_MS
      PROVE  \/ Minus(s_state_deadline_ms, tick') \in 1 .. RECONNECT_BACKOFF_MS
             \/ Minus(tick', s_state_deadline_ms) <= gap'
  BY <1>1, ClockBounds DEF Elapse, Plus, Minus, TypeOK, Ticks
<1>2. ASSUME s_state = "RECONNECT_WAIT", Minus(tick, s_state_deadline_ms) <= gap
      PROVE  Minus(tick', s_state_deadline_ms) <= gap'
  BY <1>2, ClockBounds DEF Elapse, Plus, Minus, TypeOK, Ticks
<1> QED BY <1>1, <1>2 DEF Elapse, client, BackoffInv

LEMMA NextBackoff ==
  ASSUME TypeOK, BackoffInv, [Next]_vars
  PROVE  /\ BackoffInv'
         /\ s_state = "RECONNECT_WAIT" /\ s_state' # s_state
              => Minus(tick, s_state_deadline_ms) <= MaxGap
<1>1. CASE ReconnectWait
  BY <1>1, WaitBackoff
<1>2. CASE Elapse
  BY <1>2, ElapseBackoff DEF Elapse, client
<1>3. CASE Disabled
  BY <1>3 DEF Disabled, client, BackoffInv
<1>4. CASE Network \/ UNCHANGED vars
  <2>1. UNCHANGED <<client, gap, tick>>
    BY <1>4 DEF Network, vars, Environment, TcpEstablish, TcpRefuse, PeerFin,
       PeerReset, PeerVanish, RetransmitTimeout, SendOk, BrokerTls, TlsFault,
       BrokerRecv, BrokerPublish
  <2> QED BY <2>1 DEF client, BackoffInv
<1>5. CASE TcpConnectingNoSession \/ TcpConnectingFailed \/ TlsHandshakeFailed
             \/ TxFailed \/ AnswerFailed \/ ConnectedLost
  <2>1. BackOff /\ gap' = 0 /\ tick' = tick /\ s_ctx' /\ s_state # "RECONNECT_WAIT"
    BY <1>5 DEF TcpConnectingNoSession, TcpConnectingFailed, TlsHandshakeFailed,
       TxFailed, AnswerFailed, ConnectedLost, go_reconnect, Task, Awaits, Serving,
       Reading
  <2> QED BY <2>1, BackOffBackoff
<1>6. CASE \/ SockOpen \/ TcpConnectingWait \/ TcpConnectingUp
           \/ TlsHandshakeStep \/ TlsHandshakeDone \/ SendConnect \/ SendSubscribe
           \/ TxPending \/ WaitAnswer \/ WaitConnack \/ WaitSuback
           \/ ConnectedIdle \/ ConnectedCommand
  <2> DEFINE Elsewhere == s_ctx' /\ s_state' # "RECONNECT_WAIT" /\ s_state # "RECONNECT_WAIT"
  <2>1. CASE \/ SockOpen \/ TcpConnectingWait \/ TcpConnectingUp
             \/ TlsHandshakeStep \/ TlsHandshakeDone \/ SendConnect \/ SendSubscribe
    <3> Elsewhere
      BY <2>1 DEF SockOpen, TcpConnectingWait, TcpConnectingUp, TlsHandshakeStep,
         TlsHandshakeDone, SendConnect, SendSubscribe, Task, Goto
    <3> QED BY DEF BackoffInv
  <2>2. CASE TxPending
    <3> Elsewhere
      BY <2>2 DEF TxPending, Task
    <3> QED BY DEF BackoffInv
  <2>3. CASE WaitAnswer \/ WaitConnack \/ WaitSuback
    <3>1. PICK state \in {"WAIT_CONNACK", "WAIT_SUBACK"}, next \in States \ {"RECONNECT_WAIT"} :
            Task(state) /\ Goto(next)
      BY <2>3 DEF WaitAnswer, WaitConnack, WaitSuback, Awaits, States
    <3> Elsewhere
      BY <3>1 DEF Task, Goto
    <3> QED BY DEF BackoffInv
  <2>4. CASE ConnectedIdle \/ ConnectedCommand
    <3> Elsewhere
      BY <2>4 DEF ConnectedIdle, ConnectedCommand, Serving, Task, Goto
    <3> QED BY DEF BackoffInv
  <2> QED BY <1>6, <2>1, <2>2, <2>3, <2>4
<1> QED BY <1>1, <1>2, <1>3, <1>4, <1>5, <1>6 DEF Next, MQTT_Client_Task

LEMMA BackoffCorrect == Spec => []BackoffInv
<1>1. Init => BackoffInv
  BY DEF Init, BackoffInv
<1>2. TypeOK /\ BackoffInv /\ [Next]_vars => BackoffInv'
  BY NextBackoff
<1> QED BY <1>1, <1>2, TypeCorrect, PTL DEF Spec

(* A new attempt begins neither before the backoff is over nor later than   *)
(* one poll interval after it, wherever the clock stands when it starts.    *)
THEOREM BackoffIsRespected == Spec => BackoffRespected
<1>1. TypeOK /\ BackoffInv /\ [Next]_vars
        => [s_state = "RECONNECT_WAIT" /\ s_state' # s_state
              => Minus(tick, s_state_deadline_ms) <= MaxGap]_vars
  BY NextBackoff
<1> QED BY <1>1, BackoffCorrect, TypeCorrect, PTL DEF Spec, BackoffRespected

-----------------------------------------------------------------------------
(* The refinement of MqttService.                                           *)

(* The phase of each state. *)
LEMMA PhaseFacts ==
  /\ s_state = "IDLE" => Phase = "disabled"
  /\ s_state \in {"SOCK_OPEN", "TCP_CONNECTING"} => Phase = "opening"
  /\ s_state \in {"TLS_HANDSHAKE", "SEND_CONNECT"} => Phase = "securing"
  /\ s_state \in {"WAIT_CONNACK", "SEND_SUBSCRIBE", "WAIT_SUBACK"} => Phase = "joining"
  /\ s_state = "CONNECTED" => Phase = "serving"
  /\ s_state = "RECONNECT_WAIT" => Phase = "down"
  BY DEF Phase, PhaseOf

LEMMA PhaseFactsPrime ==
  /\ s_state' = "IDLE" => Phase' = "disabled"
  /\ s_state' \in {"SOCK_OPEN", "TCP_CONNECTING"} => Phase' = "opening"
  /\ s_state' \in {"TLS_HANDSHAKE", "SEND_CONNECT"} => Phase' = "securing"
  /\ s_state' \in {"WAIT_CONNACK", "SEND_SUBSCRIBE", "WAIT_SUBACK"} => Phase' = "joining"
  /\ s_state' = "CONNECTED" => Phase' = "serving"
  /\ s_state' = "RECONNECT_WAIT" => Phase' = "down"
  BY DEF Phase, PhaseOf

(* What is owed after mqtt_send(). *)
LEMMA SendOwed ==
  /\ OwedIn(NoTx) = NULL
  /\ OwedIn(mqtt_send(CONNECT)) = NULL
  /\ OwedIn(mqtt_send(SUBSCRIBE)) = NULL
  /\ OwedIn(mqtt_send(PINGREQ)) = NULL
  /\ \A r \in Replies : OwedIn(mqtt_send(STATUS(r))) = r
<1>1. \A pkt \in Requests : mqtt_send(pkt) # NoTx /\ mqtt_send(pkt).pkt = pkt
  BY NullAssumption DEF mqtt_send, NoTx
<1>2. OwedIn(NoTx) = NULL
  BY DEF OwedIn
<1>3. /\ OwedIn(mqtt_send(CONNECT)) = NULL
      /\ OwedIn(mqtt_send(SUBSCRIBE)) = NULL
      /\ OwedIn(mqtt_send(PINGREQ)) = NULL
  BY <1>1 DEF OwedIn, Requests, CONNECT, SUBSCRIBE, PINGREQ
<1>4. ASSUME NEW r \in Replies PROVE OwedIn(mqtt_send(STATUS(r))) = r
  <2>1. STATUS(r) \in Requests
    BY DEF STATUS, Requests
  <2> QED BY <1>1, <2>1 DEF OwedIn, STATUS
<1> QED BY <1>2, <1>3, <1>4

(* mqtt_tx_pump() keeps the reply or is rid of it. *)
LEMMA PumpOwed ==
  ASSUME NEW tx \in TxStates, NEW sk \in Sockets, NEW p \in mqtt_tx_pump(tx, sk)
  PROVE  OwedIn(p.tx) \in {OwedIn(tx), NULL}
<1>1. \/ p.tx = tx \/ p.tx = NoTx
      \/ tx # NoTx /\ p.tx # NoTx /\ p.tx.pkt = tx.pkt
  <2>1. CASE Untried(p, tx, sk) \/ Waits(p, tx, sk) \/ Resumes(p, tx, sk) \/ Mistakes(p, tx, sk)
    BY <2>1 DEF Untried, Waits, Resumes, Mistakes
  <2>2. CASE Writes(p, tx, sk)
    BY <2>2, WrittenCases DEF Writes
  <2> QED BY <2>1, <2>2, PumpCases
<1> QED BY <1>1, SendOwed DEF OwedIn

-----------------------------------------------------------------------------
(* While the session is being set up, no reply waits in s_tx_buf. *)
JoinInv ==
  s_state \in {"WAIT_CONNACK", "SEND_SUBSCRIBE", "WAIT_SUBACK"} => Owed = NULL

(* A step of the client is a step of the service or does not concern it. *)
Simulates == JoinInv' /\ [Service!Next]_(Service!vars)

(* Steps that leave phase, reply, counter and LED alone. *)
LEMMA Stutter ==
  ASSUME JoinInv, s_state' = s_state, s_tx' = s_tx, s_total_blinks' = s_total_blinks,
         led' = led
  PROVE  Simulates
  BY DEF Simulates, JoinInv, Owed, Service!vars, Phase

(* Falling back to RECONNECT_WAIT, with or without teardown_connection(). *)
LEMMA Falls ==
  ASSUME TypeOK, s_state \notin {"IDLE", "RECONNECT_WAIT"},
         s_state' = "RECONNECT_WAIT", s_tx' \in {s_tx, NoTx},
         s_total_blinks' = s_total_blinks, led' = led
  PROVE  Simulates
<1>1. JoinInv'
  BY DEF JoinInv
<1>2. Owed' \in {Owed, NULL}
  BY SendOwed DEF Owed
<1>3. Phase' = "down" /\ Phase \in {"opening", "securing", "joining", "serving"}
  BY PhaseFacts, PhaseFactsPrime DEF TypeOK, States
<1>4. Service!Fall
  BY <1>2, <1>3 DEF Service!Fall
<1> QED BY <1>1, <1>4 DEF Simulates, Service!Next

LEMMA FallingSteps ==
  ASSUME TypeOK,
         \/ TcpConnectingNoSession \/ TcpConnectingFailed \/ TlsHandshakeFailed
         \/ TxFailed \/ AnswerFailed \/ ConnectedLost
  PROVE  Simulates
<1>1. /\ s_state \notin {"IDLE", "RECONNECT_WAIT"} /\ s_state' = "RECONNECT_WAIT"
      /\ s_tx' \in {s_tx, NoTx} /\ s_total_blinks' = s_total_blinks /\ led' = led
  BY DEF TcpConnectingNoSession, TcpConnectingFailed, TlsHandshakeFailed, TxFailed,
     AnswerFailed, ConnectedLost, Awaits, Serving, go_reconnect, BackOff,
     teardown_connection, Task, Reading
<1> QED BY <1>1, Falls

(* Opening, securing and joining a connection. *)
LEMMA OpeningSteps ==
  ASSUME TypeOK, JoinInv,
         \/ SockOpen \/ TcpConnectingWait \/ TcpConnectingUp
         \/ TlsHandshakeStep \/ TlsHandshakeDone \/ ReconnectWait
  PROVE  Simulates
<1>0. s_tx' = s_tx /\ s_total_blinks' = s_total_blinks /\ led' = led
  BY DEF SockOpen, TcpConnectingWait, TcpConnectingUp, TlsHandshakeStep,
     TlsHandshakeDone, ReconnectWait
<1>1. Owed' = Owed
  BY <1>0 DEF Owed
<1>2. CASE SockOpen \/ TcpConnectingWait \/ TlsHandshakeStep \/ TlsHandshakeDone
  <2>1. Phase' = Phase
    BY <1>2, PhaseFacts, PhaseFactsPrime
    DEF SockOpen, TcpConnectingWait, TlsHandshakeStep, TlsHandshakeDone, Task, Goto
  <2>2. JoinInv'
    BY <1>2 DEF SockOpen, TcpConnectingWait, TlsHandshakeStep, TlsHandshakeDone,
       Goto, JoinInv
  <2> QED BY <1>0, <1>1, <2>1, <2>2 DEF Simulates, Service!vars
<1>3. CASE TcpConnectingUp
  <2>1. Phase = "opening" /\ Phase' = "securing" /\ JoinInv'
    BY <1>3, PhaseFacts, PhaseFactsPrime DEF TcpConnectingUp, Task, Goto, JoinInv
  <2> QED BY <1>0, <1>1, <2>1 DEF Simulates, Service!Next, Service!Open
<1>4. CASE ReconnectWait
  <2>1. CASE s_state' = s_state
    BY <1>0, <2>1, Stutter
  <2>2. CASE s_state' # s_state
    <3>1. Phase = "down" /\ Phase' = "opening" /\ JoinInv'
      BY <1>4, <2>2, PhaseFacts, PhaseFactsPrime DEF ReconnectWait, Task, Goto, JoinInv
    <3> QED BY <1>0, <1>1, <3>1 DEF Simulates, Service!Next, Service!Retry
  <2> QED BY <2>1, <2>2
<1> QED BY <1>2, <1>3, <1>4

LEMMA JoiningSteps ==
  ASSUME TypeOK, JoinInv,
         SendConnect \/ SendSubscribe \/ TxPending \/ WaitAnswer \/ WaitConnack \/ WaitSuback
  PROVE  Simulates
<1>0. s_total_blinks' = s_total_blinks /\ led' = led
  BY DEF SendConnect, SendSubscribe, TxPending, WaitAnswer, WaitConnack, WaitSuback, Awaits
<1>1. CASE SendConnect
  <2>1. Phase = "securing" /\ Phase' = "joining"
    BY <1>1, PhaseFacts, PhaseFactsPrime DEF SendConnect, Task, Goto
  <2>2. Owed' = NULL
    BY <1>1, SendOwed DEF SendConnect, Owed
  <2> QED BY <1>0, <2>1, <2>2 DEF Simulates, JoinInv, Service!Next, Service!Join
<1>2. CASE SendSubscribe \/ TxPending \/ WaitAnswer \/ WaitConnack
  <2>1. /\ s_state \in {"WAIT_CONNACK", "SEND_SUBSCRIBE", "WAIT_SUBACK"}
        /\ s_state' \in {"WAIT_CONNACK", "SEND_SUBSCRIBE", "WAIT_SUBACK"}
    <3>1. CASE SendSubscribe
      BY <3>1 DEF SendSubscribe, Task, Goto
    <3>2. CASE TxPending
      BY <3>2 DEF TxPending, Task
    <3>3. CASE WaitAnswer
      <4>1. PICK state \in {"WAIT_CONNACK", "WAIT_SUBACK"} : Task(state) /\ Goto(state)
        BY <3>3 DEF WaitAnswer, Awaits
      <4> QED BY <4>1 DEF Task, Goto
    <3>4. CASE WaitConnack
      BY <3>4 DEF WaitConnack, Awaits, Task, Goto
    <3> QED BY <1>2, <3>1, <3>2, <3>3, <3>4
  <2>2. Phase' = Phase
    BY <2>1, PhaseFacts, PhaseFactsPrime
  <2>3. Owed' = NULL
    <3>1. CASE SendSubscribe \/ WaitAnswer \/ WaitConnack
      BY <3>1, SendOwed DEF SendSubscribe, WaitAnswer, WaitConnack, Owed
    <3>2. CASE TxPending
      <4>1. PICK p \in mqtt_tx_pump(s_tx, sock) : s_tx' = p.tx
        BY <3>2 DEF TxPending
      <4>2. OwedIn(p.tx) \in {OwedIn(s_tx), NULL}
        BY PumpOwed DEF TypeOK
      <4> QED BY <2>1, <4>1, <4>2 DEF JoinInv, Owed
    <3> QED BY <1>2, <3>1, <3>2
  <2> QED BY <1>0, <2>1, <2>2, <2>3 DEF Simulates, JoinInv, Service!vars
<1>3. CASE WaitSuback
  <2>1. Phase = "joining" /\ Phase' = "serving" /\ s_state = "WAIT_SUBACK"
    BY <1>3, PhaseFacts, PhaseFactsPrime DEF WaitSuback, Awaits, Task, Goto
  <2>2. Owed = NULL /\ Owed' = NULL
    BY <1>3, <2>1, SendOwed DEF WaitSuback, JoinInv, Owed
  <2>3. JoinInv'
    BY <2>2 DEF JoinInv
  <2> QED BY <1>0, <2>1, <2>2, <2>3 DEF Simulates, Service!Next, Service!Serve
<1> QED BY <1>1, <1>2, <1>3

(* Client and service execute commands alike. *)
LEMMA SameCommands ==
  ASSUME NEW c, NEW t
  PROVE  /\ Service!Blinked(c) = Blinked(c)
         /\ Service!TotalAfter(c, t) = TotalAfter(c, t)
         /\ Service!Reply(c, t) = Reply(c, t)
  BY DEF Service!Blinked, Service!TotalAfter, Service!Reply, Service!Blinks,
     Service!strtoul, Service!do_blink, Service!Wrap,
     Blinked, TotalAfter, Reply, Blinks, strtoul, do_blink, Wrap

(* Serving. *)
LEMMA ServingSteps ==
  ASSUME TypeOK, JoinInv, ConnectedIdle \/ ConnectedCommand
  PROVE  Simulates
<1>0. s_state = "CONNECTED" /\ s_state' = "CONNECTED"
  BY DEF ConnectedIdle, ConnectedCommand, Serving, Task, Goto
<1>1. Phase = "serving" /\ Phase' = "serving" /\ JoinInv'
  BY <1>0, PhaseFacts, PhaseFactsPrime DEF JoinInv
<1>2. CASE ConnectedIdle
  <2>1. PICK p \in mqtt_tx_pump(s_tx, sock) : s_tx' = KeepAlive(p)
    BY <1>2 DEF ConnectedIdle
  <2>2. OwedIn(p.tx) \in {OwedIn(s_tx), NULL}
    BY PumpOwed DEF TypeOK
  <2>3. Owed' \in {Owed, NULL}
    BY <2>1, <2>2, SendOwed DEF KeepAlive, Owed
  <2>4. s_total_blinks' = s_total_blinks /\ led' = led
    BY <1>2 DEF ConnectedIdle
  <2>5. CASE Owed' = Owed
    BY <1>1, <2>4, <2>5 DEF Simulates, Service!vars
  <2>6. CASE Owed' = NULL /\ Owed # NULL
    BY <1>1, <2>4, <2>6 DEF Simulates, Service!Next, Service!Deliver
  <2> QED BY <2>3, <2>5, <2>6
<1>3. CASE ConnectedCommand
  <2> DEFINE Cmd(r) == r.pkt.payload
  <2>1. PICK p, r :
          /\ p \in mqtt_tx_pump(s_tx, sock)
          /\ r \in MQTTPacket_readnb(s_rx_trp, p.sock) /\ IsCommand(r)
          /\ s_tx' = mqtt_send(STATUS(Reply(Cmd(r), s_total_blinks)))
          /\ s_total_blinks' = TotalAfter(Cmd(r), s_total_blinks)
          /\ led' = (led /\ Blinked(Cmd(r)) = 0)
    BY <1>3 DEF ConnectedCommand
  <2>2. Cmd(r) \in CmdPayloads /\ Cmd(r) \in Commands
    BY <2>1, PumpType, ReadType, PayloadType DEF TypeOK
  <2>3. Owed' = Reply(Cmd(r), s_total_blinks)
    BY <2>1, <2>2, ReplyType, SendOwed DEF Owed, TypeOK
  <2>4. Service!Execute(Cmd(r))
    <3> HIDE DEF Cmd
    <3> QED BY <1>1, <2>1, <2>3, SameCommands DEF Service!Execute
  <2> QED BY <1>1, <2>2, <2>4 DEF Simulates, Service!Next
<1> QED BY <1>2, <1>3

LEMMA EveryStep ==
  ASSUME TypeOK, JoinInv, [Next]_vars PROVE Simulates
<1>1. CASE MQTT_Client_Task
  <2>1. CASE Disabled
    BY <2>1, Stutter DEF Disabled, client
  <2> QED BY <1>1, <2>1, FallingSteps, OpeningSteps, JoiningSteps, ServingSteps
          DEF MQTT_Client_Task
<1>2. CASE Network \/ Elapse \/ UNCHANGED vars
  <2>1. UNCHANGED client
    BY <1>2 DEF Network, Elapse, vars, Environment, TcpEstablish, TcpRefuse, PeerFin,
       PeerReset, PeerVanish, RetransmitTimeout, SendOk, BrokerTls, TlsFault,
       BrokerRecv, BrokerPublish
  <2> QED BY <2>1, Stutter DEF client
<1> QED BY <1>1, <1>2 DEF Next

(* The client implements its abstract service: phases in order, commands    *)
(* only while serving, each with its own reply and counter, and no reply    *)
(* carried over to another connection.                                      *)
THEOREM ClientImplementsService == Spec => ImplementsService
<1>1. Init => Service!Init /\ JoinInv
  <2> SUFFICES ASSUME Init PROVE Service!Init /\ JoinInv
    OBVIOUS
  <2>1. Phase \in {"disabled", "opening"} /\ Owed = NULL
    BY PhaseFacts, SendOwed DEF Init, Owed
  <2> QED BY <2>1 DEF Init, Service!Init, JoinInv
<1>2. TypeOK /\ JoinInv /\ [Next]_vars => JoinInv' /\ [Service!Next]_(Service!vars)
  BY EveryStep DEF Simulates
<1> QED BY <1>1, <1>2, TypeCorrect, PTL DEF Spec, ImplementsService, Service!Spec

(* What the abstract service guarantees, the client guarantees: the reply   *)
(* it owes reports the counter as it stands.                                *)
THEOREM RepliesAreCurrent == Spec => []ReplyCurrent
<1>1. Service!Init => ReplyCurrent
  BY DEF Service!Init, ReplyCurrent
<1>2. TypeOK /\ ReplyCurrent /\ [Service!Next]_(Service!vars) => ReplyCurrent'
  <2> SUFFICES ASSUME TypeOK, ReplyCurrent, [Service!Next]_(Service!vars) PROVE ReplyCurrent'
    OBVIOUS
  <2>1. CASE \E c \in CmdPayloads : Service!Execute(c)
    BY <2>1, SameCommands DEF Service!Execute, ReplyCurrent, TypeOK
  <2>2. CASE ~ \E c \in CmdPayloads : Service!Execute(c)
    <3>1. s_total_blinks' = s_total_blinks /\ Owed' \in {Owed, NULL}
      BY <2>2 DEF Service!Next, Service!vars, Service!Open, Service!Join, Service!Serve,
         Service!Deliver, Service!Fall, Service!Retry
    <3> QED BY <3>1 DEF ReplyCurrent
  <2> QED BY <2>1, <2>2
<1> QED BY <1>1, <1>2, ClientImplementsService, TypeCorrect, PTL
        DEF ImplementsService, Service!Spec

(* A call of the client does not leave the LED lit that it shares, unless   *)
(* it found it so: a blink over MQTT ends with the LED off.                 *)
THEOREM ClientNeverLeavesLit == Spec => NeverLeavesLit
<1>1. [Service!Next]_(Service!vars) => (led' => led)
  BY DEF Service!Next, Service!vars, Service!Open, Service!Join, Service!Serve,
     Service!Execute, Service!Deliver, Service!Fall, Service!Retry
<1> QED BY <1>1, ClientImplementsService, PTL DEF ImplementsService, Service!Spec, NeverLeavesLit

-----------------------------------------------------------------------------
(* The two streams.                                                         *)

Carries == sock.sr \in {"ESTABLISHED", "CLOSE_WAIT"}
Setup == {"TCP_CONNECTING", "TLS_HANDSHAKE", "SEND_CONNECT"}

(* Nothing of a packet has crossed a connection that is being set up, in    *)
(* either direction; from then on the client counts what the wire does.     *)
WireInv ==
  /\ sock.sr \in {"INIT", "SYNSENT"} => s_state = "TCP_CONNECTING"
  /\ s_state \in Setup => InStep(NoTx, sock) /\ ~sock.half
  /\ s_state = "SEND_SUBSCRIBE" /\ Carries => InStep(NoTx, sock)
  /\ s_state \in Reading \cup {"SEND_SUBSCRIBE"} /\ Carries => s_rx_trp.mid = sock.half
  /\ s_state \in {"WAIT_CONNACK", "WAIT_SUBACK"} /\ Carries => InStep(s_tx, sock)

(* What one call of the pump does to s_tx and the wire. *)
LEMMA PumpWire ==
  ASSUME TypeOK, NEW p \in mqtt_tx_pump(s_tx, sock)
  PROVE  /\ p.sock.sr = sock.sr /\ p.sock.in = sock.in /\ p.sock.half = sock.half
         /\ InStep(s_tx, sock) => InStep(p.tx, p.sock)
<1>0. s_tx \in TxStates /\ sock \in Sockets
  BY DEF TypeOK
<1> DEFINE Keeps ==
      /\ p.sock.sr = sock.sr /\ p.sock.in = sock.in /\ p.sock.half = sock.half
      /\ InStep(s_tx, sock) => InStep(p.tx, p.sock)
<1>1. CASE Untried(p, s_tx, sock)
  BY <1>1 DEF Untried
<1>2. CASE Waits(p, s_tx, sock)
  BY <1>0, <1>2, WithheldFacts DEF Waits, InStep
<1>3. CASE Resumes(p, s_tx, sock)
  BY <1>0, <1>3, FlushedWire DEF Resumes, InStep, NoTx
<1>4. CASE Mistakes(p, s_tx, sock)
  <2>1. ~InStep(s_tx, sock) /\ sock.held # NoTx
    BY <1>4 DEF Mistakes, InStep
  <2>2. /\ Flushed(sock) \in Sockets /\ Flushed(sock).sr = sock.sr
        /\ Flushed(sock).in = sock.in /\ Flushed(sock).half = sock.half
    BY <1>0, <2>1, FlushedWire
  <2>3. CASE p.sock = Flushed(sock)
    BY <2>1, <2>2, <2>3
  <2>4. CASE p.sock = Tailed(s_tx, sock)
    BY <1>0, <2>1, <2>4, FlushedTail
  <2> QED BY <1>4, <2>3, <2>4 DEF Mistakes
<1>5. CASE Writes(p, s_tx, sock)
  <2>0. PICK k \in 1 .. PktLen - s_tx.sent : p = Written(s_tx, sock, k)
    BY <1>5 DEF Writes
  <2>1. /\ p.sock = Pushed(s_tx, sock, k)
        /\ \/ s_tx.sent + k = PktLen /\ p.tx = NoTx
           \/ s_tx.sent + k < PktLen /\ p.tx.sent = s_tx.sent + k
    BY <1>0, <1>5, <2>0, WrittenCases DEF Writes
  <2>2. ~(PktLen < PktLen) /\ NoTx.sent = 0
    BY MqttAssumption DEF NoTx
  <2> QED BY <1>0, <1>5, <2>1, <2>2, PushedWire DEF Writes, InStep
<1>6. Keeps
  <2> HIDE DEF Keeps
  <2> QED BY <1>0, <1>1, <1>2, <1>3, <1>4, <1>5, PumpCases DEF Keeps
<1> QED BY <1>6

(* A reader that stands where the stream stands goes on with it.            *)
LEMMA ReadWire ==
  ASSUME NEW trp \in Transports, NEW sk \in Sockets,
         NEW r \in MQTTPacket_readnb(trp, sk), r.rc # "error"
  PROVE  /\ r.sock.sr = sk.sr /\ r.sock.busy = sk.busy
         /\ r.sock.frame = sk.frame /\ r.sock.out = sk.out
         /\ r.sock.held = sk.held /\ r.sock.tail = sk.tail
         /\ trp.mid = sk.half => r.trp.mid = r.sock.half
         /\ r.rc = "packet" => sk.in # <<>> /\ r.pkt = Head(sk.in) /\ r.sock.in = Tail(sk.in)
         /\ r.rc # "packet" => r.sock.in = sk.in
<1>1. CASE r = Nothing(trp, sk)
  BY <1>1 DEF Nothing
<1>2. CASE sk.in # <<>> /\ r = HalfPacket(trp, sk)
  BY <1>2 DEF HalfPacket, Nothing, Transports, Sockets
<1>3. CASE sk.in # <<>> /\ r = Packet(trp, sk)
  BY <1>3 DEF Packet, Transports, Sockets
<1>4. \/ r = Nothing(trp, sk)
      \/ sk.in # <<>> /\ (r = HalfPacket(trp, sk) \/ r = Packet(trp, sk))
  BY DEF MQTTPacket_readnb, ReadError
<1> QED BY <1>1, <1>2, <1>3, <1>4

(* Whoever tears the connection down begins anew.                           *)
LEMMA TornSteps ==
  ASSUME \/ TcpConnectingNoSession \/ TcpConnectingFailed \/ TlsHandshakeFailed
         \/ AnswerFailed \/ ConnectedLost
  PROVE  s_state' = "RECONNECT_WAIT" /\ sock' = Closed /\ UNCHANGED broker
  BY DEF TcpConnectingNoSession, TcpConnectingFailed, TlsHandshakeFailed, AnswerFailed,
         ConnectedLost, Awaits, Serving, Task, go_reconnect, teardown_connection, BackOff

LEMMA ClosedInStep ==
  /\ InStep(NoTx, Closed) /\ ~Closed.half /\ Closed.sr = "CLOSED"
  /\ InStep(NoTx, Opened) /\ ~Opened.half /\ Opened.sr = "INIT"
  BY DEF InStep, NoTx, Closed, Opened

LEMMA SetupWire ==
  ASSUME TypeOK, WireInv,
         \/ SockOpen \/ TcpConnectingWait \/ TcpConnectingUp
         \/ TlsHandshakeStep \/ TlsHandshakeDone \/ SendConnect \/ SendSubscribe
         \/ ReconnectWait
  PROVE  WireInv'
<1> USE DEF WireInv, Setup, Carries, Reading, Task, Goto, TypeOK
<1>1. CASE SockOpen
  BY <1>1, ClosedInStep DEF SockOpen
<1>2. CASE TcpConnectingWait
  <2>1. PICK sr : sock' = [sock EXCEPT !.sr = sr]
    BY <1>2 DEF TcpConnectingWait
  <2>2. sock'.half = sock.half /\ (InStep(NoTx, sock) => InStep(NoTx, sock'))
    BY <2>1, SockFields DEF InStep
  <2> QED BY <1>2, <2>2 DEF TcpConnectingWait
<1>3. CASE TcpConnectingUp
  BY <1>3 DEF TcpConnectingUp
<1>4. CASE TlsHandshakeStep
  <2>1. /\ sock'.sr = sock.sr /\ sock'.half = sock.half
        /\ InStep(NoTx, sock) => InStep(NoTx, sock')
    BY <1>4, SockFields DEF TlsHandshakeStep, InStep
  <2> QED BY <1>4, <2>1 DEF TlsHandshakeStep
<1>5. CASE TlsHandshakeDone
  BY <1>5 DEF TlsHandshakeDone
<1>6. CASE SendConnect
  <2>1. s_rx_trp'.mid = FALSE /\ s_tx'.sent = 0 /\ sock' = sock
    BY <1>6 DEF SendConnect, mqtt_send, NoTrp
  <2>2. sock.half = FALSE
    BY <1>6, SockFields DEF SendConnect
  <2>3. InStep(NoTx, sock) => InStep(s_tx', sock')
    BY <2>1 DEF InStep, NoTx
  <2> QED BY <1>6, <2>1, <2>2, <2>3 DEF SendConnect
<1>7. CASE SendSubscribe
  <2>1. s_tx'.sent = 0 /\ sock' = sock
    BY <1>7 DEF SendSubscribe, mqtt_send
  <2>2. InStep(NoTx, sock) => InStep(s_tx', sock')
    BY <2>1 DEF InStep, NoTx
  <2> QED BY <1>7, <2>1, <2>2 DEF SendSubscribe
<1>8. CASE ReconnectWait
  BY <1>8 DEF ReconnectWait
<1> QED BY <1>1, <1>2, <1>3, <1>4, <1>5, <1>6, <1>7, <1>8

LEMMA StreamWire ==
  ASSUME TypeOK, WireInv,
         \/ TxPending \/ WaitAnswer \/ WaitConnack \/ WaitSuback
         \/ ConnectedIdle \/ ConnectedCommand
  PROVE  WireInv'
<1> USE DEF WireInv, Setup, Carries, Reading, Task, Goto
<1>1. ASSUME NEW p \in mqtt_tx_pump(s_tx, sock),
             NEW r \in MQTTPacket_readnb(s_rx_trp, p.sock), r.rc # "error",
             s_state \in Reading
      PROVE  /\ r.sock.sr = sock.sr /\ r.sock.sr \notin {"INIT", "SYNSENT"}
             /\ Carries => r.trp.mid = r.sock.half
             /\ Carries /\ p.tx = NoTx /\ s_state # "CONNECTED" => InStep(NoTx, r.sock)
  <2>1. /\ p.sock.sr = sock.sr /\ p.sock.half = sock.half
        /\ InStep(s_tx, sock) => InStep(p.tx, p.sock)
    BY <1>1, PumpWire
  <2>2. /\ r.sock.sr = p.sock.sr /\ (s_rx_trp.mid = p.sock.half => r.trp.mid = r.sock.half)
        /\ InStep(p.tx, p.sock) => InStep(p.tx, r.sock)
    BY <1>1, PumpType, ReadWire DEF TypeOK, InStep
  <2> QED BY <1>1, <2>1, <2>2
<1>2. CASE TxPending
  <2>1. PICK p \in mqtt_tx_pump(s_tx, sock) : s_tx' = p.tx /\ sock' = p.sock
    BY <1>2 DEF TxPending
  <2> QED BY <1>2, <2>1, PumpWire DEF TxPending
<1>3. CASE WaitAnswer
  <2>1. PICK state \in {"WAIT_CONNACK", "WAIT_SUBACK"}, p \in mqtt_tx_pump(s_tx, sock) :
        \E r \in MQTTPacket_readnb(s_rx_trp, p.sock) :
          /\ s_state = state /\ s_state' = state /\ p.tx = NoTx /\ r.rc # "error"
          /\ sock' = r.sock /\ s_rx_trp' = r.trp /\ s_tx' = NoTx
    BY <1>3 DEF WaitAnswer, Awaits, Consume
  <2> QED BY <1>1, <2>1
<1>4. CASE WaitConnack
  <2>1. PICK p \in mqtt_tx_pump(s_tx, sock) :
        \E r \in MQTTPacket_readnb(s_rx_trp, p.sock) :
          /\ s_state = "WAIT_CONNACK" /\ s_state' = "SEND_SUBSCRIBE"
          /\ p.tx = NoTx /\ r.rc # "error" /\ sock' = r.sock /\ s_rx_trp' = r.trp
    BY <1>4 DEF WaitConnack, Awaits, Consume
  <2> QED BY <1>1, <2>1
<1>5. CASE WaitSuback
  <2>1. PICK p \in mqtt_tx_pump(s_tx, sock) :
        \E r \in MQTTPacket_readnb(s_rx_trp, p.sock) :
          /\ s_state = "WAIT_SUBACK" /\ s_state' = "CONNECTED"
          /\ r.rc # "error" /\ sock' = r.sock /\ s_rx_trp' = r.trp
    BY <1>5 DEF WaitSuback, Awaits, Consume
  <2> QED BY <1>1, <2>1
<1>6. CASE ConnectedIdle \/ ConnectedCommand
  <2>1. PICK p \in mqtt_tx_pump(s_tx, sock) :
        \E r \in MQTTPacket_readnb(s_rx_trp, p.sock) :
          /\ s_state = "CONNECTED" /\ s_state' = "CONNECTED"
          /\ r.rc # "error" /\ sock' = r.sock /\ s_rx_trp' = r.trp
    BY <1>6 DEF ConnectedIdle, ConnectedCommand, Serving, IsCommand, Consume
  <2> QED BY <1>1, <2>1
<1> QED BY <1>2, <1>3, <1>4, <1>5, <1>6

(* The chip, the network and the broker do not touch the packets' frames.   *)
LEMMA NetworkWire ==
  ASSUME TypeOK, WireInv, Network PROVE WireInv'
<1>1. UNCHANGED client
  BY DEF Network, Environment, TcpEstablish, TcpRefuse, PeerFin, PeerReset, PeerVanish,
     RetransmitTimeout, SendOk, BrokerTls, TlsFault, BrokerRecv, BrokerPublish
<1> DEFINE Framed ==
       /\ sock'.frame = sock.frame /\ sock'.half = sock.half
       /\ sock'.held = sock.held /\ sock'.tail = sock.tail
       /\ \/ sock'.sr = sock.sr
          \/ sock.sr = "ESTABLISHED" /\ sock'.sr = "CLOSE_WAIT"
<1>2. \/ sock' = Closed
      \/ /\ sock.sr = "SYNSENT"
         /\ sock' = [sock EXCEPT !.sr = "ESTABLISHED"]
      \/ Framed
  <2>0. sock = [sr |-> sock.sr, busy |-> sock.busy, in |-> sock.in, out |-> sock.out,
                frame |-> sock.frame, half |-> sock.half, held |-> sock.held, tail |-> sock.tail]
    BY SockFields DEF TypeOK
  <2>1. CASE TcpEstablish \/ TcpRefuse \/ PeerReset \/ RetransmitTimeout
    BY <2>1 DEF TcpEstablish, TcpRefuse, PeerReset, RetransmitTimeout
  <2>2. CASE PeerFin
    BY <2>0, <2>2 DEF PeerFin, Linked
  <2>3. CASE PeerVanish \/ BrokerTls \/ TlsFault
    <3>1. sock' = sock
      BY <2>3 DEF PeerVanish, BrokerTls, TlsFault
    <3> QED BY <3>1
  <2>4. CASE SendOk
    BY <2>0, <2>4 DEF SendOk
  <2>5. CASE BrokerPublish
    <3>1. PICK in : sock' = [sock EXCEPT !.in = in]
      BY <2>5 DEF BrokerPublish
    <3> QED BY <2>0, <3>1
  <2>6. CASE BrokerRecv
    <3>1. ASSUME NEW answers, NEW stage, Answer(answers, stage) PROVE Framed
      BY <2>0, <3>1 DEF Answer
    <3>2. ASSUME NEW answers, NEW stage, HangUp(answers, stage), sock.sr = "ESTABLISHED"
          PROVE  Framed
      BY <2>0, <3>2 DEF HangUp
    <3>3. \E answers, stage : Answer(answers, stage) \/ HangUp(answers, stage)
      BY <2>6 DEF BrokerRecv, BrokerJoin, BrokerSubscribe, BrokerPing, BrokerStatus,
         BrokerError
    <3>4. sock.sr = "ESTABLISHED"
      BY <2>6 DEF BrokerRecv, Linked
    <3> QED BY <3>1, <3>2, <3>3, <3>4
  <2> QED BY <2>1, <2>2, <2>3, <2>4, <2>5, <2>6 DEF Network
<1>3. CASE sock' = Closed
  BY <1>1, <1>3, ClosedInStep DEF client, WireInv, Setup, Carries, Reading
<1>4. CASE sock.sr = "SYNSENT" /\ sock' = [sock EXCEPT !.sr = "ESTABLISHED"]
  <2>1. sock'.half = sock.half /\ (InStep(NoTx, sock) => InStep(NoTx, sock'))
    BY <1>4, SockFields DEF InStep, TypeOK
  <2> QED BY <1>1, <1>4, <2>1 DEF client, WireInv, Setup, Reading
<1>5. CASE Framed
  BY <1>1, <1>5 DEF client, WireInv, Setup, Carries, Reading, InStep
<1> QED BY <1>2, <1>3, <1>4, <1>5

LEMMA WireStep ==
  ASSUME TypeOK, WireInv, [Next]_vars PROVE WireInv'
<1>1. CASE \/ TcpConnectingNoSession \/ TcpConnectingFailed \/ TlsHandshakeFailed
           \/ AnswerFailed \/ ConnectedLost
  BY <1>1, TornSteps, ClosedInStep DEF WireInv, Setup, Carries, Reading
<1>2. CASE TxFailed
  <2>1. sock'.sr = sock.sr
    BY <1>2, PumpWire DEF TxFailed
  <2> QED BY <1>2, <2>1 DEF TxFailed, BackOff, Task, WireInv, Setup, Reading
<1>3. CASE Disabled \/ Elapse \/ UNCHANGED vars
  BY <1>3 DEF Disabled, Elapse, vars, client, WireInv, Setup, Carries, Reading
<1> QED BY <1>1, <1>2, <1>3, SetupWire, StreamWire, NetworkWire DEF Next, MQTT_Client_Task

LEMMA WireCorrect == Spec => []WireInv
<1>1. Init => WireInv
  BY ClosedInStep DEF Init, WireInv, Setup, Carries, Reading
<1>2. TypeOK /\ WireInv /\ [Next]_vars => WireInv'
  BY WireStep
<1> QED BY <1>1, <1>2, TypeCorrect, PTL DEF Spec

(* However packets are cut, and whatever the last connection left behind,   *)
(* the reader goes on where the stream goes on.                             *)
THEOREM ReaderKeepsItsPlace == Spec => []StreamInSync
<1>1. WireInv => StreamInSync
  BY DEF WireInv, Carries, StreamInSync
<1> QED BY <1>1, WireCorrect, PTL

(* CONNECT and SUBSCRIBE leave the board whole, for every packet length and *)
(* whatever wolfSSL kept of a packet before.                                *)
THEOREM HandshakeIsFramed == Spec => []HandshakeFramed
<1>1. WireInv => HandshakeFramed
  BY DEF WireInv, Carries, HandshakeFramed
<1> QED BY <1>1, WireCorrect, PTL

-----------------------------------------------------------------------------
(* Who has joined whom.                                                     *)

(* A SUBACK comes from a broker that granted or denied the subscription on  *)
(* this very connection, and nothing is left over on a new one.             *)
Acked == {"granted", "denied", "error"}
Vouched(in, stage) == \A i \in 1 .. Len(in) : in[i].type = "SUBACK" => stage \in Acked
JoinedInv ==
  /\ sock.sr \in {"INIT", "SYNSENT"} =>
       s_state = "TCP_CONNECTING" /\ sock.in = <<>> /\ sock.out = <<>>
  /\ Vouched(sock.in, broker.stage)
  /\ s_state = "CONNECTED" => broker.stage \in Acked

LEMMA VouchedTail ==
  ASSUME NEW in \in Seq(Answers), in # <<>>, NEW stage, Vouched(in, stage)
  PROVE  Vouched(Tail(in), stage) /\ (Head(in).type = "SUBACK" => stage \in Acked)
<1>1. Len(in) \in Nat /\ 1 \in 1 .. Len(in) /\ Head(in) = in[1]
  OBVIOUS
<1>2. ASSUME NEW i \in 1 .. Len(Tail(in))
      PROVE  i + 1 \in 1 .. Len(in) /\ Tail(in)[i] = in[i + 1]
  BY <1>1, <1>2, HeadTailProperties
<1> QED BY <1>1, <1>2 DEF Vouched

LEMMA VouchedConcat ==
  ASSUME NEW in \in Seq(Answers), NEW new \in Seq(Answers), NEW stage,
         Vouched(in, stage), Vouched(new, stage)
  PROVE  Vouched(in \o new, stage)
<1>1. ASSUME NEW i \in 1 .. Len(in \o new)
      PROVE  \/ i \in 1 .. Len(in) /\ (in \o new)[i] = in[i]
             \/ i - Len(in) \in 1 .. Len(new) /\ (in \o new)[i] = new[i - Len(in)]
  BY <1>1, ConcatProperties
<1> QED BY <1>1 DEF Vouched

(* Calls of the Task that change nothing between client and broker.         *)
LEMMA QuietSteps ==
  ASSUME TypeOK,
         \/ Disabled \/ TcpConnectingUp \/ TlsHandshakeStep \/ TlsHandshakeDone
         \/ SendConnect \/ SendSubscribe \/ ReconnectWait
  PROVE  /\ sock'.sr = sock.sr /\ sock'.in = sock.in /\ sock'.out = sock.out
         /\ UNCHANGED broker
         /\ \/ UNCHANGED s_state
            \/ s_state' # "CONNECTED" /\ (s_state = "TCP_CONNECTING" => sock.sr = "ESTABLISHED")
<1>1. CASE TlsHandshakeStep
  BY <1>1 DEF TlsHandshakeStep, Task, Goto, TypeOK, Sockets
<1> QED BY <1>1 DEF Disabled, TcpConnectingUp, TlsHandshakeDone, SendConnect, SendSubscribe,
        ReconnectWait, client, Task, Goto

(* What a client that serves sends of its own accord, or in reply. *)
Served(pkt) == pkt = PINGREQ \/ pkt.type = "STATUS"

(* The calls that read: what they take from the wire, and where they go.    *)
Reads(p, r) ==
  /\ s_state \in Reading
  /\ p \in mqtt_tx_pump(s_tx, sock) /\ r \in MQTTPacket_readnb(s_rx_trp, p.sock)
  /\ r.rc # "error" /\ sock' = r.sock /\ UNCHANGED broker
  /\ \/ s_state' = s_state /\ s_state # "CONNECTED" /\ s_tx' = NoTx
     \/ s_state = "WAIT_CONNACK" /\ s_state' = "SEND_SUBSCRIBE" /\ r.rc = "packet"
     \/ /\ s_state = "WAIT_SUBACK" /\ s_state' = "CONNECTED"
        /\ p.tx = NoTx /\ s_tx' = NoTx
        /\ r.rc = "packet" /\ r.pkt.type = "SUBACK"
     \/ /\ s_state = "CONNECTED" /\ s_state' = "CONNECTED"
        /\ s_tx' = p.tx \/ Served(s_tx'.pkt)

LEMMA ReadingSteps ==
  ASSUME WaitAnswer \/ WaitConnack \/ WaitSuback \/ ConnectedIdle \/ ConnectedCommand
  PROVE  \E p, r : Reads(p, r)
<1> USE DEF Reads, Consume, Task, Goto, Reading
<1>1. CASE WaitAnswer
  BY <1>1 DEF WaitAnswer, Awaits
<1>2. CASE WaitConnack
  BY <1>2 DEF WaitConnack, Awaits
<1>3. CASE WaitSuback
  BY <1>3 DEF WaitSuback, Awaits
<1>4. CASE ConnectedIdle
  BY <1>4 DEF ConnectedIdle, Serving, KeepAlive, mqtt_send, Served
<1>5. CASE ConnectedCommand
  BY <1>5 DEF ConnectedCommand, Serving, IsCommand, mqtt_send, STATUS, Served
<1> QED BY <1>1, <1>2, <1>3, <1>4, <1>5

(* What is on its way to the client is shortened by what it reads.          *)
LEMMA ReadsTail ==
  ASSUME TypeOK, NEW p, NEW r, Reads(p, r)
  PROVE  /\ sock'.sr = sock.sr /\ sock'.out = p.sock.out /\ sock'.held = p.sock.held
         /\ r.rc = "packet" =>
              sock.in # <<>> /\ r.pkt = Head(sock.in) /\ sock'.in = Tail(sock.in)
         /\ r.rc # "packet" => sock'.in = sock.in
  BY PumpWire, PumpType, ReadWire DEF Reads, TypeOK

LEMMA JoinedTask ==
  ASSUME TypeOK, JoinedInv, MQTT_Client_Task PROVE JoinedInv'
<1>0. sock.in \in Seq(Answers)
  BY DEF TypeOK, Sockets
<1>1. CASE \/ Disabled \/ TcpConnectingUp \/ TlsHandshakeStep \/ TlsHandshakeDone
           \/ SendConnect \/ SendSubscribe \/ ReconnectWait
  BY <1>1, QuietSteps DEF JoinedInv
<1>2. CASE SockOpen
  BY <1>2 DEF SockOpen, Goto, Task, Opened, Closed, JoinedInv, Vouched
<1>3. CASE TcpConnectingWait
  BY <1>3 DEF TcpConnectingWait, Goto, Task, TypeOK, Sockets, JoinedInv
<1>4. CASE \/ TcpConnectingNoSession \/ TcpConnectingFailed \/ TlsHandshakeFailed
           \/ AnswerFailed \/ ConnectedLost
  BY <1>4, TornSteps DEF JoinedInv, Vouched, Closed
<1>5. CASE TxPending \/ TxFailed
  <2>1. PICK p \in mqtt_tx_pump(s_tx, sock) : sock' = p.sock
    BY <1>5 DEF TxPending, TxFailed
  <2>2. /\ s_state # "TCP_CONNECTING" /\ UNCHANGED broker
        /\ s_state' \in {s_state, "RECONNECT_WAIT"}
    BY <1>5 DEF TxPending, TxFailed, Task, BackOff, Reading
  <2> QED BY <2>1, <2>2, PumpWire DEF JoinedInv
<1>6. CASE WaitAnswer \/ WaitConnack \/ WaitSuback \/ ConnectedIdle \/ ConnectedCommand
  <2>1. PICK p, r : Reads(p, r)
    BY <1>6, ReadingSteps
  <2>2. Vouched(sock'.in, broker.stage)
    BY <1>0, <2>1, ReadsTail, VouchedTail DEF JoinedInv
  <2>3. s_state' = "CONNECTED" => broker.stage \in Acked
    BY <1>0, <2>1, ReadsTail, VouchedTail DEF JoinedInv, Reads
  <2>4. sock'.sr \notin {"INIT", "SYNSENT"}
    BY <2>1, ReadsTail DEF JoinedInv, Reads, Reading
  <2> QED BY <2>1, <2>2, <2>3, <2>4 DEF JoinedInv, Reads
<1> QED BY <1>1, <1>2, <1>3, <1>4, <1>5, <1>6 DEF MQTT_Client_Task

(* What the broker answers, and the stage it is in then.                    *)
LEMMA BrokerAnswers ==
  ASSUME TypeOK, JoinedInv, BrokerRecv
  PROVE  \E new \in Seq(Answers) :
           /\ sock'.in = sock.in \o new /\ sock'.sr \notin {"INIT", "SYNSENT"}
           /\ Vouched(sock.in, broker'.stage) /\ Vouched(new, broker'.stage)
           /\ broker.stage \in Acked => broker'.stage \in Acked
<1> USE DEF BrokerRecv, Answer, HangUp, Linked
<1>0. /\ sock \in Sockets /\ broker = [peer |-> broker.peer, stage |-> broker.stage]
      /\ sock.sr = "ESTABLISHED"
  BY DEF TypeOK
<1>1. CASE BrokerJoin
  <2>1. PICK ok \in BOOLEAN : sock'.in = sock.in \o <<CONNACK(ok)>> /\ sock'.sr \notin {"INIT", "SYNSENT"}
    BY <1>0, <1>1 DEF BrokerJoin, Sockets
  <2>2. broker.stage \notin Acked
    BY <1>1 DEF BrokerJoin, Acked
  <2>3. <<CONNACK(ok)>> \in Seq(Answers)
    BY <2>1 DEF Answers
  <2>4. Vouched(<<CONNACK(ok)>>, broker'.stage)
    BY DEF Vouched, CONNACK
  <2> QED BY <2>1, <2>2, <2>3, <2>4 DEF JoinedInv, Vouched
<1>2. CASE BrokerSubscribe \/ BrokerError
  <2>1. broker'.stage \in Acked
    BY <1>0, <1>2 DEF BrokerSubscribe, BrokerError, Acked
  <2>2. PICK new \in Seq(Answers) : sock'.in = sock.in \o new /\ sock'.sr \notin {"INIT", "SYNSENT"}
    <3>1. \A ok \in BOOLEAN : SUBACK(ok) \in Answers
      BY DEF Answers
    <3>2. \A c \in CmdPayloads : PUBLISH(c) \in Answers
      BY DEF Answers
    <3> DEFINE Carried(new) == sock'.in = sock.in \o new /\ sock'.sr \notin {"INIT", "SYNSENT"}
    <3>3. ASSUME NEW new, NEW stage, Answer(new, stage) \/ HangUp(new, stage) PROVE Carried(new)
      BY <1>0, <3>3 DEF Sockets
    <3>4. CASE BrokerError
      <4>1. HangUp(<<>>, "error")
        BY <3>4 DEF BrokerError
      <4>2. Carried(<<>>)
        <5> HIDE DEF Carried, HangUp, Answer
        <5> QED BY <3>3, <4>1
      <4>3. <<>> \in Seq(Answers)
        OBVIOUS
      <4> QED BY <4>2, <4>3
    <3>5. CASE BrokerSubscribe
      <4>1. PICK new : /\ Carried(new)
                       /\ \/ \E ok \in BOOLEAN : new = <<SUBACK(ok)>>
                          \/ \E c \in CmdPayloads : new = <<PUBLISH(c), SUBACK(TRUE)>>
        <5> HIDE DEF Carried
        <5>1. \/ Carried(<<SUBACK(TRUE)>>) \/ Carried(<<SUBACK(FALSE)>>)
              \/ \E c \in CmdPayloads : Carried(<<PUBLISH(c), SUBACK(TRUE)>>)
          BY <3>3, <3>5 DEF BrokerSubscribe
        <5> QED BY <5>1
      <4>2. /\ \A a \in Answers : <<a>> \in Seq(Answers)
            /\ \A a, b \in Answers : <<a, b>> \in Seq(Answers)
        <5> HIDE DEF Answers
        <5> QED OBVIOUS
      <4>3. new \in Seq(Answers)
        <5> HIDE DEF Carried
        <5> QED BY <3>1, <3>2, <4>1, <4>2
      <4> QED BY <4>1, <4>3
    <3> QED BY <1>2, <3>4, <3>5
  <2> QED BY <2>1, <2>2 DEF Vouched
<1>3. CASE BrokerPing \/ BrokerStatus
  <2>1. broker'.stage = broker.stage
    BY <1>0, <1>3 DEF BrokerPing, BrokerStatus
  <2>2. PICK new \in {<<PINGRESP>>, <<>>} :
          sock'.in = sock.in \o new /\ sock'.sr \notin {"INIT", "SYNSENT"}
    BY <1>0, <1>3 DEF BrokerPing, BrokerStatus, Sockets
  <2>3. new \in Seq(Answers)
    <3>1. PINGRESP \in Answers
      BY DEF Answers
    <3>2. <<PINGRESP>> \in Seq(Answers) /\ <<>> \in Seq(Answers)
      BY <3>1
    <3> QED BY <2>2, <3>2
  <2>4. Vouched(<<>>, broker'.stage) /\ Vouched(<<PINGRESP>>, broker'.stage)
    BY DEF Vouched, PINGRESP
  <2> QED BY <2>4, <2>1, <2>2, <2>3 DEF JoinedInv
<1> QED BY <1>1, <1>2, <1>3

LEMMA JoinedNetwork ==
  ASSUME TypeOK, JoinedInv, Network PROVE JoinedInv'
<1>0. s_state' = s_state /\ sock \in Sockets /\ sock.in \in Seq(Answers)
  BY DEF Network, Environment, TcpEstablish, TcpRefuse, PeerFin, PeerReset, PeerVanish,
     RetransmitTimeout, SendOk, BrokerTls, TlsFault, BrokerRecv, BrokerPublish, client,
     TypeOK, Sockets
<1>1. CASE TcpEstablish
  BY <1>0, <1>1 DEF TcpEstablish, Sockets, JoinedInv, Vouched
<1>2. CASE TcpRefuse \/ PeerReset \/ RetransmitTimeout
  BY <1>0, <1>2 DEF TcpRefuse, PeerReset, RetransmitTimeout, Closed, JoinedInv, Vouched
<1>3. CASE PeerFin
  BY <1>0, <1>3 DEF PeerFin, Sockets, JoinedInv
<1>4. CASE SendOk
  BY <1>0, <1>4 DEF SendOk, Sockets, JoinedInv
<1>5. CASE BrokerTls \/ TlsFault
  BY <1>0, <1>5 DEF BrokerTls, TlsFault, JoinedInv
<1>6. CASE PeerVanish
  BY <1>0, <1>6 DEF PeerVanish, JoinedInv, TypeOK
<1>7. CASE BrokerPublish
  <2>1. PICK pl \in CmdPayloads \cup {TooLong, NotForUs} :
               sock' = [sock EXCEPT !.in = Append(sock.in, PUBLISH(pl))]
    BY <1>7 DEF BrokerPublish
  <2>2. PUBLISH(pl) \in Answers /\ PUBLISH(pl).type # "SUBACK"
    BY <2>1 DEF Answers, PUBLISH
  <2>3. Vouched(Append(sock.in, PUBLISH(pl)), broker.stage)
    <3> HIDE DEF PUBLISH
    <3> QED BY <1>0, <2>2, AppendProperties DEF JoinedInv, Vouched
  <2>4. sock'.in = Append(sock.in, PUBLISH(pl)) /\ sock'.sr = "ESTABLISHED"
    BY <1>0, <1>7, <2>1 DEF BrokerPublish, Linked, Sockets
  <2> QED BY <1>0, <1>7, <2>3, <2>4 DEF BrokerPublish, JoinedInv
<1>8. CASE BrokerRecv
  <2>1. PICK new \in Seq(Answers) :
           /\ sock'.in = sock.in \o new /\ sock'.sr \notin {"INIT", "SYNSENT"}
           /\ Vouched(sock.in, broker'.stage) /\ Vouched(new, broker'.stage)
           /\ broker.stage \in Acked => broker'.stage \in Acked
    BY <1>8, BrokerAnswers
  <2> QED BY <1>0, <2>1, VouchedConcat DEF JoinedInv
<1> QED BY <1>1, <1>2, <1>3, <1>4, <1>5, <1>6, <1>7, <1>8 DEF Network

LEMMA JoinedCorrect == Spec => []JoinedInv
<1>1. Init => JoinedInv
  BY DEF Init, Closed, JoinedInv, Vouched
<1>2. TypeOK /\ JoinedInv /\ [Next]_vars => JoinedInv'
  <2>1. CASE Elapse \/ UNCHANGED vars
    BY <2>1 DEF Elapse, vars, client, JoinedInv
  <2> QED BY <2>1, JoinedTask, JoinedNetwork DEF Next
<1> QED BY <1>1, <1>2, TypeCorrect, PTL DEF Spec

(* The client is not CONNECTED by an answer of another connection. *)
THEOREM ConnectedMeansJoined == Spec => []ConnectedIsJoined
<1>1. JoinedInv => ConnectedIsJoined
  BY DEF JoinedInv, Acked, ConnectedIsJoined
<1> QED BY <1>1, JoinedCorrect, PTL
-----------------------------------------------------------------------------
(* The order of the packets.                                                *)

(* A packet the broker expects; or one that a reply spoilt, which takes a   *)
(* subscriber.                                                              *)
InPlace(pkt, stage) ==
  \/ Expected(pkt, stage)
  \/ pkt = GARBAGE /\ stage \in {"granted", "denied"}

(* What is on its way to the broker is what it expects next; more than one  *)
(* packet at a time only once the session is up.                            *)
InOrder(out, stage) ==
  /\ \A i \in 1 .. Len(out) : InPlace(out[i], stage)
  /\ stage \in {"fresh", "joined"} => Len(out) <= 1

OrderInv ==
     sock.sr = "ESTABLISHED" =>
       /\ s_state # "IDLE" /\ broker.stage # "error"
       /\ InOrder(sock.out, broker.stage)
       /\ s_state \in Setup => broker.stage = "fresh" /\ sock.in = <<>> /\ sock.out = <<>>
       /\ s_state = "WAIT_CONNACK" =>
            /\ \/ broker.stage = "fresh" /\ sock.in = <<>>
               \/ broker.stage = "joined" /\ sock.out = <<>>
            /\ s_tx # NoTx =>
                 s_tx.pkt = CONNECT /\ broker.stage = "fresh" /\ sock.out = <<>>
       /\ s_state = "SEND_SUBSCRIBE" => broker.stage = "joined" /\ sock.out = <<>>
       /\ s_state = "WAIT_SUBACK" =>
            /\ \/ broker.stage = "joined"
               \/ broker.stage \in InSession /\ sock.out = <<>>
            /\ s_tx # NoTx =>
                 s_tx.pkt = SUBSCRIBE /\ broker.stage = "joined" /\ sock.out = <<>>
       /\ s_state = "CONNECTED" =>
            /\ s_tx # NoTx => Served(s_tx.pkt)
            /\ sock.held # NoTx => Served(sock.held.pkt)

(* One call of the pump puts the end of its packet on the wire, or nothing  *)
(* complete; or it spoils what the wire has of another packet, or brings    *)
(* that to its end.                                                         *)
LEMMA PumpPuts ==
  ASSUME TypeOK, NEW p \in mqtt_tx_pump(s_tx, sock)
  PROVE  /\ p.sock.sr = sock.sr /\ p.sock.in = sock.in
         /\ p.tx # NoTx => s_tx # NoTx /\ p.tx.pkt = s_tx.pkt
         /\ p.sock.held \in {NoTx, s_tx, sock.held}
         /\ \/ p.sock.out = sock.out
            \/ s_tx # NoTx /\ p.tx = NoTx /\ p.sock.out = Append(sock.out, s_tx.pkt)
            \/ /\ s_tx # NoTx /\ ~InStep(s_tx, sock)
               /\ \/ p.sock.out = Append(sock.out, GARBAGE)
                  \/ sock.held # NoTx /\ p.sock.out = Append(sock.out, sock.held.pkt)
<1>0. s_tx \in TxStates /\ sock \in Sockets
  BY DEF TypeOK
<1> DEFINE Puts ==
      /\ p.tx # NoTx => s_tx # NoTx /\ p.tx.pkt = s_tx.pkt
      /\ p.sock.held \in {NoTx, s_tx, sock.held}
      /\ \/ p.sock.out = sock.out
         \/ s_tx # NoTx /\ p.tx = NoTx /\ p.sock.out = Append(sock.out, s_tx.pkt)
         \/ /\ s_tx # NoTx /\ ~InStep(s_tx, sock)
            /\ \/ p.sock.out = Append(sock.out, GARBAGE)
               \/ sock.held # NoTx /\ p.sock.out = Append(sock.out, sock.held.pkt)
<1> SUFFICES Puts
  BY PumpWire
<1>1. CASE Untried(p, s_tx, sock)
  BY <1>1 DEF Untried
<1>2. CASE Waits(p, s_tx, sock)
  BY <1>0, <1>2, WithheldFacts DEF Waits
<1>3. CASE Resumes(p, s_tx, sock)
  <2>1. p.tx = NoTx /\ p.sock.held = NoTx /\ s_tx # NoTx /\ sock.held = s_tx
    BY <1>0, <1>3, FlushedWire DEF Resumes
  <2>2. CASE ~sock.tail /\ sock.frame = sock.held.sent
    BY <1>0, <1>3, <2>1, <2>2, FlushedWire DEF Resumes
  <2>3. CASE sock.tail \/ sock.frame # sock.held.sent
    <3>1. ~InStep(s_tx, sock)
      BY <2>1, <2>3 DEF InStep
    <3>2. p.sock.out = sock.out \/ p.sock.out = Append(sock.out, GARBAGE)
      BY <1>0, <1>3, <2>1, <2>3, FlushedWire DEF Resumes
    <3> QED BY <2>1, <3>1, <3>2
  <2>4. sock.tail \in BOOLEAN
    BY <1>0, SockFields
  <2> QED BY <2>2, <2>3, <2>4
<1>4. CASE Mistakes(p, s_tx, sock)
  <2>1. ~InStep(s_tx, sock) /\ sock.held # NoTx /\ s_tx # NoTx /\ p.tx \in {NoTx, s_tx}
    BY <1>4 DEF InStep, Mistakes
  <2>2. /\ Flushed(sock) \in Sockets /\ Flushed(sock).held = NoTx
        /\ \/ Flushed(sock).out = sock.out
           \/ Flushed(sock).out = Append(sock.out, GARBAGE)
           \/ Flushed(sock).out = Append(sock.out, sock.held.pkt)
    BY <1>0, <2>1, FlushedWire, SockFields
  <2>3. p.sock.out = Flushed(sock).out /\ p.sock.held \in {NoTx, s_tx}
    <3>1. CASE p.sock = Flushed(sock)
      BY <2>2, <3>1
    <3>2. CASE p.sock = Tailed(s_tx, sock)
      BY <1>0, <2>1, <3>2, FlushedTail
    <3> QED BY <1>4, <3>1, <3>2 DEF Mistakes
  <2> QED BY <2>1, <2>2, <2>3
<1>5. CASE Writes(p, s_tx, sock)
  <2>0. PICK k \in 1 .. PktLen - s_tx.sent : p = Written(s_tx, sock, k)
    BY <1>5 DEF Writes
  <2>1. /\ s_tx # NoTx /\ sock.held = NoTx /\ p.sock = Pushed(s_tx, sock, k)
        /\ \/ s_tx.sent + k = PktLen /\ p.tx = NoTx
           \/ s_tx.sent + k < PktLen /\ p.tx # NoTx /\ p.tx.pkt = s_tx.pkt
    BY <1>0, <1>5, <2>0, WrittenCases DEF Writes
  <2>2. ~(PktLen < PktLen)
    BY MqttAssumption
  <2>3. p.sock.held = NoTx
    BY <1>0, <2>1, PushedWire
  <2>4. CASE sock.frame = s_tx.sent
    <3>1. \/ p.tx = NoTx /\ p.sock.out = Append(sock.out, s_tx.pkt)
          \/ p.tx # NoTx /\ p.sock.out = sock.out
      BY <1>0, <2>1, <2>2, <2>4, PushedWire
    <3> QED BY <2>1, <2>3, <3>1
  <2>5. CASE sock.frame # s_tx.sent
    <3>1. p.sock.out = sock.out \/ p.sock.out = Append(sock.out, GARBAGE)
      BY <1>0, <2>1, <2>5, PushedWire
    <3>2. ~InStep(s_tx, sock)
      BY <2>5 DEF InStep
    <3> QED BY <2>1, <2>3, <3>1, <3>2
  <2> QED BY <2>4, <2>5
<1> HIDE DEF Puts
<1> QED BY <1>0, <1>1, <1>2, <1>3, <1>4, <1>5, PumpCases

LEMMA InOrderAppend ==
  ASSUME NEW out \in Seq(Requests \cup {GARBAGE}), NEW pkt \in Requests \cup {GARBAGE},
         NEW stage, InOrder(out, stage), InPlace(pkt, stage),
         stage \in {"fresh", "joined"} => out = <<>>
  PROVE  InOrder(Append(out, pkt), stage)
<1>1. Len(Append(out, pkt)) = Len(out) + 1 /\ Len(out) \in Nat
  OBVIOUS
<1>2. ASSUME NEW i \in 1 .. Len(Append(out, pkt))
      PROVE  \/ Append(out, pkt)[i] = pkt
             \/ i \in 1 .. Len(out) /\ Append(out, pkt)[i] = out[i]
  BY <1>1, <1>2, AppendProperties
<1>3. out = <<>> => Len(out) = 0
  OBVIOUS
<1> QED BY <1>1, <1>2, <1>3 DEF InOrder

LEMMA InOrderTail ==
  ASSUME NEW out \in Seq(Requests \cup {GARBAGE}), out # <<>>, NEW stage, InOrder(out, stage)
  PROVE  /\ InPlace(Head(out), stage) /\ InOrder(Tail(out), stage)
         /\ stage \in {"fresh", "joined"} => Tail(out) = <<>>
<1>1. Len(out) \in Nat /\ Len(out) >= 1 /\ Head(out) = out[1] /\ Len(Tail(out)) = Len(out) - 1
  BY HeadTailProperties, EmptySeq
<1>2. ASSUME NEW i \in 1 .. Len(Tail(out))
      PROVE  i + 1 \in 1 .. Len(out) /\ Tail(out)[i] = out[i + 1]
  BY <1>1, <1>2, HeadTailProperties
<1>3. Len(out) <= 1 => Tail(out) = <<>>
  BY <1>1, HeadTailProperties, EmptySeq
<1> QED BY <1>1, <1>2, <1>3 DEF InOrder

LEMMA InOrderEmpty == ASSUME NEW stage PROVE InOrder(<<>>, stage)
BY DEF InOrder

(* A packet is pumped out only where the broker expects it, and nothing is  *)
(* spoilt before the client is CONNECTED.                                   *)
LEMMA PumpOrder ==
  ASSUME TypeOK, WireInv, JoinedInv, OrderInv, s_state \in Reading,
         sock.sr = "ESTABLISHED", NEW p \in mqtt_tx_pump(s_tx, sock)
  PROVE  /\ InOrder(p.sock.out, broker.stage)
         /\ s_state # "CONNECTED" /\ (p.tx # NoTx \/ s_tx = NoTx) => p.sock.out = sock.out
<1>0. sock.out \in Seq(Requests \cup {GARBAGE})
  BY DEF TypeOK, Sockets
<1>1. s_state # "CONNECTED" => InStep(s_tx, sock)
  BY DEF WireInv, Carries, Reading
<1>2. s_state = "CONNECTED" => broker.stage \in {"granted", "denied"}
  BY DEF JoinedInv, OrderInv, Acked
<1>3. s_tx # NoTx => s_tx.pkt \in Requests
  BY DEF TypeOK, TxStates
<1>4. CASE p.sock.out = sock.out
  BY <1>4 DEF OrderInv
<1>5. CASE s_tx # NoTx /\ p.tx = NoTx /\ p.sock.out = Append(sock.out, s_tx.pkt)
  <2>1. InPlace(s_tx.pkt, broker.stage)
    BY <1>2, <1>5 DEF OrderInv, Reading, Expected, InPlace, InSession, Served
  <2>2. broker.stage \in {"fresh", "joined"} => sock.out = <<>>
    BY <1>2, <1>5 DEF OrderInv, Reading, InSession, JoinedInv, Acked
  <2> QED BY <1>0, <1>3, <1>5, <2>1, <2>2, InOrderAppend DEF OrderInv
<1>6. sock.held # NoTx => sock.held.pkt \in Requests
  BY QueuedType, SockFields DEF TypeOK
<1>7. CASE /\ s_tx # NoTx /\ ~InStep(s_tx, sock)
            /\ \/ p.sock.out = Append(sock.out, GARBAGE)
               \/ sock.held # NoTx /\ p.sock.out = Append(sock.out, sock.held.pkt)
  <2>1. s_state = "CONNECTED" /\ broker.stage \in {"granted", "denied"}
    BY <1>1, <1>2, <1>7
  <2>2. broker.stage \notin {"fresh", "joined"} /\ InOrder(sock.out, broker.stage)
    BY <2>1 DEF OrderInv
  <2>3. ASSUME NEW pkt \in Requests \cup {GARBAGE}, InPlace(pkt, broker.stage)
        PROVE  InOrder(Append(sock.out, pkt), broker.stage)
    BY <1>0, <2>2, <2>3, InOrderAppend
  <2>4. GARBAGE \in Requests \cup {GARBAGE} /\ InPlace(GARBAGE, broker.stage)
    BY <2>1 DEF InPlace
  <2>5. sock.held # NoTx => InPlace(sock.held.pkt, broker.stage)
    BY <2>1 DEF InPlace, OrderInv, Served, Expected, InSession
  <2>6. InOrder(Append(sock.out, GARBAGE), broker.stage)
    BY <2>3, <2>4
  <2>7. sock.held # NoTx => InOrder(Append(sock.out, sock.held.pkt), broker.stage)
    BY <1>6, <2>3, <2>5
  <2> QED BY <1>7, <2>1, <2>6, <2>7
<1> QED BY <1>4, <1>5, <1>7, PumpPuts

LEMMA OrderTask ==
  ASSUME TypeOK, WireInv, JoinedInv, OrderInv, MQTT_Client_Task PROVE OrderInv'
<1>1. CASE Disabled
  BY <1>1 DEF Disabled, client, OrderInv
<1>2. CASE SockOpen \/ TcpConnectingWait
  <2>1. sock'.sr # "ESTABLISHED" /\ broker' = broker
    BY <1>2 DEF SockOpen, TcpConnectingWait, Opened, Closed, Task, TypeOK, Sockets
  <2> QED BY <2>1 DEF OrderInv
<1>3. CASE \/ TcpConnectingNoSession \/ TcpConnectingFailed \/ TlsHandshakeFailed
           \/ AnswerFailed \/ ConnectedLost
  BY <1>3, TornSteps DEF OrderInv, Closed
<1>4. CASE TcpConnectingUp \/ TlsHandshakeStep \/ TlsHandshakeDone
  <2>1. s_state \in Setup /\ s_state' \in Setup
    BY <1>4 DEF TcpConnectingUp, TlsHandshakeStep, TlsHandshakeDone, Task, Goto, Setup
  <2>2. /\ sock'.sr = sock.sr /\ sock'.in = sock.in /\ sock'.out = sock.out
        /\ UNCHANGED broker
    BY <1>4, QuietSteps
  <2> QED BY <2>1, <2>2 DEF OrderInv, Setup
<1>5. CASE SendConnect
  BY <1>5 DEF SendConnect, Task, Goto, mqtt_send, Setup, OrderInv
<1>6. CASE SendSubscribe
  BY <1>6 DEF SendSubscribe, Task, Goto, mqtt_send, Setup, OrderInv
<1>7. CASE ReconnectWait
  BY <1>7 DEF ReconnectWait, Task, Goto, Setup, OrderInv
<1>8. CASE TxPending
  <2>1. PICK p \in mqtt_tx_pump(s_tx, sock) : s_tx' = p.tx /\ sock' = p.sock /\ p.tx # NoTx
    BY <1>8 DEF TxPending
  <2>2. /\ s_tx # NoTx /\ s_tx'.pkt = s_tx.pkt
        /\ sock'.sr = sock.sr /\ sock'.in = sock.in
        /\ s_state \in Reading \ {"CONNECTED"} /\ s_state' = s_state /\ broker' = broker
    BY <1>8, <2>1, PumpPuts DEF TxPending, Task, Goto, Reading
  <2>3. sock.sr = "ESTABLISHED" => sock'.out = sock.out
    BY <2>1, <2>2, PumpOrder
  <2> QED BY <2>2, <2>3 DEF OrderInv, Reading, Setup
<1>9. CASE WaitAnswer \/ WaitConnack \/ WaitSuback \/ ConnectedIdle \/ ConnectedCommand
  <2>1. PICK p, r : Reads(p, r)
    BY <1>9, ReadingSteps
  <2>2. CASE sock.sr # "ESTABLISHED"
    BY <2>1, <2>2, ReadsTail DEF Reads, OrderInv
  <2>3. CASE sock.sr = "ESTABLISHED"
    <3>1. /\ sock'.sr = "ESTABLISHED" /\ broker' = broker /\ s_state \in Reading
          /\ InOrder(sock'.out, broker.stage)
      BY <2>1, <2>3, ReadsTail, PumpOrder DEF Reads
    <3>2. /\ s_state # "CONNECTED" /\ s_tx = NoTx => sock'.out = sock.out
          /\ p.tx # NoTx => s_tx # NoTx /\ p.tx.pkt = s_tx.pkt
      BY <2>1, <2>3, ReadsTail, PumpPuts, PumpOrder DEF Reads
    <3>3. s_state = "WAIT_CONNACK" =>
            \/ broker.stage = "fresh" /\ sock.in = <<>> /\ sock'.in = <<>> /\ r.rc # "packet"
            \/ broker.stage = "joined" /\ sock'.out = <<>>
      BY <2>1, <2>3, <3>2, ReadsTail DEF OrderInv
    <3>4. CASE s_state' = s_state /\ s_state # "CONNECTED" /\ s_tx' = NoTx
      <4>1. s_state = "WAIT_SUBACK" =>
              \/ broker.stage = "joined"
              \/ broker.stage \in InSession /\ sock'.out = <<>>
        BY <2>3, <3>2 DEF OrderInv
      <4> QED BY <2>3, <3>1, <3>3, <3>4, <4>1 DEF OrderInv, Setup, Reading
    <3>5. CASE s_state = "WAIT_CONNACK" /\ s_state' = "SEND_SUBSCRIBE" /\ r.rc = "packet"
      BY <2>3, <3>1, <3>3, <3>5 DEF OrderInv, Setup
    <3>6. CASE /\ s_state = "WAIT_SUBACK" /\ s_state' = "CONNECTED"
               /\ p.tx = NoTx /\ s_tx' = NoTx
      <4>1. InStep(p.tx, p.sock)
        BY <2>1, <2>3, <3>6, PumpWire DEF Reads, WireInv, Carries
      <4>2. sock'.held = NoTx
        BY <2>1, <3>6, <4>1, ReadsTail DEF InStep
      <4> QED BY <2>3, <3>1, <3>6, <4>2 DEF OrderInv, Setup
    <3>7. CASE /\ s_state = "CONNECTED" /\ s_state' = "CONNECTED"
               /\ s_tx' = p.tx \/ Served(s_tx'.pkt)
      <4>1. sock'.held \in {NoTx, s_tx, sock.held}
        BY <2>1, ReadsTail, PumpPuts DEF Reads
      <4>2. (s_tx # NoTx => Served(s_tx.pkt)) /\ (sock.held # NoTx => Served(sock.held.pkt))
        BY <2>3, <3>7 DEF OrderInv
      <4>3. s_tx' # NoTx => Served(s_tx'.pkt)
        BY <3>2, <3>7, <4>2
      <4>4. sock'.held # NoTx => Served(sock'.held.pkt)
        BY <4>1, <4>2
      <4> QED BY <2>3, <3>1, <3>7, <4>3, <4>4 DEF OrderInv, Setup
    <3> QED BY <2>1, <3>4, <3>5, <3>6, <3>7 DEF Reads
  <2> QED BY <2>2, <2>3
<1>10. CASE TxFailed
  <2>1. PICK p \in mqtt_tx_pump(s_tx, sock) : sock' = p.sock
    BY <1>10 DEF TxFailed
  <2>2. s_state \in Reading /\ s_state' = "RECONNECT_WAIT" /\ UNCHANGED broker
    BY <1>10 DEF TxFailed, Task, BackOff
  <2>3. sock'.sr = sock.sr /\ (sock.sr = "ESTABLISHED" => InOrder(sock'.out, broker.stage))
    BY <2>1, <2>2, PumpPuts, PumpOrder
  <2> QED BY <2>2, <2>3 DEF OrderInv, Setup
<1> QED BY <1>1, <1>2, <1>3, <1>4, <1>5, <1>6, <1>7, <1>8, <1>9, <1>10 DEF MQTT_Client_Task

(* The broker takes what it expects, and then expects what is left.         *)
LEMMA OrderBroker ==
  ASSUME TypeOK, OrderInv, BrokerRecv PROVE OrderInv'
<1>0. /\ sock \in Sockets /\ sock.out \in Seq(Requests \cup {GARBAGE})
      /\ sock.out # <<>> /\ sock.sr = "ESTABLISHED" /\ InOrder(sock.out, broker.stage)
      /\ broker = [peer |-> broker.peer, stage |-> broker.stage]
      /\ s_state' = s_state /\ s_tx' = s_tx /\ broker.stage # "error"
  BY DEF TypeOK, Sockets, BrokerRecv, Linked, OrderInv, Environment, client
<1>1. /\ InPlace(Head(sock.out), broker.stage) /\ InOrder(Tail(sock.out), broker.stage)
      /\ broker.stage \in {"fresh", "joined"} => Tail(sock.out) = <<>>
  BY <1>0, InOrderTail
<1>2. ASSUME NEW answers, NEW stage, HangUp(answers, stage)
      PROVE  OrderInv'
  BY <1>0, <1>2 DEF HangUp, Sockets, OrderInv
<1>3. ASSUME NEW answers, NEW stage, Answer(answers, stage)
      PROVE  /\ broker'.stage = stage /\ sock'.sr = "ESTABLISHED"
             /\ sock'.out = Tail(sock.out) /\ sock'.held = sock.held
  BY <1>0, <1>3 DEF Answer, Sockets
<1>4. s_state \notin Setup /\ s_state # "SEND_SUBSCRIBE"
  BY <1>0 DEF OrderInv
<1>5. CASE BrokerJoin
  <2>1. CASE \E answers : HangUp(answers, "refused")
    BY <1>2, <2>1
  <2>2. CASE \E answers : Answer(answers, "joined")
    <3>1. /\ broker'.stage = "joined" /\ sock'.out = <<>> /\ sock'.sr = "ESTABLISHED"
          /\ sock'.held = sock.held
      BY <1>1, <1>3, <1>5, <2>2 DEF BrokerJoin
    <3>2. s_tx # NoTx => s_state \notin {"WAIT_CONNACK", "WAIT_SUBACK"}
      BY <1>0, <1>5 DEF OrderInv, BrokerJoin, InSession
    <3> QED BY <1>0, <1>4, <3>1, <3>2, InOrderEmpty DEF OrderInv
  <2> QED BY <1>5, <2>1, <2>2 DEF BrokerJoin
<1>6. CASE BrokerSubscribe
  <2>1. /\ broker'.stage \in {"granted", "denied"} /\ sock'.out = <<>>
        /\ sock'.sr = "ESTABLISHED" /\ sock'.held = sock.held
    BY <1>1, <1>3, <1>6 DEF BrokerSubscribe
  <2>2. s_state # "WAIT_CONNACK" /\ (s_tx # NoTx => s_state # "WAIT_SUBACK")
    BY <1>0, <1>6 DEF OrderInv, BrokerSubscribe
  <2> QED BY <1>0, <1>4, <2>1, <2>2, InOrderEmpty DEF OrderInv, InSession
<1>7. CASE BrokerPing \/ BrokerStatus
  <2>1. /\ broker'.stage = broker.stage /\ sock'.out = Tail(sock.out)
        /\ sock'.sr = "ESTABLISHED" /\ sock'.held = sock.held /\ broker.stage \in InSession
    BY <1>3, <1>7 DEF BrokerPing, BrokerStatus
  <2> QED BY <1>0, <1>1, <1>4, <2>1 DEF OrderInv, InSession
<1>8. CASE BrokerError
  BY <1>1, <1>2, <1>8 DEF BrokerError, InPlace
<1> QED BY <1>5, <1>6, <1>7, <1>8 DEF BrokerRecv

LEMMA OrderNetwork ==
  ASSUME TypeOK, JoinedInv, OrderInv, Network PROVE OrderInv'
<1>0. s_state' = s_state /\ s_tx' = s_tx /\ sock \in Sockets
  BY DEF Network, Environment, TcpEstablish, TcpRefuse, PeerFin, PeerReset, PeerVanish,
     RetransmitTimeout, SendOk, BrokerTls, TlsFault, BrokerRecv, BrokerPublish, client,
     TypeOK
<1>1. CASE TcpEstablish
  <2>1. /\ s_state = "TCP_CONNECTING" /\ sock'.in = <<>> /\ sock'.out = <<>>
        /\ broker'.stage = "fresh"
    BY <1>0, <1>1 DEF TcpEstablish, JoinedInv, Sockets
  <2> QED BY <1>0, <2>1, InOrderEmpty DEF OrderInv, Setup
<1>2. CASE TcpRefuse \/ PeerFin \/ PeerReset \/ RetransmitTimeout
  <2>1. sock'.sr # "ESTABLISHED" /\ broker' = broker
    BY <1>0, <1>2 DEF TcpRefuse, PeerFin, PeerReset, RetransmitTimeout, Closed, Sockets
  <2> QED BY <2>1 DEF OrderInv
<1>3. CASE PeerVanish \/ BrokerTls \/ TlsFault \/ SendOk
  <2>1. /\ broker'.stage = broker.stage /\ sock'.sr = sock.sr /\ sock'.held = sock.held
        /\ sock.sr = "ESTABLISHED" => sock'.in = sock.in /\ sock'.out = sock.out
    BY <1>0, <1>3 DEF PeerVanish, BrokerTls, TlsFault, SendOk, TypeOK, Sockets
  <2> QED BY <1>0, <2>1 DEF OrderInv
<1>4. CASE BrokerPublish
  <2>1. PICK in : sock' = [sock EXCEPT !.in = in]
    BY <1>4 DEF BrokerPublish
  <2>2. /\ broker' = broker /\ broker.stage = "granted"
        /\ sock'.out = sock.out /\ sock'.sr = sock.sr /\ sock'.held = sock.held
    BY <1>0, <1>4, <2>1 DEF BrokerPublish, Sockets
  <2> QED BY <1>0, <2>2 DEF OrderInv
<1>5. CASE BrokerRecv
  BY <1>5, OrderBroker
<1> QED BY <1>1, <1>2, <1>3, <1>4, <1>5 DEF Network

LEMMA OrderCorrect == Spec => []OrderInv
<1>1. Init => OrderInv
  BY DEF Init, Closed, OrderInv
<1>2. TypeOK /\ WireInv /\ JoinedInv /\ OrderInv /\ [Next]_vars => OrderInv'
  <2>1. CASE Elapse \/ UNCHANGED vars
    BY <2>1 DEF Elapse, vars, client, OrderInv
  <2> QED BY <2>1, OrderTask, OrderNetwork DEF Next
<1> QED BY <1>1, <1>2, TypeCorrect, WireCorrect, JoinedCorrect, PTL DEF Spec

(* However packets are cut and however often the connection fails, the      *)
(* broker is brought a packet out of place only if a reply was written over *)
(* half of another one, which a client that is not CONNECTED never does.    *)
THEOREM PacketsInOrder == Spec => []ProtocolOrder
<1>1. TypeOK /\ OrderInv => ProtocolOrder
  <2> SUFFICES ASSUME TypeOK, OrderInv, Linked, sock.out # <<>>
      PROVE  \/ Expected(Head(sock.out), broker.stage)
             \/ Head(sock.out) = GARBAGE /\ s_state \in {"CONNECTED", "RECONNECT_WAIT", "SOCK_OPEN"}
    BY DEF ProtocolOrder
  <2>1. sock.out \in Seq(Requests \cup {GARBAGE}) /\ s_state \in States
    BY DEF TypeOK, Sockets
  <2>2. InPlace(Head(sock.out), broker.stage)
    BY <2>1, InOrderTail DEF OrderInv, Linked
  <2>3. broker.stage \in {"granted", "denied"} =>
          s_state \in {"CONNECTED", "RECONNECT_WAIT", "SOCK_OPEN"}
    BY <2>1 DEF OrderInv, Linked, States, Setup
  <2> QED BY <2>2, <2>3 DEF InPlace
<1> QED BY <1>1, OrderCorrect, TypeCorrect, PTL

-----------------------------------------------------------------------------
(* The wedges.                                                              *)

(* A call of the Task from a wedge finds nothing, and leaves all as it was. *)
LEMMA WedgedTask ==
  ASSUME TypeOK, BackoffInv, Wedged, MQTT_Client_Task
  PROVE  UNCHANGED <<s_state, sock, tls, broker, s_tx>>
<1> DEFINE Waiting == s_state \in {"WAIT_CONNACK", "WAIT_SUBACK"}
<1>1. /\ s_state \in {"TCP_CONNECTING", "TLS_HANDSHAKE", "WAIT_CONNACK", "WAIT_SUBACK"}
      /\ s_state = "TCP_CONNECTING" => sock.sr = "CLOSE_WAIT"
      /\ s_state = "TLS_HANDSHAKE" => tls = "hello" /\ CanSend(sock) /\ ~Drained(sock)
      /\ Waiting => /\ s_tx = NoTx /\ tls = "done" /\ sock.in = <<>> /\ ~Drained(sock)
  BY DEF Wedged, CanSend, Drained
<1>2. Waiting => \A p \in mqtt_tx_pump(s_tx, sock) :
        /\ p.rc = "idle" /\ p.tx = NoTx /\ p.sock = sock
        /\ \A r \in MQTTPacket_readnb(s_rx_trp, p.sock) : r.rc = "none" /\ r.sock = sock
  BY <1>1 DEF mqtt_tx_pump, Outcome, MQTTPacket_readnb, Nothing
<1> USE DEF Task, Goto
<1>3. CASE Disabled
  BY <1>1, <1>3 DEF Disabled, BackoffInv
<1>4. CASE SockOpen \/ SendConnect \/ SendSubscribe \/ ReconnectWait
  BY <1>1, <1>4 DEF SockOpen, SendConnect, SendSubscribe, ReconnectWait
<1>5. CASE \/ TcpConnectingWait \/ TcpConnectingUp \/ TcpConnectingNoSession
           \/ TcpConnectingFailed
  <2>1. [sock EXCEPT !.sr = IF @ = "INIT" THEN "SYNSENT" ELSE @] = sock
    <3>1. sock.sr # "INIT"
      BY DEF Wedged
    <3>2. sock = [sr |-> sock.sr, busy |-> sock.busy, in |-> sock.in, out |-> sock.out,
                  frame |-> sock.frame, half |-> sock.half, held |-> sock.held,
                  tail |-> sock.tail]
      BY SockFields DEF TypeOK
    <3> QED BY <3>1, <3>2
  <2> QED BY <1>1, <1>5, <2>1 DEF TcpConnectingWait, TcpConnectingUp, TcpConnectingNoSession,
         TcpConnectingFailed
<1>6. CASE TlsHandshakeStep \/ TlsHandshakeDone \/ TlsHandshakeFailed
  BY <1>1, <1>6 DEF TlsHandshakeStep, TlsHandshakeDone, TlsHandshakeFailed
<1>7. CASE TxFailed \/ TxPending
  BY <1>1, <1>2, <1>7 DEF TxFailed, TxPending, Reading
<1>8. CASE WaitAnswer \/ AnswerFailed \/ WaitConnack \/ WaitSuback
  <2>1. CASE WaitAnswer
    BY <1>1, <1>2, <2>1 DEF WaitAnswer, Awaits, Consume
  <2>2. CASE AnswerFailed
    BY <1>1, <1>2, <2>2 DEF AnswerFailed, Awaits, Refused
  <2>3. CASE WaitConnack \/ WaitSuback
    BY <1>1, <1>2, <2>3 DEF WaitConnack, WaitSuback, Awaits
  <2> QED BY <1>8, <2>1, <2>2, <2>3
<1>9. CASE ConnectedIdle \/ ConnectedCommand \/ ConnectedLost
  BY <1>1, <1>9 DEF ConnectedIdle, ConnectedCommand, ConnectedLost, Serving
<1> QED BY <1>3, <1>4, <1>5, <1>6, <1>7, <1>8, <1>9 DEF MQTT_Client_Task

(* The environment frees it by a fault only. *)
LEMMA WedgedNetwork ==
  ASSUME TypeOK, Wedged, Network, UNCHANGED faults
  PROVE  UNCHANGED <<s_state, sock, tls, broker, s_tx>>
<1>1. faults + 1 # faults
  BY DEF TypeOK
<1>2. sock.sr \in {"CLOSE_WAIT", "ESTABLISHED"} /\ ~sock.busy /\ ~Linked
  BY DEF Wedged, Linked
<1> QED BY <1>1, <1>2 DEF Network, Environment, Fault, TcpEstablish, TcpRefuse, PeerFin,
       PeerReset, PeerVanish, RetransmitTimeout, SendOk, BrokerTls, TlsFault, BrokerRecv,
       BrokerPublish, Linked, Wedged, client

(* Nothing but another fault frees a wedged client: the only state that     *)
(* MQTT_Client_Task() leaves because of the time is RECONNECT_WAIT.         *)
THEOREM WedgedStaysWedged == Spec => WedgedForGood
<1>1. TypeOK /\ BackoffInv /\ [Next]_vars => (Wedged /\ UNCHANGED faults => Wedged')
  <2> SUFFICES ASSUME TypeOK, BackoffInv, [Next]_vars, Wedged, UNCHANGED faults
      PROVE  Wedged'
    OBVIOUS
  <2>1. UNCHANGED <<s_state, sock, tls, broker, s_tx>>
    BY WedgedTask, WedgedNetwork DEF Next, Elapse, vars, client
  <2> QED BY <2>1 DEF Wedged
<1> QED BY <1>1, TypeCorrect, BackoffCorrect, PTL DEF Spec, WedgedForGood

-----------------------------------------------------------------------------
(* Sessions that are lost stay lost: once the heap is full of sessions that *)
(* nothing refers to, no step of the client or of its environment frees one.*)
THEOREM ExhaustedStaysExhausted == Spec => ExhaustedForGood
<1>1. [Next]_vars => (Exhausted => Exhausted')
  <2> SUFFICES ASSUME [Next]_vars, Exhausted PROVE Exhausted'
    OBVIOUS
  <2>0. Sessions \subseteq heap /\ s_ssl = NULL /\ NULL \notin Sessions
    BY MqttAssumption DEF Exhausted
  <2>1. CASE go_reconnect
    BY <2>0, <2>1 DEF go_reconnect, teardown_connection, Exhausted
  <2>2. CASE UNCHANGED <<s_ssl, heap>>
    BY <2>0, <2>2 DEF Exhausted
  <2>3. CASE MQTT_Client_Task
    <3>1. CASE \/ Disabled \/ SockOpen \/ TcpConnectingWait \/ TlsHandshakeStep
               \/ TlsHandshakeDone \/ SendConnect \/ SendSubscribe \/ TxFailed \/ TxPending
               \/ ReconnectWait
      BY <2>2, <3>1 DEF Disabled, client, SockOpen, TcpConnectingWait, TlsHandshakeStep,
         TlsHandshakeDone, SendConnect, SendSubscribe, TxFailed, TxPending, ReconnectWait
    <3>2. CASE TcpConnectingUp
      BY <2>0, <3>2 DEF TcpConnectingUp
    <3>3. CASE TcpConnectingNoSession
      BY <2>0, <3>3 DEF TcpConnectingNoSession, Exhausted
    <3>4. CASE TcpConnectingFailed \/ TlsHandshakeFailed \/ AnswerFailed \/ ConnectedLost
      BY <2>1, <3>4 DEF TcpConnectingFailed, TlsHandshakeFailed, AnswerFailed, ConnectedLost
    <3>5. CASE WaitAnswer \/ WaitConnack \/ WaitSuback \/ ConnectedIdle \/ ConnectedCommand
      BY <2>2, <3>5 DEF WaitAnswer, WaitConnack, WaitSuback, ConnectedIdle,
         ConnectedCommand, Consume
    <3> QED BY <2>3, <3>1, <3>2, <3>3, <3>4, <3>5 DEF MQTT_Client_Task
  <2>4. CASE Network \/ Elapse \/ UNCHANGED vars
    <3>1. UNCHANGED client
      BY <2>4 DEF Network, Elapse, vars, Environment, TcpEstablish, TcpRefuse, PeerFin,
         PeerReset, PeerVanish, RetransmitTimeout, SendOk, BrokerTls, TlsFault,
         BrokerRecv, BrokerPublish
    <3> QED BY <2>2, <3>1 DEF client
  <2> QED BY <2>3, <2>4 DEF Next
<1> QED BY <1>1, PTL DEF Spec, ExhaustedForGood

-----------------------------------------------------------------------------
(* The keepalive.                                                           *)

Rest == KEEPALIVE_HALF + MaxGap
Age == Minus(tick, s_last_activity_ms)

(* With nothing queued, s_last_activity_ms is at most a keepalive half old  *)
(* when the Task has been called, and what it hides of the silence are the  *)
(* times before each PINGRESP.  A queued packet ends either by being sent   *)
(* or with the connection, so nothing need be known while there is one.     *)
KeepaliveInv ==
  /\ silence \in Nat /\ answered \in Nat
  /\ s_state = "CONNECTED" /\ s_tx = NoTx =>
       Age <= KEEPALIVE_HALF + gap /\ silence <= Age + answered * Rest

LEMMA RestFacts ==
  /\ KEEPALIVE_HALF \in Nat /\ MaxGap \in Nat /\ TickMod \in Nat /\ Rest \in Nat
  /\ KEEPALIVE_HALF <= Rest /\ Rest < TickMod
  BY MqttAssumption DEF Rest

LEMMA MinusFacts ==
  ASSUME NEW t \in Ticks, NEW u \in Ticks
  PROVE  Minus(t, u) \in Nat /\ Minus(t, t) = 0
  BY MqttAssumption DEF Minus, Ticks

(* One more PINGRESP allows for one more rest.                              *)
LEMMA OneMore ==
  ASSUME NEW n \in Nat
  PROVE  /\ n * Rest \in Nat /\ (n + 0) * Rest = n * Rest
         /\ (n + 1) * Rest = n * Rest + Rest
<1>1. ASSUME NEW c \in Nat
      PROVE  n * c \in Nat /\ (n + 0) * c = n * c /\ (n + 1) * c = n * c + c
  OBVIOUS
<1> QED BY <1>1, RestFacts

(* What a step within CONNECTED adds to the history.                        *)
LEMMA KeepaliveCount ==
  ASSUME TypeOK, TypeOK', KeepaliveInv, KNext, s_state = "CONNECTED", s_state' = "CONNECTED"
  PROVE  /\ silence' \in Nat /\ answered' \in Nat
         /\ Sent => silence' <= Minus(tick', tick)
         /\ silence' <= silence + Minus(tick', tick)
         /\ ~Sent => answered' * Rest = answered * Rest + (IF Answered THEN Rest ELSE 0)
<1> DEFINE d == Minus(tick', tick)
           s == IF Sent THEN 0 ELSE silence
           n == IF Sent THEN 0 ELSE answered
           e == IF Answered THEN 1 ELSE 0
<1>1. d \in Nat /\ s \in Nat /\ n \in Nat /\ e \in {0, 1} /\ s <= silence
  BY MinusFacts DEF TypeOK, KeepaliveInv
<1>2. silence' = Longer(s + d) /\ answered' = n + e
  BY DEF KNext
<1>3. silence' \in Nat /\ silence' <= s + d
  <2> HIDE DEF s, d
  <2> QED BY <1>1, <1>2, KeepaliveAssumption DEF Longer
<1>4. answered' \in Nat
  <2> HIDE DEF n, e
  <2> QED BY <1>1, <1>2
<1>5. Sent => silence' <= d
  BY <1>3, <1>1
<1>6. silence' <= silence + d
  <2> HIDE DEF s, d
  <2> QED BY <1>1, <1>3 DEF KeepaliveInv
<1>7. ~Sent => answered' * Rest = answered * Rest + (IF Answered THEN Rest ELSE 0)
  <2> SUFFICES ASSUME ~Sent
      PROVE answered' * Rest = answered * Rest + (IF Answered THEN Rest ELSE 0)
    OBVIOUS
  <2>1. answered \in Nat /\ Rest \in Nat
    BY RestFacts DEF KeepaliveInv
  <2>2. CASE Answered
    BY <1>2, <2>1, <2>2, OneMore
  <2>3. CASE ~Answered
    BY <1>2, <2>1, <2>3, OneMore
  <2> QED BY <2>2, <2>3
<1> QED BY <1>3, <1>4, <1>5, <1>6, <1>7

(* A pump that leaves nothing had nothing, or has written the last of it.   *)
LEMMA PumpSends ==
  ASSUME TypeOK, NEW p \in mqtt_tx_pump(s_tx, sock), p.tx = NoTx
  PROVE  \/ s_tx = NoTx /\ p.rc # "drained"
         \/ p.rc = "drained" /\ ~sock.busy /\ p.sock.busy
<1>0. s_tx \in TxStates /\ sock \in Sockets
  BY DEF TypeOK
<1>1. CASE Untried(p, s_tx, sock) \/ Waits(p, s_tx, sock)
  BY <1>1 DEF Untried, Waits
<1>2. CASE Resumes(p, s_tx, sock) \/ Mistakes(p, s_tx, sock)
  BY <1>0, <1>2, FlushedWire DEF Resumes, Mistakes
<1>3. CASE Writes(p, s_tx, sock)
  <2>1. PICK k \in 1 .. PktLen - s_tx.sent : p = Written(s_tx, sock, k)
    BY <1>3 DEF Writes
  <2>2. p.rc = "drained" /\ p.sock = Pushed(s_tx, sock, k)
    BY <1>0, <1>3, <2>1, WrittenCases DEF Writes
  <2> QED BY <1>0, <1>3, <2>2, PushedWire DEF Writes
<1> QED BY <1>0, <1>1, <1>2, <1>3, PumpCases

(* A call that leaves nothing queued in CONNECTED. *)
LEMMA IdleSteps ==
  ASSUME TypeOK, ConnectedIdle, s_tx' = NoTx
  PROVE  \E p \in mqtt_tx_pump(s_tx, sock) :
           /\ p.tx = NoTx /\ Minus(tick, Activity(p)) <= KEEPALIVE_HALF
           /\ sock'.busy = p.sock.busy
           /\ \/ s_last_activity_ms' = Activity(p)
              \/ s_last_activity_ms' = tick /\ Answered
<1>1. PICK p, r :
        /\ Serving(p, r) /\ r.rc # "error" /\ Consume(p, r) /\ s_tx' = KeepAlive(p)
        /\ s_last_activity_ms' =
             IF r.rc = "packet" /\ r.pkt.type = "PINGRESP" THEN tick ELSE Activity(p)
  BY DEF ConnectedIdle
<1>2. p \in mqtt_tx_pump(s_tx, sock) /\ r \in MQTTPacket_readnb(s_rx_trp, p.sock)
  BY <1>1 DEF Serving
<1>3. p.tx = NoTx /\ Minus(tick, Activity(p)) <= KEEPALIVE_HALF
  <2>1. mqtt_send(PINGREQ) # NoTx
    BY NullAssumption DEF mqtt_send, NoTx, Requests
  <2>2. Minus(tick, Activity(p)) \in Nat
    BY ActivityType, MinusFacts DEF TypeOK
  <2> QED BY <1>1, <2>1, <2>2, RestFacts DEF KeepAlive
<1>4. /\ p.sock.sr = sock.sr /\ p.sock.in = sock.in
      /\ p.sock \in Sockets /\ s_rx_trp \in Transports
  BY <1>2, PumpWire, PumpType DEF TypeOK
<1>5. /\ r.sock.sr = sock.sr /\ r.sock.busy = p.sock.busy
      /\ r.rc = "packet" => sock.in # <<>> /\ r.pkt = Head(sock.in) /\ r.sock.in = Tail(sock.in)
  BY <1>1, <1>2, <1>4, ReadWire
<1>6. ASSUME r.rc = "packet", r.pkt.type = "PINGRESP" PROVE Answered
  <2>1. r.pkt \in Answers
    BY <1>2, <1>4, <1>6, ReadType
  <2>2. r.pkt = PINGRESP
    BY <1>6, <2>1 DEF Answers, CONNACK, SUBACK, PUBLISH, PINGRESP
  <2> QED BY <1>1, <1>5, <1>6, <2>2 DEF Consume, Answered
<1> QED BY <1>1, <1>2, <1>3, <1>5, <1>6 DEF Consume

LEMMA IdleKeepalive ==
  ASSUME TypeOK, TypeOK', KeepaliveInv, KNext, ConnectedIdle, s_tx' = NoTx
  PROVE  Age' <= KEEPALIVE_HALF + gap' /\ silence' <= Age' + answered' * Rest
<1>0. /\ s_state = "CONNECTED" /\ s_state' = "CONNECTED"
      /\ tick' = tick /\ gap' = 0 /\ tick \in Ticks /\ Minus(tick, tick) = 0
      /\ s_last_activity_ms \in Ticks /\ s_last_activity_ms' \in Ticks
  BY MinusFacts DEF ConnectedIdle, Serving, Task, Goto, TypeOK
<1>1. PICK p \in mqtt_tx_pump(s_tx, sock) :
        /\ p.tx = NoTx /\ Minus(tick, Activity(p)) <= KEEPALIVE_HALF
        /\ sock'.busy = p.sock.busy
        /\ \/ s_last_activity_ms' = Activity(p)
           \/ s_last_activity_ms' = tick /\ Answered
  BY IdleSteps
<1>2. Age' = Minus(tick, s_last_activity_ms') /\ Age' \in Nat
  BY <1>0, MinusFacts DEF Age
<1>3. Age' <= KEEPALIVE_HALF + gap'
  BY <1>0, <1>1, <1>2, RestFacts
<1>4. silence' \in Nat /\ answered' \in Nat /\ answered' * Rest \in Nat
  BY <1>0, KeepaliveCount, OneMore
<1>5. CASE Sent
  <2>1. silence' <= 0
    BY <1>0, <1>5, KeepaliveCount
  <2> DEFINE b == answered' * Rest
  <2>2. b \in Nat
    BY <1>4
  <2>3. silence' <= Age' + b
    <3> HIDE DEF b
    <3> QED BY <1>2, <1>4, <2>1, <2>2
  <2> QED BY <1>3, <2>3
<1>6. CASE ~Sent
  <2>1. s_tx = NoTx /\ Activity(p) = s_last_activity_ms
    BY <1>1, <1>6, PumpSends DEF Sent, Activity
  <2>2. /\ silence' <= silence
        /\ answered' * Rest = answered * Rest + (IF Answered THEN Rest ELSE 0)
    BY <1>0, <1>6, KeepaliveCount DEF KeepaliveInv
  <2>3. /\ silence <= Age + answered * Rest /\ Age \in Nat /\ Age <= KEEPALIVE_HALF
        /\ silence \in Nat /\ answered * Rest \in Nat
    BY <1>0, <1>1, <2>1, MinusFacts, OneMore DEF KeepaliveInv, Age
  <2> DEFINE a == answered * Rest
             b == answered' * Rest
             S == silence' <= Age' + b
  <2>4. a \in Nat /\ b \in Nat /\ silence <= Age + a /\ b = a + (IF Answered THEN Rest ELSE 0)
    BY <1>4, <2>2, <2>3
  <2> HIDE DEF a, b
  <2>5. ASSUME Age' = Age PROVE S
    BY <1>4, <2>2, <2>3, <2>4, <2>5, RestFacts
  <2>6. ASSUME Answered PROVE S
    BY <1>2, <1>4, <2>2, <2>3, <2>4, <2>6, RestFacts
  <2>7. S
    BY <1>1, <1>2, <2>1, <2>5, <2>6 DEF Age
  <2> QED BY <2>7, <1>3 DEF b
<1> QED BY <1>3, <1>5, <1>6

(* Only these steps leave a client CONNECTED with nothing queued. *)
LEMMA QueueEmpty ==
  ASSUME TypeOK, BackoffInv, [Next]_vars, s_state' = "CONNECTED", s_tx' = NoTx
  PROVE  \/ ConnectedIdle
         \/ WaitSuback
         \/ Elapse
         \/ UNCHANGED <<client, gap, tick>>
<1>1. CASE \/ TcpConnectingNoSession \/ TcpConnectingFailed \/ TlsHandshakeFailed
           \/ AnswerFailed \/ ConnectedLost
  BY <1>1, TornSteps
<1>2. CASE \/ TcpConnectingUp \/ TlsHandshakeStep \/ TlsHandshakeDone
           \/ SendConnect \/ SendSubscribe \/ TxFailed \/ ReconnectWait
  BY <1>2 DEF TcpConnectingUp, TlsHandshakeStep, TlsHandshakeDone, SendConnect,
     SendSubscribe, TxFailed, ReconnectWait, BackOff, Goto
<1>3. CASE SockOpen \/ TcpConnectingWait
  BY <1>3 DEF SockOpen, TcpConnectingWait, Goto
<1>4. CASE Disabled
  BY <1>4 DEF Disabled, client, BackoffInv
<1>5. CASE TxPending
  BY <1>5 DEF TxPending, Task
<1>6. CASE WaitAnswer \/ WaitConnack
  BY <1>6 DEF WaitAnswer, WaitConnack, Goto
<1>7. CASE ConnectedCommand
  <2>1. PICK p, r :
          /\ p \in mqtt_tx_pump(s_tx, sock)
          /\ r \in MQTTPacket_readnb(s_rx_trp, p.sock) /\ IsCommand(r)
          /\ s_tx' = mqtt_send(STATUS(Reply(r.pkt.payload, s_total_blinks)))
    BY <1>7 DEF ConnectedCommand, Serving
  <2>2. STATUS(Reply(r.pkt.payload, s_total_blinks)) \in Requests
    BY <2>1, PumpType, ReadType, PayloadType, StatusType DEF TypeOK
  <2> QED BY <2>1, <2>2, NullAssumption DEF mqtt_send, NoTx
<1>8. CASE Network \/ UNCHANGED vars
  BY <1>8 DEF Network, vars, Environment, TcpEstablish, TcpRefuse, PeerFin, PeerReset,
     PeerVanish, RetransmitTimeout, SendOk, BrokerTls, TlsFault, BrokerRecv, BrokerPublish
<1> QED BY <1>1, <1>2, <1>3, <1>4, <1>5, <1>6, <1>7, <1>8 DEF Next, MQTT_Client_Task

LEMMA ElapseKeepalive ==
  ASSUME TypeOK, TypeOK', KeepaliveInv, KNext, Elapse, s_state = "CONNECTED", s_tx = NoTx
  PROVE  Age' <= KEEPALIVE_HALF + gap' /\ silence' <= Age' + answered' * Rest
<1>1. /\ s_state' = s_state /\ s_last_activity_ms' = s_last_activity_ms /\ sock' = sock
      /\ gap \in Nat /\ gap < MaxGap /\ gap' = gap + 1 /\ tick' = Plus(tick, 1)
      /\ tick \in Ticks /\ tick' \in Ticks /\ s_last_activity_ms \in Ticks
  BY RestFacts DEF Elapse, client, TypeOK
<1>2. Age <= KEEPALIVE_HALF + gap /\ silence <= Age + answered * Rest
  BY DEF KeepaliveInv
<1>3. Age + 1 < TickMod
  BY <1>1, <1>2, MinusFacts, RestFacts DEF Age, Rest
<1>4. Age' = Age + 1 /\ Minus(tick', tick) = 1
  BY <1>1, <1>3, RestFacts DEF Age, Plus, Minus, Ticks
<1>5. ~Sent
  BY <1>1 DEF Sent, TypeOK, Sockets
<1>6. silence' <= silence + 1 /\ answered' * Rest >= answered * Rest
  BY <1>1, <1>4, <1>5, KeepaliveCount, OneMore, RestFacts DEF KeepaliveInv
<1>7. /\ Age \in Nat /\ silence \in Nat /\ silence' \in Nat
      /\ answered * Rest \in Nat /\ answered' * Rest \in Nat
  BY <1>1, MinusFacts, KeepaliveCount, OneMore DEF Age, KeepaliveInv
<1> DEFINE a == answered * Rest
           b == answered' * Rest
<1>8. a \in Nat /\ b \in Nat /\ b >= a /\ silence <= Age + a
  BY <1>2, <1>6, <1>7
<1>9. silence' <= Age' + b
  <2> HIDE DEF a, b
  <2> QED BY <1>4, <1>6, <1>7, <1>8
<1> QED BY <1>1, <1>2, <1>4, <1>7, <1>9, RestFacts

LEMMA KeepaliveStep ==
  ASSUME TypeOK, TypeOK', BackoffInv, KeepaliveInv, [KNext]_kvars PROVE KeepaliveInv'
<1>1. CASE UNCHANGED kvars
  BY <1>1 DEF kvars, vars, client, KeepaliveInv, Age
<1>2. CASE KNext
  <2>1. silence' \in Nat /\ answered' \in Nat
    BY <1>2, KeepaliveCount DEF KNext
  <2>2. SUFFICES ASSUME s_state' = "CONNECTED", s_tx' = NoTx
        PROVE  Age' <= KEEPALIVE_HALF + gap' /\ silence' <= Age' + answered' * Rest
    BY <2>1 DEF KeepaliveInv
  <2>3. CASE ConnectedIdle
    BY <1>2, <2>2, <2>3, IdleKeepalive
  <2>4. CASE WaitSuback
    <3>1. /\ s_state # "CONNECTED" /\ s_last_activity_ms' = tick /\ tick' = tick /\ gap' = 0
      BY <2>4 DEF WaitSuback, Awaits, Task
    <3>2. Age' = 0 /\ silence' = 0 /\ answered' = 0
      BY <1>2, <3>1, MinusFacts DEF KNext, Age, TypeOK
    <3> QED BY <3>1, <3>2, OneMore, RestFacts
  <2>5. CASE Elapse
    BY <1>2, <2>2, <2>5, ElapseKeepalive DEF Elapse, client
  <2>6. CASE UNCHANGED <<client, gap, tick>>
    <3>1. Age' = Age /\ gap' = gap /\ s_state = "CONNECTED" /\ s_tx = NoTx
      BY <2>2, <2>6 DEF client, Age
    <3>2. Age <= KEEPALIVE_HALF + gap /\ silence <= Age + answered * Rest /\ Age \in Nat
      BY <3>1, MinusFacts DEF KeepaliveInv, TypeOK, Age
    <3>3. Minus(tick', tick) = 0
      BY <2>6, MinusFacts DEF TypeOK
    <3>4. CASE Sent
      BY <1>2, <2>2, <3>1, <3>2, <3>3, <3>4, KeepaliveCount, OneMore
    <3>5. CASE ~Sent
      BY <1>2, <2>2, <3>1, <3>2, <3>3, <3>5, KeepaliveCount, OneMore, RestFacts
         DEF KeepaliveInv
    <3> QED BY <3>4, <3>5
  <2>7. BackoffInv /\ Next
    BY <1>2 DEF KNext
  <2> QED BY <2>2, <2>3, <2>4, <2>5, <2>6, <2>7, QueueEmpty
<1> QED BY <1>1, <1>2

LEMMA KeepaliveIsClient == KSpec => Spec
<1>1. KInit => Init
  BY DEF KInit
<1>2. [KNext]_kvars => [Next]_vars
  BY DEF KNext, kvars
<1> QED BY <1>1, <1>2, PTL DEF KSpec, Spec

(* With nothing queued, a CONNECTED client has been silent for at most a    *)
(* keepalive half and a poll interval, and as long again for each PINGRESP  *)
(* it read meanwhile: for every interval and wherever the clock stands.     *)
THEOREM SilenceIsBounded == KSpec => []SilenceBounded
<1>1. KInit => KeepaliveInv
  BY DEF KInit, Init, KeepaliveInv
<1>2. TypeOK /\ TypeOK' /\ BackoffInv /\ KeepaliveInv /\ [KNext]_kvars => KeepaliveInv'
  BY KeepaliveStep
<1>3. TypeOK /\ KeepaliveInv => SilenceBounded
  <2> SUFFICES ASSUME TypeOK, KeepaliveInv, s_state = "CONNECTED", s_tx = NoTx
      PROVE  silence <= (answered + 1) * Rest
    BY DEF SilenceBounded, Rest
  <2>1. Age \in Nat /\ Age <= KEEPALIVE_HALF + gap /\ silence <= Age + answered * Rest
    BY MinusFacts DEF KeepaliveInv, TypeOK, Age
  <2>2. Age <= Rest
    BY <2>1, RestFacts DEF Rest, TypeOK
  <2>3. /\ (answered + 1) * Rest = answered * Rest + Rest
        /\ answered * Rest \in Nat /\ silence \in Nat
    BY OneMore DEF KeepaliveInv
  <2> QED BY <2>1, <2>2, <2>3, RestFacts
<1> QED BY <1>1, <1>2, <1>3, KeepaliveIsClient, TypeCorrect, BackoffCorrect, PTL DEF KSpec
=============================================================================
