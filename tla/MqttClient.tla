----------------------------- MODULE MqttClient -----------------------------
(***************************************************************************)
(* mqtt_client.c: the MQTT-over-TLS client that the super-loop polls, with  *)
(* the wolfSSL session, the W5500 socket and the broker it talks to.        *)
(*                                                                         *)
(* MQTT_Client_Task() is one switch over s_state; each case of the switch   *)
(* is one or several actions here, each of them a whole call of the Task.   *)
(* The environment (W5500 chip, network, broker, clock) takes the other     *)
(* steps.  What it may do wrong is paid for from the bound MaxFaults.       *)
(*                                                                         *)
(* Time is HAL_GetTick(), in ticks modulo TickMod (2^32 ms in the code).    *)
(***************************************************************************)
EXTENDS Commands, Sequences, FiniteSets

CONSTANTS
  Sessions,              \* the WOLFSSL objects that fit in the heap
  NULL,                  \* the null pointer
  PktLen,                \* units in which a packet may cross the TLS layer
  TickMod,               \* modulus of HAL_GetTick()
  RECONNECT_BACKOFF_MS,  \* in ticks
  KEEPALIVE_HALF,        \* KEEPALIVE_SEC * 1000 / 2, in ticks
  MaxGap,                \* bound: ticks between two calls of the Task
  MaxIn,                 \* bound: packets on their way from the broker
  MaxOut,                \* bound: packets on their way to the broker
  MaxFaults,             \* bound: faults of the environment in a behaviour
  CmdPayloads,           \* the commands that others publish on stm32/cmd
  TooLong,               \* a payload that overflows s_rx_buf
  NotForUs               \* other topic, empty, or longer than MAX_PLAIN

ASSUME MqttAssumption ==
  /\ NULL \notin Sessions
  /\ PktLen \in Nat \ {0}
  /\ TickMod \in Nat \ {0}
  /\ RECONNECT_BACKOFF_MS \in Nat /\ KEEPALIVE_HALF \in Nat /\ MaxGap \in Nat
  /\ 2 * (RECONNECT_BACKOFF_MS + MaxGap + BLINK_MAX * BLINK_MS) < TickMod
  /\ KEEPALIVE_HALF + MaxGap < TickMod
  /\ MaxIn \in Nat /\ MaxOut \in Nat /\ MaxFaults \in Nat
  /\ CmdPayloads \subseteq Commands
  /\ TooLong \notin Commands /\ NotForUs \notin Commands

VARIABLES
  s_ctx,                 \* is the shared WOLFSSL_CTX there?
  s_state,               \* mqtt_state_t
  s_ssl,                 \* current session, or NULL
  s_tx,                  \* s_tx_buf, s_tx_len and s_tx_sent
  s_rx_trp,              \* Paho's reassembly state: mid-packet?, sck
  s_state_deadline_ms,
  s_last_activity_ms,
  s_total_blinks,
  led,                   \* the LED pin, shared with the other services
  heap,                  \* sessions allocated by wolfSSL_new()
  tls,                   \* progress of the TLS session on this connection
  sock,                  \* W5500 socket: status, buffers and what is on the wire
  broker,                \* what the broker knows of this connection
  tick,                  \* HAL_GetTick()
  gap,                   \* ticks since the Task was last called
  faults                 \* faults of the environment so far

client == <<s_ctx, s_state, s_ssl, s_tx, s_rx_trp, s_state_deadline_ms,
            s_last_activity_ms, s_total_blinks, led, heap>>
vars == <<client, tls, sock, broker, tick, gap, faults>>

-----------------------------------------------------------------------------
(* Packets, and the queue of at most one packet that s_tx_buf is.           *)

CONNECT   == [type |-> "CONNECT"]
SUBSCRIBE == [type |-> "SUBSCRIBE"]
PINGREQ   == [type |-> "PINGREQ"]
STATUS(r) == [type |-> "STATUS", reply |-> r]
GARBAGE   == [type |-> "GARBAGE"]
CONNACK(ok) == [type |-> "CONNACK", ok |-> ok]
SUBACK(ok)  == [type |-> "SUBACK", ok |-> ok]
PUBLISH(p)  == [type |-> "PUBLISH", payload |-> p]
PINGRESP    == [type |-> "PINGRESP"]

Requests == {CONNECT, SUBSCRIBE, PINGREQ} \cup [type : {"STATUS"}, reply : Replies]
Answers  == {CONNACK(ok) : ok \in BOOLEAN} \cup {SUBACK(ok) : ok \in BOOLEAN}
            \cup {PINGRESP}
            \cup {PUBLISH(p) : p \in CmdPayloads \cup {TooLong, NotForUs}}

ASSUME NullAssumption == NULL \notin Requests

(* s_tx_len = 0, and s_tx_buf as mqtt_send() leaves it. *)
NoTx == [pkt |-> NULL, sent |-> 0]

(* Mutants of mqtt_send: s_tx_sent is not reset; a packet that is still     *)
(* queued keeps the new one out.                                            *)
mqtt_send_KeepsSent(pkt) == [pkt |-> pkt, sent |-> s_tx.sent]
mqtt_send_IfDrained(pkt) == IF s_tx # NoTx THEN s_tx ELSE [pkt |-> pkt, sent |-> 0]

mqtt_send(pkt) == [pkt |-> pkt, sent |-> 0]
TxStates == {NoTx} \cup [pkt : Requests, sent : 0 .. PktLen - 1]

(* A zeroed MQTTTransport, and what SEND_CONNECT makes of it. *)
NoTrp == [mid |-> FALSE, sck |-> NULL]
Transports == [mid : BOOLEAN, sck : Sessions \cup {NULL}]

States == {"IDLE", "SOCK_OPEN", "TCP_CONNECTING", "TLS_HANDSHAKE",
           "SEND_CONNECT", "WAIT_CONNACK", "SEND_SUBSCRIBE", "WAIT_SUBACK",
           "CONNECTED", "RECONNECT_WAIT"}
Reading == {"WAIT_CONNACK", "WAIT_SUBACK", "CONNECTED"}
Secured == Reading \cup {"TLS_HANDSHAKE", "SEND_CONNECT", "SEND_SUBSCRIBE"}

(* Clock arithmetic modulo TickMod, for distances below TickMod. *)
Plus(t, d) == IF t + d >= TickMod THEN t + d - TickMod ELSE t + d
Minus(t, u) == IF t >= u THEN t - u ELSE t - u + TickMod

-----------------------------------------------------------------------------
(* The W5500 socket and the session over it.  `busy' is a SEND the chip has *)
(* not confirmed yet (no SENDOK), `frame' the units on the wire of a packet *)
(* not complete there, `half' whether the client already took a part of the *)
(* first packet of in.  `held' is what wolfSSL has encrypted and could not  *)
(* hand over; `tail': only the end of it, for the session believes that its *)
(* beginning went out with the packet held before.                          *)

Closed == [sr |-> "CLOSED", busy |-> FALSE, in |-> <<>>, out |-> <<>>,
           frame |-> 0, half |-> FALSE, held |-> NoTx, tail |-> FALSE]
Opened == [Closed EXCEPT !.sr = "INIT"]
Sockets == [sr : {"CLOSED", "INIT", "SYNSENT", "ESTABLISHED", "CLOSE_WAIT"},
            busy : BOOLEAN, in : Seq(Answers), out : Seq(Requests \cup {GARBAGE}),
            frame : 0 .. PktLen - 1, half : BOOLEAN, held : TxStates, tail : BOOLEAN]

CanSend(sk) == tls # "broken" /\ sk.sr \in {"ESTABLISHED", "CLOSE_WAIT"}

(* Mutant of Drained: only an orderly close counts as an error. *)
Drained_FinOnly(sk) == sk.sr = "CLOSE_WAIT" /\ sk.in = <<>> /\ ~sk.busy

(* recv() finds nothing and never will: closed, or closed by the peer with  *)
(* everything of ours acknowledged.                                         *)
Drained(sk) ==
  \/ sk.sr \notin {"ESTABLISHED", "CLOSE_WAIT"}
  \/ sk.sr = "CLOSE_WAIT" /\ sk.in = <<>> /\ ~sk.busy

Outcome(rc, tx, sk) == [rc |-> rc, tx |-> tx, sock |-> sk]

(* k units of tx go out: they continue the packet on the wire when tx is    *)
(* still the packet it began with, and spoil it otherwise.  Once misplaced, *)
(* the units of every later packet are misplaced as well.                   *)
Pushed(tx, sk, k) ==
  LET units == sk.frame + k
      sent  == IF sk.frame = tx.sent THEN tx.pkt ELSE GARBAGE
  IN  [sk EXCEPT !.busy = TRUE,
                 !.frame = IF units < PktLen THEN units ELSE units - PktLen,
                 !.out = IF units < PktLen THEN @ ELSE Append(@, sent)]

(* Mutant of Written: s_tx_sent > s_tx_len instead of >=. *)
Written_OffByOne(tx, sk, k) ==
  Outcome("partial", [tx EXCEPT !.sent = @ + k], Pushed(tx, sk, k))

(* wolfSSL_write() took k units. *)
Written(tx, sk, k) ==
  IF tx.sent + k = PktLen
  THEN Outcome("drained", NoTx, Pushed(tx, sk, k))
  ELSE Outcome("partial", [tx EXCEPT !.sent = @ + k], Pushed(tx, sk, k))

(* WANT_WRITE: the record is encrypted all the same, and kept. *)
Withheld(tx, sk) == IF sk.held = NoTx THEN [sk EXCEPT !.held = tx] ELSE sk

(* The record that was kept goes out, whatever s_tx_buf holds by now. *)
Flushed(sk) ==
  LET rest == [sk EXCEPT !.held = NoTx, !.tail = FALSE]
  IN  IF sk.tail
      THEN [rest EXCEPT !.busy = TRUE, !.out = Append(@, GARBAGE)]
      ELSE Pushed(sk.held, rest, PktLen - sk.held.sent)

(* wolfSSL_write() after WANT_WRITE takes tx for the packet it kept, and    *)
(* that as many bytes of tx are out.  The end of a longer packet becomes a  *)
(* record of its own, for which there is no room yet; one of equal length   *)
(* is taken to be sent; a shorter one is BAD_FUNC_ARG.  No packet that the  *)
(* client writes over another is as short as a PINGREQ.                     *)
Resumed(tx, sk) ==
  IF sk.held = tx
  THEN {Outcome("drained", NoTx, Flushed(sk))}
  ELSE {Outcome("want", tx, [Flushed(sk) EXCEPT !.held = tx, !.tail = TRUE])}
       \cup (IF sk.held.pkt = PINGREQ THEN {}
             ELSE {Outcome("drained", NoTx, Flushed(sk)), Outcome("error", tx, Flushed(sk))})

(* mqtt_tx_pump(): the outcomes of one call. *)
mqtt_tx_pump(tx, sk) ==
  IF tx = NoTx \/ s_ssl = NULL
  THEN {Outcome("idle", tx, sk)}
  ELSE IF ~CanSend(sk)
  THEN {Outcome("error", tx, sk)}
  ELSE IF sk.busy
  THEN {Outcome("want", tx, Withheld(tx, sk))}
  ELSE IF sk.held # NoTx
  THEN Resumed(tx, sk)
  ELSE {Written(tx, sk, k) : k \in 1 .. PktLen - tx.sent}

(* MQTTPacket_readnb() over mqtt_getfn(): the outcomes of one call.  Reading *)
(* on with a parser that is not where the stream is yields an error.        *)
ReadError(trp, sk) == [rc |-> "error", trp |-> trp, pkt |-> NULL, sock |-> sk]
Nothing(trp, sk)   == [rc |-> "none", trp |-> trp, pkt |-> NULL, sock |-> sk]
Packet(trp, sk) ==
  [rc |-> "packet", trp |-> [trp EXCEPT !.mid = FALSE], pkt |-> Head(sk.in),
   sock |-> [sk EXCEPT !.in = Tail(@), !.half = FALSE]]
HalfPacket(trp, sk) ==
  Nothing([trp EXCEPT !.mid = TRUE], [sk EXCEPT !.half = TRUE])

TooLongFor(pkt) == pkt.type = "PUBLISH" /\ pkt.payload = TooLong

MQTTPacket_readnb(trp, sk) ==
  IF tls = "broken" \/ Drained(sk)
  THEN {ReadError(trp, IF tls = "broken" THEN sk ELSE Closed)}
  ELSE IF sk.in = <<>>
  THEN {Nothing(trp, sk)}
  ELSE IF trp.mid # sk.half \/ TooLongFor(Head(sk.in))
  THEN {ReadError(trp, sk)}
  ELSE {Packet(trp, sk)}
       \cup (IF PktLen > 1 /\ ~sk.half THEN {HalfPacket(trp, sk)} ELSE {})

-----------------------------------------------------------------------------
(* MQTT_Client_Init(): with no TLS context the client stays disabled.       *)

Init ==
  /\ s_ctx \in BOOLEAN
  /\ s_state = IF s_ctx THEN "SOCK_OPEN" ELSE "IDLE"
  /\ s_ssl = NULL /\ heap = {} /\ tls = "idle"
  /\ s_tx = NoTx /\ s_rx_trp = NoTrp
  /\ s_state_deadline_ms = 0 /\ s_last_activity_ms = 0
  /\ s_total_blinks = 0 /\ led = FALSE
  /\ sock = Closed /\ broker = [peer |-> "up", stage |-> "fresh"]
  /\ tick \in 0 .. TickMod - 1 /\ gap = 0 /\ faults = 0

-----------------------------------------------------------------------------
(* MQTT_Client_Task().  Every action below is one whole call.               *)

Task(state) ==
  /\ s_ctx /\ s_state = state
  /\ gap' = 0
  /\ UNCHANGED <<s_ctx, broker>>

(* A fault of the environment, as often as MaxFaults allows. *)
Fault == faults < MaxFaults /\ faults' = faults + 1

Goto(state) == s_state' = state /\ UNCHANGED s_state_deadline_ms

BackOff ==
  /\ s_state' = "RECONNECT_WAIT"
  /\ s_state_deadline_ms' = Plus(tick, RECONNECT_BACKOFF_MS)

teardown_connection ==
  /\ heap' = heap \ {s_ssl} /\ s_ssl' = NULL /\ tls' = "idle"
  /\ sock' = Closed
  /\ s_tx' = NoTx /\ s_rx_trp' = NoTrp

go_reconnect == teardown_connection /\ BackOff

(* s_ctx == NULL: the Task returns at once. *)
Disabled ==
  /\ ~s_ctx
  /\ gap' = 0
  /\ UNCHANGED <<client, tls, sock, broker, tick, faults>>

(* socket() closes the socket and opens it anew; it fails when the chip has *)
(* lost its address, which is a fault of the environment.                   *)
SockOpen ==
  /\ Task("SOCK_OPEN")
  /\ \/ sock' = Opened /\ Goto("TCP_CONNECTING") /\ UNCHANGED faults
     \/ sock' = Closed /\ Goto("SOCK_OPEN") /\ Fault
  /\ UNCHANGED <<s_ssl, heap, tls, s_tx, s_rx_trp, s_last_activity_ms,
                 s_total_blinks, led, tick>>

(* SOCK_INIT: connect() is started; what it returns is not looked at.       *)
(* Any status the chain of ifs does not name changes nothing.               *)
TcpConnectingWait ==
  /\ Task("TCP_CONNECTING")
  /\ sock.sr \notin {"ESTABLISHED", "CLOSED"}
  /\ sock' = [sock EXCEPT !.sr = IF @ = "INIT" THEN "SYNSENT" ELSE @]
  /\ Goto("TCP_CONNECTING")
  /\ UNCHANGED <<s_ssl, heap, tls, s_tx, s_rx_trp, s_last_activity_ms,
                 s_total_blinks, led, tick, faults>>

(* SOCK_ESTABLISHED: MQTT_TLS_NewSession() overwrites s_ssl. *)
TcpConnectingUp ==
  /\ Task("TCP_CONNECTING")
  /\ sock.sr = "ESTABLISHED"
  /\ \E s \in Sessions \ heap : s_ssl' = s /\ heap' = heap \cup {s}
  /\ tls' = "idle"
  /\ Goto("TLS_HANDSHAKE")
  /\ UNCHANGED <<sock, s_tx, s_rx_trp, s_last_activity_ms, s_total_blinks,
                 led, tick, faults>>

(* SOCK_ESTABLISHED, but wolfSSL_new() fails: no heap left, or no entropy.  *)
(* s_ssl is NULL when it is torn down, so that a session it pointed to      *)
(* before is not freed.                                                     *)
TcpConnectingNoSession ==
  /\ Task("TCP_CONNECTING")
  /\ sock.sr = "ESTABLISHED"
  /\ \/ Sessions \subseteq heap /\ UNCHANGED faults
     \/ Fault
  /\ s_ssl' = NULL /\ UNCHANGED heap
  /\ tls' = "idle" /\ sock' = Closed /\ s_tx' = NoTx /\ s_rx_trp' = NoTrp
  /\ BackOff
  /\ UNCHANGED <<s_last_activity_ms, s_total_blinks, led, tick>>

TcpConnectingFailed ==
  /\ Task("TCP_CONNECTING")
  /\ sock.sr = "CLOSED"
  /\ go_reconnect
  /\ UNCHANGED <<s_last_activity_ms, s_total_blinks, led, tick, faults>>

(* wolfSSL_connect() sends the client's hello, then waits for the broker.   *)
TlsHandshakeStep ==
  /\ Task("TLS_HANDSHAKE")
  /\ \/ /\ tls = "idle" /\ CanSend(sock) /\ ~sock.busy
        /\ tls' = "hello" /\ sock' = [sock EXCEPT !.busy = TRUE]
     \/ /\ tls = "hello" /\ ~Drained(sock)
        /\ UNCHANGED <<tls, sock>>
  /\ Goto("TLS_HANDSHAKE")
  /\ UNCHANGED <<s_ssl, heap, s_tx, s_rx_trp, s_last_activity_ms,
                 s_total_blinks, led, tick, faults>>

TlsHandshakeDone ==
  /\ Task("TLS_HANDSHAKE")
  /\ tls = "ready" /\ CanSend(sock)
  /\ tls' = "done"
  /\ Goto("SEND_CONNECT")
  /\ UNCHANGED <<s_ssl, heap, sock, s_tx, s_rx_trp, s_last_activity_ms,
                 s_total_blinks, led, tick, faults>>

TlsHandshakeFailed ==
  /\ Task("TLS_HANDSHAKE")
  /\ \/ tls = "broken" \/ ~CanSend(sock)
     \/ tls = "hello" /\ Drained(sock)
  /\ go_reconnect
  /\ UNCHANGED <<s_last_activity_ms, s_total_blinks, led, tick, faults>>

(* Mutants of SendConnect: without the memset(); with sck only set once. *)
SendConnect_Sck(trp) ==
  /\ Task("SEND_CONNECT")
  /\ s_tx' = mqtt_send(CONNECT)
  /\ s_rx_trp' = trp
  /\ Goto("WAIT_CONNACK")
  /\ UNCHANGED <<s_ssl, heap, tls, sock, s_last_activity_ms, s_total_blinks,
                 led, tick, faults>>
SendConnect_NoMemset == SendConnect_Sck([s_rx_trp EXCEPT !.sck = s_ssl])
SendConnect_SckOnce ==
  SendConnect_Sck([NoTrp EXCEPT !.sck = IF s_rx_trp.sck = NULL THEN s_ssl ELSE s_rx_trp.sck])

(* The packets are constant and fit in s_tx_buf: building them cannot fail. *)
SendConnect ==
  /\ Task("SEND_CONNECT")
  /\ s_tx' = mqtt_send(CONNECT)
  /\ s_rx_trp' = [NoTrp EXCEPT !.sck = s_ssl]
  /\ Goto("WAIT_CONNACK")
  /\ UNCHANGED <<s_ssl, heap, tls, sock, s_last_activity_ms, s_total_blinks,
                 led, tick, faults>>

SendSubscribe ==
  /\ Task("SEND_SUBSCRIBE")
  /\ s_tx' = mqtt_send(SUBSCRIBE)
  /\ Goto("WAIT_SUBACK")
  /\ UNCHANGED <<s_ssl, heap, tls, sock, s_rx_trp, s_last_activity_ms,
                 s_total_blinks, led, tick, faults>>

(* mqtt_tx_pump() on a dead connection: it changes s_state itself, without  *)
(* teardown_connection(), and the Task breaks off.                          *)
TxFailed ==
  /\ \E state \in Reading : Task(state)
  /\ \E p \in mqtt_tx_pump(s_tx, sock) : p.rc = "error" /\ sock' = p.sock
  /\ BackOff
  /\ UNCHANGED <<s_ssl, heap, tls, s_tx, s_rx_trp, s_last_activity_ms,
                 s_total_blinks, led, tick, faults>>

(* WAIT_CONNACK and WAIT_SUBACK read nothing until their packet is out. *)
TxPending ==
  /\ \E state \in {"WAIT_CONNACK", "WAIT_SUBACK"} : Task(state)
  /\ \E p \in mqtt_tx_pump(s_tx, sock) :
       /\ p.rc # "error" /\ p.tx # NoTx
       /\ s_tx' = p.tx /\ sock' = p.sock
  /\ UNCHANGED <<s_state, s_state_deadline_ms, s_ssl, heap, tls, s_rx_trp,
                 s_last_activity_ms, s_total_blinks, led, tick, faults>>

(* Mutant of Activity: refreshed by every call of the pump. *)
Activity_Always(p) == tick

(* s_last_activity_ms once the pump is through. *)
Activity(p) == IF p.rc = "drained" THEN tick ELSE s_last_activity_ms

(* The reading part of a WAIT state: pump outcome p, then readnb outcome r. *)
Awaits(state, p, r) ==
  /\ Task(state)
  /\ p \in mqtt_tx_pump(s_tx, sock)
  /\ p.rc # "error" /\ p.tx = NoTx
  /\ r \in MQTTPacket_readnb(s_rx_trp, p.sock)
  /\ UNCHANGED <<s_total_blinks, led, tick, faults>>

(* The connection stays and r is consumed. *)
Consume(p, r) == sock' = r.sock /\ s_rx_trp' = r.trp /\ UNCHANGED <<s_ssl, heap, tls>>

Refused(state, r) ==
  \/ r.rc = "error"
  \/ state = "WAIT_CONNACK" /\ r.rc = "packet" /\ r.pkt = CONNACK(FALSE)

Awaited(state) == IF state = "WAIT_CONNACK" THEN "CONNACK" ELSE "SUBACK"

(* Nothing yet, or a packet of another type, which is dropped. *)
WaitAnswer ==
  \E state \in {"WAIT_CONNACK", "WAIT_SUBACK"} :
  \E p \in mqtt_tx_pump(s_tx, sock) :
  \E r \in MQTTPacket_readnb(s_rx_trp, p.sock) :
    /\ Awaits(state, p, r)
    /\ \/ r.rc = "none"
       \/ r.rc = "packet" /\ r.pkt.type # Awaited(state)
    /\ Consume(p, r) /\ s_tx' = NoTx
    /\ s_last_activity_ms' = Activity(p)
    /\ Goto(state)

(* A read error, or CONNACK with a return code other than 0. *)
AnswerFailed ==
  \E state \in {"WAIT_CONNACK", "WAIT_SUBACK"} :
  \E p \in mqtt_tx_pump(s_tx, sock) :
  \E r \in MQTTPacket_readnb(s_rx_trp, p.sock) :
    /\ Awaits(state, p, r)
    /\ Refused(state, r)
    /\ go_reconnect
    /\ s_last_activity_ms' = Activity(p)

(* Mutant of WaitConnack: an old session is taken to be still subscribed. *)
WaitConnack_Skips ==
  \E p \in mqtt_tx_pump(s_tx, sock) :
  \E r \in MQTTPacket_readnb(s_rx_trp, p.sock) :
    /\ Awaits("WAIT_CONNACK", p, r)
    /\ r.rc = "packet" /\ r.pkt = CONNACK(TRUE)
    /\ Consume(p, r) /\ s_tx' = NoTx
    /\ s_last_activity_ms' = tick
    /\ Goto("CONNECTED")

WaitConnack ==
  \E p \in mqtt_tx_pump(s_tx, sock) :
  \E r \in MQTTPacket_readnb(s_rx_trp, p.sock) :
    /\ Awaits("WAIT_CONNACK", p, r)
    /\ r.rc = "packet" /\ r.pkt = CONNACK(TRUE)
    /\ Consume(p, r) /\ s_tx' = NoTx
    /\ s_last_activity_ms' = Activity(p)
    /\ Goto("SEND_SUBSCRIBE")

(* SUBACK is parsed, but the granted QoS (0x80: refused) is only printed. *)
WaitSuback ==
  \E p \in mqtt_tx_pump(s_tx, sock) :
  \E r \in MQTTPacket_readnb(s_rx_trp, p.sock) :
    /\ Awaits("WAIT_SUBACK", p, r)
    /\ r.rc = "packet" /\ r.pkt.type = "SUBACK"
    /\ Consume(p, r) /\ s_tx' = NoTx
    /\ s_last_activity_ms' = tick
    /\ Goto("CONNECTED")

(* Mutant of KeepAlive: the whole interval instead of its half. *)
KeepAlive_Whole(p) ==
  IF p.tx = NoTx /\ Minus(tick, Activity(p)) > 2 * KEEPALIVE_HALF
  THEN mqtt_send(PINGREQ) ELSE p.tx

(* CONNECTED: pump, then queue a PINGREQ when nothing is in flight and the  *)
(* last activity is too long ago, then read whatever the pump left.         *)
KeepAlive(p) ==
  IF p.tx = NoTx /\ Minus(tick, Activity(p)) > KEEPALIVE_HALF
  THEN mqtt_send(PINGREQ) ELSE p.tx

Serving(p, r) ==
  /\ Task("CONNECTED")
  /\ p \in mqtt_tx_pump(s_tx, sock) /\ p.rc # "error"
  /\ r \in MQTTPacket_readnb(s_rx_trp, p.sock)
  /\ UNCHANGED faults

(* A PUBLISH on stm32/cmd of 1 .. MAX_PLAIN bytes. *)
IsCommand(r) ==
  /\ r.rc = "packet" /\ r.pkt.type = "PUBLISH"
  /\ r.pkt.payload \notin {TooLong, NotForUs}

(* Nothing arrived, a PINGRESP, or a packet that is not for us. *)
ConnectedIdle ==
  \E p \in mqtt_tx_pump(s_tx, sock) :
  \E r \in MQTTPacket_readnb(s_rx_trp, p.sock) :
    /\ Serving(p, r)
    /\ r.rc # "error" /\ ~IsCommand(r)
    /\ Consume(p, r)
    /\ s_tx' = KeepAlive(p)
    /\ s_last_activity_ms' =
         IF r.rc = "packet" /\ r.pkt.type = "PINGRESP" THEN tick ELSE Activity(p)
    /\ Goto("CONNECTED")
    /\ UNCHANGED <<s_total_blinks, led, tick>>

(* handle_incoming_publish(): the command is executed, while the clock runs *)
(* on, and publish_status() queues the reply over whatever is in s_tx_buf.  *)
(* do_blink() turns the LED on and off within this one step, and has it off *)
(* in the end; module Board tells these moments apart.                      *)
ConnectedCommand ==
  \E p \in mqtt_tx_pump(s_tx, sock) :
  \E r \in MQTTPacket_readnb(s_rx_trp, p.sock) :
    /\ Serving(p, r)
    /\ IsCommand(r)
    /\ LET cmd == r.pkt.payload
       IN  /\ s_tx' = mqtt_send(STATUS(Reply(cmd, s_total_blinks)))
           /\ s_total_blinks' = TotalAfter(cmd, s_total_blinks)
           /\ tick' = Plus(tick, BLINK_MS * Blinked(cmd))
           /\ led' = (led /\ Blinked(cmd) = 0)
    /\ Consume(p, r)
    /\ s_last_activity_ms' = Activity(p)
    /\ Goto("CONNECTED")

ConnectedLost ==
  \E p \in mqtt_tx_pump(s_tx, sock) :
  \E r \in MQTTPacket_readnb(s_rx_trp, p.sock) :
    /\ Serving(p, r)
    /\ r.rc = "error"
    /\ go_reconnect
    /\ s_last_activity_ms' = Activity(p)
    /\ UNCHANGED <<s_total_blinks, led, tick>>

(* Mutant of Reached: the ticks are compared, not their difference. *)
Reached_Unsigned(deadline) == tick >= deadline

(* (int32_t)(HAL_GetTick() - s_state_deadline_ms) >= 0 *)
Reached(deadline) == 2 * Minus(tick, deadline) < TickMod

ReconnectWait ==
  /\ Task("RECONNECT_WAIT")
  /\ Goto(IF Reached(s_state_deadline_ms) THEN "SOCK_OPEN" ELSE "RECONNECT_WAIT")
  /\ UNCHANGED <<s_ssl, heap, tls, sock, s_tx, s_rx_trp, s_last_activity_ms,
                 s_total_blinks, led, tick, faults>>

MQTT_Client_Task ==
  \/ Disabled \/ SockOpen
  \/ TcpConnectingWait \/ TcpConnectingUp \/ TcpConnectingNoSession \/ TcpConnectingFailed
  \/ TlsHandshakeStep \/ TlsHandshakeDone \/ TlsHandshakeFailed
  \/ SendConnect \/ SendSubscribe
  \/ TxFailed \/ TxPending
  \/ WaitAnswer \/ AnswerFailed \/ WaitConnack \/ WaitSuback
  \/ ConnectedIdle \/ ConnectedCommand \/ ConnectedLost
  \/ ReconnectWait

-----------------------------------------------------------------------------
(* The environment.                                                         *)

Environment == UNCHANGED <<client, gap, tick>>

Linked == broker.peer = "up" /\ sock.sr = "ESTABLISHED"

(* Three-way handshake: a new connection, of which the broker knows nothing. *)
TcpEstablish ==
  /\ Environment
  /\ sock.sr = "SYNSENT" /\ sock' = [sock EXCEPT !.sr = "ESTABLISHED"]
  /\ broker' = [peer |-> "up", stage |-> "fresh"]
  /\ UNCHANGED <<tls, faults>>

(* Connection refused, or no answer to the SYN in time. *)
TcpRefuse ==
  /\ Environment /\ Fault
  /\ sock.sr = "SYNSENT" /\ sock' = Closed
  /\ UNCHANGED <<tls, broker>>

(* The broker closes the connection; what it sent before stays readable. *)
PeerFin ==
  /\ Environment /\ Fault
  /\ Linked /\ sock' = [sock EXCEPT !.sr = "CLOSE_WAIT"]
  /\ UNCHANGED <<tls, broker>>

(* A RST, or a reset of the W5500 itself: the socket's buffers are gone. *)
PeerReset ==
  /\ Environment /\ Fault
  /\ sock.sr \in {"ESTABLISHED", "CLOSE_WAIT"} /\ sock' = Closed
  /\ UNCHANGED <<tls, broker>>

(* The broker's host disappears without a word. *)
PeerVanish ==
  /\ Environment /\ Fault
  /\ Linked /\ broker' = [broker EXCEPT !.peer = "gone"]
  /\ UNCHANGED <<tls, sock>>

(* Nobody acknowledges what was sent: the W5500 gives up and closes. *)
RetransmitTimeout ==
  /\ Environment
  /\ broker.peer = "gone" /\ sock.busy /\ sock' = Closed
  /\ UNCHANGED <<tls, broker, faults>>

(* SENDOK.  A broker that has closed acknowledges, and reads no more. *)
SendOk ==
  /\ Environment
  /\ broker.peer = "up" /\ sock.busy
  /\ \/ /\ sock.sr = "ESTABLISHED" /\ Len(sock.out) <= MaxOut
        /\ sock' = [sock EXCEPT !.busy = FALSE]
     \/ /\ sock.sr = "CLOSE_WAIT"
        /\ sock' = [sock EXCEPT !.busy = FALSE, !.out = <<>>]
  /\ UNCHANGED <<tls, broker, faults>>

(* The broker's half of the TLS handshake. *)
BrokerTls ==
  /\ Environment
  /\ Linked /\ tls = "hello" /\ tls' = "ready"
  /\ UNCHANGED <<sock, broker, faults>>

(* An alert, a certificate that does not verify, a record that fails. *)
TlsFault ==
  /\ Environment /\ Fault
  /\ sock.sr = "ESTABLISHED" /\ tls \in {"hello", "ready", "done"}
  /\ tls' = "broken"
  /\ UNCHANGED <<sock, broker>>

(* The broker takes its next packet, answers with `answers' and moves on.   *)
Answer(answers, stage) ==
  /\ Len(sock.in) + Len(answers) <= MaxIn
  /\ sock' = [sock EXCEPT !.out = Tail(@), !.in = @ \o answers]
  /\ broker' = [broker EXCEPT !.stage = stage]

(* ... and closes the connection. *)
HangUp(answers, stage) ==
  /\ sock' = [sock EXCEPT !.out = <<>>, !.in = @ \o answers, !.sr = "CLOSE_WAIT"]
  /\ broker' = [broker EXCEPT !.stage = stage]

InSession == {"joined", "granted", "denied"}

BrokerJoin ==
  /\ Head(sock.out) = CONNECT /\ broker.stage = "fresh"
  /\ \/ Answer(<<CONNACK(TRUE)>>, "joined") /\ UNCHANGED faults
     \/ HangUp(<<CONNACK(FALSE)>>, "refused") /\ Fault

(* MQTT lets the broker publish before it acknowledges the subscription. *)
BrokerSubscribe ==
  /\ Head(sock.out) = SUBSCRIBE /\ broker.stage = "joined"
  /\ \/ Answer(<<SUBACK(TRUE)>>, "granted") /\ UNCHANGED faults
     \/ /\ \E c \in CmdPayloads : Answer(<<PUBLISH(c), SUBACK(TRUE)>>, "granted")
        /\ UNCHANGED faults
     \/ Answer(<<SUBACK(FALSE)>>, "denied") /\ Fault

BrokerPing ==
  /\ Head(sock.out) = PINGREQ /\ broker.stage \in InSession
  /\ Answer(<<PINGRESP>>, broker.stage)
  /\ UNCHANGED faults

BrokerStatus ==
  /\ Head(sock.out).type = "STATUS" /\ broker.stage \in InSession
  /\ Answer(<<>>, broker.stage)
  /\ UNCHANGED faults

(* Any other packet at any other point is a protocol error. *)
Expected(pkt, stage) ==
  \/ pkt = CONNECT /\ stage = "fresh"
  \/ pkt = SUBSCRIBE /\ stage = "joined"
  \/ (pkt = PINGREQ \/ pkt.type = "STATUS") /\ stage \in InSession

BrokerError ==
  /\ ~Expected(Head(sock.out), broker.stage)
  /\ HangUp(<<>>, "error")
  /\ UNCHANGED faults

BrokerRecv ==
  /\ Environment
  /\ Linked /\ sock.out # <<>>
  /\ BrokerJoin \/ BrokerSubscribe \/ BrokerPing \/ BrokerStatus \/ BrokerError
  /\ UNCHANGED tls

(* Somebody publishes on stm32/cmd.  A packet longer than s_rx_buf is a     *)
(* fault: the client can but drop the connection over it.                   *)
BrokerPublish ==
  /\ Environment
  /\ Linked /\ broker.stage = "granted" /\ Len(sock.in) < MaxIn
  /\ \E p \in CmdPayloads \cup {TooLong, NotForUs} :
       /\ sock' = [sock EXCEPT !.in = Append(@, PUBLISH(p))]
       /\ IF p = TooLong THEN Fault ELSE UNCHANGED faults
  /\ UNCHANGED <<tls, broker>>

(* SysTick_Handler(): HAL_IncTick().  The super-loop polls every MaxGap. *)
Elapse ==
  /\ gap < MaxGap /\ gap' = gap + 1
  /\ tick' = Plus(tick, 1)
  /\ UNCHANGED <<client, tls, sock, broker, faults>>

Network ==
  \/ TcpEstablish \/ TcpRefuse \/ PeerFin \/ PeerReset \/ PeerVanish
  \/ RetransmitTimeout \/ SendOk \/ BrokerTls \/ TlsFault
  \/ BrokerRecv \/ BrokerPublish

Next == MQTT_Client_Task \/ Network \/ Elapse

Spec == Init /\ [][Next]_vars

(* The super-loop keeps polling, the clock keeps running, and what TCP and  *)
(* the broker owe to a client they can reach does arrive.                   *)
Fairness ==
  /\ WF_vars(MQTT_Client_Task) /\ WF_vars(Elapse)
  /\ WF_vars(TcpEstablish) /\ WF_vars(RetransmitTimeout) /\ WF_vars(SendOk)
  /\ WF_vars(BrokerTls) /\ WF_vars(BrokerRecv)

FairSpec == Spec /\ Fairness

-----------------------------------------------------------------------------
(* Properties.                                                              *)

Ticks == 0 .. TickMod - 1
Stages == {"fresh", "refused", "joined", "granted", "denied", "error"}

(* The types of the variables. *)
TypeOK ==
  /\ s_ctx \in BOOLEAN /\ led \in BOOLEAN
  /\ s_state \in States
  /\ s_ssl \in Sessions \cup {NULL}
  /\ heap \subseteq Sessions
  /\ s_tx \in TxStates /\ s_rx_trp \in Transports
  /\ s_state_deadline_ms \in Ticks /\ s_last_activity_ms \in Ticks
  /\ s_total_blinks \in Ulongs
  /\ tls \in {"idle", "hello", "ready", "done", "broken"}
  /\ sock \in Sockets
  /\ broker \in [peer : {"up", "gone"}, stage : Stages]
  /\ tick \in Ticks /\ gap \in 0 .. MaxGap /\ faults \in 0 .. MaxFaults

(* wolfSSL is never handed a session that is NULL or already freed, and     *)
(* MQTTPacket_readnb() reads from the session of this very connection,      *)
(* although s_ssl is overwritten, leaked or freed on half a dozen paths.    *)
SessionSafety ==
  /\ s_state \in Secured => s_ssl \in heap
  /\ s_state \in Reading => s_rx_trp.sck = s_ssl

(* While the socket holds data, the parser stands where the stream stands,  *)
(* also on a connection that follows one given up in the middle of a packet *)
(* without teardown_connection().                                           *)
StreamInSync ==
  s_state \in Reading /\ sock.sr \in {"ESTABLISHED", "CLOSE_WAIT"}
    => s_rx_trp.mid = sock.half

(* s_tx_sent is what the wire already has of the packet, and what wolfSSL   *)
(* keeps is that packet and no other.                                       *)
InStep(tx, sk) == sk.frame = tx.sent /\ sk.held \in {NoTx, tx} /\ ~sk.tail

(* CONNECT and SUBSCRIBE are written whole and unspoilt, also after a       *)
(* connection that was given up with a packet half sent or withheld.        *)
HandshakeFramed ==
  s_state \in {"WAIT_CONNACK", "WAIT_SUBACK"}
    /\ sock.sr \in {"ESTABLISHED", "CLOSE_WAIT"}
    => InStep(s_tx, sock)

(* The broker is never brought a packet where the protocol has no place for *)
(* it, on whatever connection, unless a reply was written over half of      *)
(* another packet: and that the client does only once it is CONNECTED.      *)
ProtocolOrder ==
  Linked /\ sock.out # <<>> =>
    \/ Expected(Head(sock.out), broker.stage)
    \/ Head(sock.out) = GARBAGE /\ s_state \in {"CONNECTED", "RECONNECT_WAIT", "SOCK_OPEN"}

(* The client is CONNECTED only to a broker that accepted its CONNECT and   *)
(* answered its SUBSCRIBE on this connection.                               *)
ConnectedIsJoined ==
  s_state = "CONNECTED" /\ Linked => broker.stage \in {"granted", "denied", "error"}

(* RECONNECT_WAIT is left neither before its deadline nor, polled every     *)
(* MaxGap ticks, later than that after it: also when the clock wraps.       *)
BackoffRespected ==
  [][s_state = "RECONNECT_WAIT" /\ s_state' # s_state
       => Minus(tick, s_state_deadline_ms) <= MaxGap]_vars

(* The two ways in which the client waits for what will not come: the       *)
(* broker closed before the Task saw ESTABLISHED, or vanished when nothing  *)
(* of ours was in flight and no PINGREQ will be.                            *)
Wedged ==
  /\ ~sock.busy
  /\ \/ s_state = "TCP_CONNECTING" /\ sock.sr = "CLOSE_WAIT"
     \/ /\ broker.peer = "gone" /\ sock.sr = "ESTABLISHED" /\ sock.in = <<>>
        /\ \/ s_state = "TLS_HANDSHAKE" /\ tls = "hello"
           \/ s_state \in {"WAIT_CONNACK", "WAIT_SUBACK"} /\ s_tx = NoTx /\ tls = "done"

(* A wedged client stays wedged until another fault frees it: no call of    *)
(* the Task and no passing of time leads out, there is no timeout.          *)
WedgedForGood == [][Wedged /\ UNCHANGED faults => Wedged']_vars

(* Every session that the heap has room for was leaked: wolfSSL_new() fails *)
(* from now on, whatever the client does.                                   *)
Exhausted == Sessions \subseteq heap /\ s_ssl = NULL

ExhaustedForGood == [][Exhausted => Exhausted']_vars

(* A reply took the place of a packet of which wolfSSL still keeps a record *)
(* or the wire already has a part.                                          *)
Overwritten ==
  s_state = "CONNECTED" /\ (sock.held \notin {NoTx, s_tx} \/ sock.frame # s_tx.sent)

(* Once the faults stop, and replies no longer take the place of others     *)
(* that are half sent, the client is CONNECTED for good unless wedged, out  *)
(* of sessions, or disabled: every other failure is noticed and recovered   *)
(* from.                                                                    *)
Recovers ==
  <>[]~Overwritten => <>[](s_state = "CONNECTED" \/ Wedged \/ Exhausted \/ ~s_ctx)

(* The keepalive finds out that a broker vanished without a word: the       *)
(* client does not stay CONNECTED to nobody.                                *)
VanishNoticed == []<>~(s_state = "CONNECTED" /\ broker.peer = "gone")

-----------------------------------------------------------------------------
(* The client implements MqttService.                                       *)

PhaseOf ==
  [IDLE |-> "disabled",
   SOCK_OPEN |-> "opening", TCP_CONNECTING |-> "opening",
   TLS_HANDSHAKE |-> "securing", SEND_CONNECT |-> "securing",
   WAIT_CONNACK |-> "joining", SEND_SUBSCRIBE |-> "joining", WAIT_SUBACK |-> "joining",
   CONNECTED |-> "serving",
   RECONNECT_WAIT |-> "down"]
Phase == PhaseOf[s_state]

(* The reply in s_tx_buf, also one that a failed connection left there. *)
OwedIn(tx) == IF tx # NoTx /\ tx.pkt.type = "STATUS" THEN tx.pkt.reply ELSE NULL
Owed == OwedIn(s_tx)

Service == INSTANCE MqttService
  WITH phase <- Phase, owed <- Owed, total <- s_total_blinks, None <- NULL

(* Commands run only while the client serves a connection, each reply is    *)
(* the one its command earns, and a reply that a dead connection left in    *)
(* s_tx_buf is never sent on the next one.                                  *)
ImplementsService == Service!Spec

(* The reply that is owed reports the counter as it stands: no command runs *)
(* without its reply taking the place of an older one.                      *)
ReplyCurrent ==
  Owed # NULL => \E c \in CmdPayloads, t \in Ulongs :
                   Owed = Reply(c, t) /\ s_total_blinks = TotalAfter(c, t)

(* Whatever do_blink() did to the shared LED within a call of the Task, the *)
(* LED is lit afterwards only if it was before: at the end of a turn of the *)
(* client module Board has it as it was, or off.                            *)
NeverLeavesLit == [][led' => led]_vars

-----------------------------------------------------------------------------
(* What the comments say, and the code does not do.                         *)

(* mqtt_client.h:20: on any TLS/TCP error the connection is torn down. *)
TornDown ==
  s_state = "RECONNECT_WAIT" => s_ssl = NULL /\ s_tx = NoTx /\ sock.sr = "CLOSED"

(* mqtt_tls_socket.c:91-93: mqtt_client.c notices a socket that its peer    *)
(* closed, and reconnects.                                                  *)
PeerCloseNoticed ==
  sock.sr = "CLOSE_WAIT" ~> sock.sr # "CLOSE_WAIT"

(* mqtt_client.c:97-99: a packet in flight is waited for, not replaced. *)
DrainedBeforeSend ==
  [][s_tx # NoTx /\ s_tx'.pkt \notin {NULL, s_tx.pkt} /\ s_ssl' = s_ssl
       => Len(sock'.out) > Len(sock.out)]_vars
=============================================================================
