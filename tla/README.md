# Verification of stm32-w5500-net-suite

TLA+ models of the firmware in `src/`: a bare-metal STM32F746 whose super-loop polls three
network services over a W5500 Ethernet chip. The models are checked with TLC on small
instances; what matters most is proved with TLAPS for every value of the constants.

## 1. The system

`main()` brings the chip up, gets an address, and then polls four tasks for ever
(`main.c:259-275`). There are no threads. Concurrency comes from the W5500, which runs TCP on
its own, from the peers behind it, and from `SysTick_Handler()`, which advances the clock.
A task that blocks (a BLINK waits up to 1000 x 300 ms) stops the other tasks, not the chip.

| component | state | operations | talks to |
|---|---|---|---|
| MQTT client, `mqtt_client.c` | `s_state`, `s_ctx`, `s_ssl`, the one-packet queue `s_tx_*`, Paho's reader `s_rx_trp`, deadline and activity ticks, `s_total_blinks` | `MQTT_Client_Init`, the ten cases of `MQTT_Client_Task` | TLS transport, W5500 socket 3, the broker, LED, clock |
| TLS transport, `mqtt_tls_socket.c` | RNG handle and its flag; wolfSSL's context and sessions (heap) | `NewContext`, `NewSession`, `IORecv`, `IOSend`, `SeedRNG` | wolfSSL, ioLibrary, the hardware generator, which it shares with the encrypted commands |
| Encrypted commands, `secure_cmd.c` | `s_total_blinks` (its own), RNG handle | `SecureCmd_Init`, `SecureCmd_Task`, encrypt/decrypt, `handle_command`, `do_blink` | W5500 socket 2, LED, clock |
| Web LED page, `httpd_led.c` | none but the LED pin | `HTTPD_LED_Init`, `HTTPD_LED_Task` | W5500 socket 0, LED |
| Boot and super-loop, `main.c` | MPU, clocks, pins, SPI2 and console; `g_ip_assigned`, the chip's network registers | `main` and what it calls, `Network_Config`, DHCP callbacks | all tasks, the DHCP library |
| Clock, `stm32f7xx_it.c` | `uwTick`, `dhcp_ms_counter` | `SysTick_Handler` | DHCP library, every deadline |
| W5500 port, `w5500_port.c` | SPI handle, interrupt mask | SPI callbacks, critical section, reset | the chip |
| C runtime, `sysmem.c`, `syscalls.c` | `__sbrk_heap_end` | `_sbrk`; stubs | newlib's `malloc`, and through it wolfSSL |
| HAL glue, `stm32f7xx_hal_msp.c`, `system_stm32f7xx.c`, `stm32f7xx_hal_conf.h` | clocks and pin functions of the peripherals | `SystemInit`, the `MspInit` functions | `main` |
| startup code, certificate, laptop tools | none that the protocols depend on | | |

Correctness, component by component:

* **MQTT client**: wolfSSL is only given a live session; the reader and the writer keep their
  place in the byte stream over any sequence of failures; packets appear to the broker in an
  order MQTT allows; the client is CONNECTED only to a broker that let it in; the backoff is
  kept across the clock's wrap; whatever fails is noticed and recovered from; a reply belongs
  to its command and to its connection.
* **Encrypted commands**: a reply goes to the client that earned it even when connections
  break while the LED blinks; what does not authenticate has no effect; the socket becomes
  free again.
* **Web page**: a button does what the page then shows, once; the LED is on by a button or by a
  blink and by nothing else; the socket becomes free again.
* **Boot**: an address in bounded time whatever the DHCP servers do, no deadlock between the
  library and its clock; a lease, late or renewed, reaches the chip; an address in use is given up.
* **Bring-up and port**: every step of `main()` finds the clock, the pins and the peripheral that it
  needs; the core is never too fast for its supply and its flash; the W5500 is reset for long enough
  by a clock that has just changed; an access to the chip is whole, and costs the clock no more ticks
  than its length explains.
* **TLS transport and heap**: seeds and nonces are the generator's, although it may fail between any
  two words; a session has all its settings or there is none; error paths give all memory back, so
  that the heap grows only by sessions that `s_ssl` was overwritten with another, and stays below the
  stack's reserve even then; sessions come back when the generator does.
* **Super-loop**: a service on the board behaves as it would alone, whatever the others do to the LED,
  to the chip and to the time between its calls.

What is hard to test here: steps of the chip between two lines of a task, packets cut anywhere
by TLS and TCP, a second failure on top of the state a first one left behind, 32-bit ticks near
the wrap, minutes of blocking, peers that fall silent instead of closing. `PROJECT.json` lists
each of these hazards at its line (`hazards`), with the properties that cover it or the reason
none does yet.

## 2. The modules

| module | models |
|---|---|
| `Commands` | `handle_command()` and `do_blink()`, the same in both command services, as pure functions: `strtoul()` with its saturation and negation, the cap, the 32-bit counter, the reply. A command is a verb and a number; formatting is left out. |
| `MqttClient` | `MQTT_Client_Init()` and `MQTT_Client_Task()` with its environment. |
| `MqttService` | What the client promises, in four variables: phase, reply owed, counter, LED. |
| `MqttKeepalive` | `MqttClient` with two history variables: for how long a CONNECTED client has written nothing, and how many PINGRESPs it has read in that time. |
| `Heap` | `_sbrk()`, and `malloc()` and `free()` as far as they depend on it. |
| `TlsTransport` | `mqtt_tls_socket.c` and the random numbers of `secure_cmd.c`, on `Heap`. |
| `W5500Server` | A W5500 socket in server mode: the ioLibrary calls, the chip, one client at a time. |
| `RxBuffer` | The size of the buffer handed to `recv()`, shared by the servers. |
| `SecureCmd`, `HttpdLed` | `SecureCmd_Task()` and `HTTPD_LED_Task()`, each on an instance of `W5500Server`. |
| `Board` | The super-loop: `SecureCmd`, an instance of `HttpdLed`, and what the MQTT client and DHCP do to both. |
| `W5500Port` | The callbacks of `w5500_port.c` under `SysTick_Handler()`. |
| `Bringup` | `main()` up to `Network_Config()`, with the clock, pin and peripheral set-up, on `W5500Port`. |
| `Boot` | `Network_Config()`, the DHCP callbacks, `DHCP_run()` from the two loops of `main.c`, and the seconds that `SysTick_Handler()` counts for it. |
| `MCMqttClient`, `MCMqttKeepalive`, `MCTlsTransport`, `MCBoard` | Small sets of sessions, blocks and commands for TLC. |
| `CommandsProofs`, `MqttClientProofs`, `SecureCmdProofs`, `HttpdLedProofs`, `BoardProofs`, `BootProofs`, `BringupProofs`, `TlsTransportProofs` | The theorems. |

The composition, bottom up: `Commands` is used by `MqttClient` and `SecureCmd`; `W5500Server` by
`SecureCmd` and `HttpdLed`; these two by `Board`; `Heap` by `TlsTransport`; `W5500Port` by `Bringup`.
Where a module needs less of a neighbour than the neighbour's own module has, it keeps only that: the
sessions of `MqttClient` are a pool that may be empty, which is what `TlsTransport` makes of the heap;
`DhcpReset` of `Board` is what the callbacks of `Boot` do to open sockets.

Operators whose name ends in a description after an underscore (`SendConnect_NoMemset`,
`BlinkOff_Lit`, ...) and whose comment says *mutant* are broken variants of the definition that
follows them: each property is tried against one of them, to see that it can fail.

### MqttClient

A variable per static variable of the code, with the same name, plus the environment:
`heap` (the sessions `wolfSSL_new()` has handed out), `tls` (progress of the TLS session),
`sock` (the W5500 socket with both directions of the wire), `broker`, `tick`, `gap`, `faults`.
Every action under "MQTT_Client_Task()" is one whole call of the Task, named for the case and
the outcome: `WaitConnack` pumps the queue, reads a packet, and moves on, in one step.

* `mqtt_tx_pump()` and `MQTTPacket_readnb()` are sets of outcomes, because how much wolfSSL
  takes or has is the environment's choice. A packet is `PktLen` units long.
* After WANT_WRITE nothing has left, but wolfSSL has encrypted the record and keeps it:
  `sock.held`. It takes the next `wolfSSL_write()` for the continuation of that one (`Resumed`),
  sends what it kept and counts that many bytes of the new buffer as written. If `s_tx_buf` holds
  another packet by then, the packet is swallowed (equal length), its tail follows as a record of
  its own (longer, `sock.tail`), or the call fails with BAD_FUNC_ARG (shorter). How long two
  replies are is not in the model, so that all of these may happen between replies; over a
  PINGREQ, the shortest packet, only the tail may.
* `sock.frame` and `sock.half` are what the *wire* knows: how much of an outgoing packet has
  left, whether a part of the next incoming one was taken. The client's own idea is `s_tx.sent`
  and `s_rx_trp.mid`; that the two agree is what `HandshakeFramed` and `StreamInSync` say.
  A packet written on top of half of another becomes `GARBAGE` at the broker, and so does whatever
  follows on that connection: once misplaced, units stay misplaced.
* `mqtt_tx_pump()`'s own error path (`TxFailed`) goes to RECONNECT_WAIT without
  `teardown_connection()`, as the code does. Most safety properties are about what survives it.
* A BLINK is one step that advances `tick` by the time it blocks. Within it the LED goes on and off;
  the step has what is left of that, an LED that is off.
* `MaxFaults` bounds the faults of a behaviour (refused connection, FIN, RST, vanished broker,
  TLS error, refusals, failed allocation, oversize packet); an exhausted heap costs none.
* Not in the model: TLS records and certificates, QoS other than 0, retained messages, a broker
  that sends what MQTT forbids.

### W5500Server, SecureCmd, HttpdLed

The chip may act between `getSn_SR()` and what the Task does with the answer, so a call of a Task
is `GetStatus` followed by one action on the remembered status `seen`. In `SecureCmd` a command is
then executed blink by blink (`exec`), with the network free to act at each. `recv_fails` is the
ioLibrary's rule for an error; such a `recv()` closes the socket itself. A request crosses the
network in two halves, together or apart, and may be repeated ahead of the task, which is all that
framing can tell apart: a packet decrypts only when one `recv()` returns exactly its two halves.
`RxUnits` is the Task's buffer. `socket()` fails as long as the chip has no address (`sipr`), and the
Task, which does not look at the result, tries again in its next call. `encrypt_packet()` may fail and
then nothing is sent. `Lost` is a RST, `Vanish` a client that is gone without a word. `ChipReset` is what
`default_ip_update()` and `default_ip_conflict()` do to an open socket, the one with an address
afterwards and the other without; `Addressed` is a lease.
A turn of `do_blink()` is two actions, `BlinkOn` and `BlinkOff`. What the rest of the board does to the
LED between two calls is an action of each module (`OtherTasks`, `Blink`), which may set it either way;
`Board` has the details.

### Board

`turn` is the task that `main()` has called. A call keeps the turn until it forgets the `Sn_SR` it read, a
blink run included, while the clients of both servers, `Clients`, act at any time. The variables of
`SecureCmd` are those of the command channel; the page has its own socket, client and status, and the same
LED. The other two tasks appear by their effects. The client's turn is `MqttTurn`, or a blink run,
`MqttBlinkOn` and `MqttBlinkOff`, between which the turn is "blink". `DhcpTurn` may bring a lease, and
`DhcpReset`, the two callbacks that end in a reset of the chip, closes both sockets wherever they are, with
an address left or without. `ChannelImplemented` and `PageImplemented` say that the board refines each of
the two services, so that their properties are the board's.

### TlsTransport and Heap

Calls do not overlap, but each is several steps (`call` tells which one is running), because the
generator `rng` may fail and recover between two words: *late* is a timeout of
`HAL_RNG_GenerateRandomNumber()`, *latched* a seed error, which the peripheral keeps until it is
restarted, and nobody restarts it. Both files have a handle of their own to the same peripheral.
A byte in a buffer is the word it came from and its place there, so that a short or a repeated copy
shows. The generator is assumed never to repeat a word that is still remembered (`New`), which keeps
`Words` small: `kept`, one arbitrary nonce of the past, stands for all of them.
A session may be asked for while `s_ssl` still holds the last one, since a failed write does not tear
down (`TxFailed` of `MqttClient`): `Overwrite` forgets it, and `leaked` counts what is lost that way.

There are three kinds of blocks: the context, a session, and the working memory of AES-GCM, which
comes from the heap because `user_settings.h` defines `WOLFSSL_SMALL_STACK`. A session's many
allocations are one block, which is given back as a whole. `usable` is what the build and the
certificate fix once: whether `load_verify_buffer()` and `set_cipher_list()` succeed. What `IORecv()`
and `IOSend()` make of the state of the socket is in `MqttClient`, where the socket is.

### Bringup and W5500Port

One unit of time is one byte on the SPI bus. SysTick has one pending bit: an interrupt that comes round
while the last one is pending, as it does when a burst keeps interrupts masked, is lost, and `missed`
counts those of the access under way. `Bringup` gives every statement of `main()` up to the super-loop
that changes something a step of its own (`pc`), and SysTick may preempt between any two once
`HAL_Init()` has started it. `denied` is the memory that the MPU forbids, in the eight slices of its one
region; a step needs flash, SRAM, peripherals and the core's registers. The HAL is external: of
`HAL_RCC_ClockConfig()` the model keeps that the wait states come before the switch and the new SysTick
period after it. `hclk`, `reload` and `rcc` are in MHz and the numbers are those of the code; the PLL is
computed from its factors. After `HAL_Delay()` begins, ticks are counted, not time. A call of the HAL
that fails ends in `Error_Handler()`.

### Boot

`main.c` is twenty lines around a library that is not in the repository, and what can go wrong is between
them: so `dhcp` is the state machine of WIZnet's `dhcp.c` as far as `main.c` and the comments there use it
(its states, its two timeouts, its ARP check and its busy-wait), marked external, and the callbacks, the two
loops, the fallback and the interrupt are the repository's. A call of `DHCP_run()` is one step unless it
blocks: `call` tells where. `Second` stands for a thousand SysTick interrupts. `Punctual` says what makes
time bounded before the super-loop: the loop turns, the chip ends its ARP, the busy-wait ends once the
seconds have been counted. After boot the other tasks may take any time. `chip` keeps the SIPR register and
whether the DHCP socket is open; a reset by one of the library's handlers clears both. To the sockets of the
services it is `ChipReset` of `W5500Server`, to the MQTT client `PeerReset`. `USE_DHCP = 0` is not modelled:
it is an assignment.

## 3. What TLC checks

| run | question | bounds |
|---|---|---|
| `MqttFraming` | type invariant; reader and writer keep their place in the stream; the broker is brought packets in order | packets of 2 units, 1 fault, 2 sessions, one packet in flight in each direction |
| `MqttSessions` | sessions live and current, CONNECTED means joined, refinement of `MqttService` | whole packets, 2 faults, 2 sessions: a leak, then exhaustion; 2 packets on their way from the broker, so that a command may precede the SUBACK |
| `MqttTimers` | the backoff on a wrapping clock; how long a CONNECTED client may be silent | clock modulo 5, every start tick, a backoff, keepalive halves and poll intervals of 1 tick, no BLINK, 1 fault, one packet at a time from the broker, silence counted up to 6 ticks: past the bound for no PINGRESP and for one, which both occur |
| `MqttLiveness` | the client comes back, or is in one of three named waits; a vanished broker is noticed | 2 faults, 2 sessions: both may be leaked |
| `BootAddress` | boot ends in time and with an address; leases reach the chip, addresses in use are left; a lease is obtained in the end | 2 addresses on offer, one of them STATIC_IP, a timeout of 3 s, 1 retry, waits, ARP and half leases of 1 s |
| `Board` | both servers on the super-loop: replies go to who earned them, forged packets have no effect, buttons are honoured, the LED is on by a button or a blink, both sockets become free, the board refines `SecureCmd` and `HttpdLed` | counter of 3 values, cap of 1 blink, a BLINK beyond the cap, 2 halves ahead on either socket (one packet, in one piece or two) |
| `Bringup` | clocks, pins, peripherals, reset and accesses come up in an order that works; ticks lost; the clock and `main()` go on | a millisecond of 27 bytes (27 MHz, so that 16 and 216 MHz divide it unevenly), accesses of 4, 27, 28 and 55 bytes: a register, just within, just beyond, and twice beyond a millisecond |
| `TlsTransport` | seeds, nonces, sessions, heap; sessions come back | words of 2 bytes, nonces of 3, seeds of 1, 3 and 4, RAM for none, one, two, or all of the blocks and one leaked session |

The bounds are small because the code's state is: one connection, one packet queued, one session at a time.
Two faults suffice for "a failure on top of what a failure left", `PktLen = 2` for a packet cut in the
middle, two sessions for a leak followed by exhaustion. `MaxOut` is how many packets the broker may have yet
to read when the chip confirms a SEND: at 0 each is read before the next is written, which leaves packets
that queue up to `MqttFraming`. Splitting and two faults together are too many states, hence two runs; in
both time passes only where a keepalive may come of it (`TimeInSession`, an action constraint of the two
cfgs: they ask nothing about time, and their backoff is 0). The invariants that matter of both are proved
without bounds. So are those of the servers: more than one packet ahead of a Task is in the proofs and not
in the run. In `Bringup` an access of 55 bytes is the shortest that loses a tick; in `TlsTransport` a nonce
and a seed need two words with the last one cut, six words being as many as two buffers and the local word
can hold; `RamEnds` makes each of the three kinds of allocation fail in some behaviours and not in others,
and lets a session leak with and without room for its successor.

`ProtocolOrder` has one exception: `publish_status()` may overwrite a packet that is half written, or that
wolfSSL keeps after WANT_WRITE (see below), and the broker does see garbage then, also from a TLS layer
that takes packets whole. The property says that nothing else brings it a packet out of place, and that
the client does this only once it is CONNECTED.
`SilenceBounded` counts PINGRESPs because each one refreshes `s_last_activity_ms` though nothing was sent
(`mqtt_client.c:479`), and the next PINGREQ waits for half an interval from there. In the rule there is one
between two packets of ours; two can be on their way only when a PINGREQ goes out before the answer to the
one before it.

### Disagreements between the code and what is said of it

Each of these runs is expected to end in a counterexample.

| run | said | done |
|---|---|---|
| `MqttTornDown` | `mqtt_client.h:20`: on any TLS/TCP error the connection is torn down | `mqtt_client.c:135`: a failed write leaves session, queue and socket; the session leaks |
| `MqttPeerClose` | `mqtt_tls_socket.c:91`: the client notices a closed socket and reconnects | `mqtt_client.c:313`: TCP_CONNECTING waits for ever on CLOSE_WAIT |
| `MqttOverwrite` | `mqtt_client.c:99`: wait for the previous packet to drain | `mqtt_client.c:193`: a reply overwrites a queued PINGREQ or reply |
| `MqttKeepaliveHonoured` | `mqtt_client.h:19`: PINGREQ often enough | `mqtt_client.c:150`: a BLINK blocks for up to 300 s |

Others are in the models and have no run: `STATIC_IP`, "only used if USE_DHCP is 0" (`main.c:34`), is the
fallback of the build with DHCP (`main.c:173`), applied without asking whether anybody has it, and even when
ARP has just found it in use: `TakenVacated` has to except it. A command that decrypts and is not known is
answered with `ERR BADCMD` (`secure_cmd.c:178`), where `src/README.md:118` has the connection closed without
a reply (operator `Reply`). A PUBLISH that precedes the SUBACK is dropped (`mqtt_client.c:432`, against
`mqtt_client.h:16`; action `WaitAnswer`). A BLINK beyond the cap is answered with the number that was asked,
not with what was blinked (`secure_cmd.c:169`; operator `Reply`). A SUBACK that refuses the subscription is
only printed (`mqtt_client.c:436`). `secure_cmd.c:239` hangs up on a packet that waits unread when its
client has closed its side, against `secure_cmd.h:12` (action `HangUp`). The address the board ends up with
is not always the one printed at boot, as `README.md:91` has it: a lease that comes after the fallback
replaces it silently (`ArpUnique` after `Configured`), and a conflict after boot leaves the board with none,
since nothing reads `g_ip_assigned` any more (`Declined`). "The total blink count since boot"
(`README.md:117`) is two counters, one for each command service. Once the generator has latched an error,
every nonce is made of the same stale word (`secure_cmd.c:61`, action `generate_nonce`): `NonceFresh` has to
except it. The `.ioc` notes 96 MHz for the generator's clock (`RCC.RNGFreq_Value`), `main.c` sets up 48 MHz,
which `ClockSafe` checks.

### Fairness

* The super-loop never stops, so each Task is weakly fair, and so is the clock (`Elapse`).
  `MaxGap` bounds the ticks between two polls; it stands for the time the other tasks take.
* `MqttClient`: TCP connects to a reachable broker, delivers and acknowledges, the W5500 gives up
  retransmitting when nobody acknowledges, the broker answers TLS and MQTT requests. Faults are
  not fair; `MaxFaults` makes them end, without which nothing can be promised.
* `Board`: the loop goes on, `WF(Loop)`; a call of a task ends because a blink run does. The clients
  of both servers are as fair as follows.
* Servers: somebody connects again and again; a client that is still there sends or leaves (no task has a
  timeout: without this a silent client holds the socket for ever, which is listed as a hazard); TCP
  delivers; a closing handshake ends. `ListensAgain` assumes that the chip is not reset for ever and has an
  address in the end (`ChipSettles`), without which `socket()` fails, and excepts a client that vanished
  before it sent anything (`Abandoned`), which the firmware cannot tell from a slow one.
* `Boot`: both loops and the clock run, the chip ends its ARP, and a server that is asked again and
  again answers in time now and then (strong fairness, for each kind of request: the library only
  listens for a while). `GetsLease` further assumes that from some point on no address is refused or in
  use (`Orderly`).
* `Bringup`: time passes, an interrupt that is due and not masked is served, and `main()` is strongly
  fair: SysTick interrupts it again and again, but its handler takes far less than its period.
* `TlsTransport`: a call that has begun goes on (weak fairness), and the client's Task asks for a
  session again and again between other calls (strong fairness: a reply in between disables it).
  `SessionsResume` assumes memory for all blocks and for what has leaked, a generator that never latches,
  and that from some point on it is in time.
* `Recovers` likewise excepts three named waits. Two are `Wedged`, both with all our bytes acknowledged:
  CLOSE_WAIT in TCP_CONNECTING, which is the disagreement above, and a broker that vanished in the middle
  of the TLS handshake, or of the MQTT handshake with nothing queued and nothing unread. The third is
  `Exhausted`: each write that fails leaks a session (`mqtt_client.c:135`), and after as many as the heap has
  room for `wolfSSL_new()` fails for ever. The run has two faults and two sessions, so that this occurs.
  That the exceptions are no larger than they must be is `WedgedForGood` and `ExhaustedForGood`: nothing but
  another fault leads out of the first two, and nothing at all out of the third. They are proved, not run.
  `Recovers` assumes that from some point on no reply takes the place of a packet half sent or withheld
  (`Overwritten`), because each time it does the client may spoil its own stream, be hung up on by the
  broker and come back only to do it again: that is `MqttOverwrite`'s disagreement, and no fault of the
  environment.

## 4. What is proved

The assumptions are those in the modules. `CommandsAssumption`, `MqttAssumption`, `NullAssumption`,
`SecureAssumption` and `BootAssumption` say that the constants are numbers or distinct values, that the
backoff, a poll interval and a BLINK together are shorter than half the clock's range (3 s + 300 s against
24 days), and a keepalive half and a poll interval shorter than all of it (30 s against 49 days);
`RxAssumption` that a buffer holds one request; `PortAssumption` that a millisecond is at least two units
long; `HeapAssumption` and `TransportAssumption` that blocks have a size, RAM does not end before it starts,
and words and nonces have a length. All of them are evaluated by TLC as well.

| theorem | says | argument |
|---|---|---|
| `MqttClientProofs!TypeCorrect` | types, for any heap, packet length, clock and bound | inductive as it stands, on lemmas about the pump and the reader |
| `MqttClientProofs!SessionsAreSafe` | `SessionSafety` | with `SessionInv`: where `s_ssl` may be NULL, and that a session in use is in the heap although others may have leaked |
| `MqttClientProofs!BackoffIsRespected` | `BackoffRespected` | with `BackoffInv`: in RECONNECT_WAIT the deadline is at most a backoff ahead or a gap behind, so the signed comparison is right |
| `MqttClientProofs!ClientImplementsService` | the client implements `MqttService` | step by step; needs `JoinInv`: what `s_tx_buf` may hold in which state, so that a reply a dead connection left behind is overwritten before anything is sent |
| `MqttClientProofs!ReaderKeepsItsPlace`, `HandshakeIsFramed` | `StreamInSync`, `HandshakeFramed`, for every packet length | `WireInv`: nothing of a packet has crossed a connection that is being set up, in either direction, also when the last one was given up in the middle of a packet; afterwards the client's counts and the wire's move together, and what wolfSSL keeps is the packet in `s_tx_buf` (`InStep`) |
| `MqttClientProofs!ConnectedMeansJoined` | `ConnectedIsJoined` | `JoinedInv`: a SUBACK on its way vouches for the broker's stage on this connection, and a new connection carries nothing |
| `MqttClientProofs!RepliesAreCurrent`, `ClientNeverLeavesLit` | the reply that is owed reports the counter as it stands (`ReplyCurrent`); a call leaves the LED lit only if it found it so (`NeverLeavesLit`), which is how the client's turn ends in `Board` | proved of `MqttService` and carried over by the refinement |
| `MqttClientProofs!PacketsInOrder` | `ProtocolOrder`, for every packet length | with `OrderInv`: what is on its way to the broker is what it expects next or `GARBAGE`, at most one packet before the session is up; where broker and client stand relative to each other in each state. A packet is spoilt only when `s_tx` and the wire, or `s_tx` and the record that wolfSSL keeps, disagree, and `WireInv` excludes that until the client is CONNECTED |
| `MqttClientProofs!SilenceIsBounded` | `SilenceBounded`, for every keepalive, poll interval and position of the clock | `KeepaliveInv`: with nothing queued `s_last_activity_ms` is at most a half and the current gap old, and the silence is longer than that age by at most a half and an interval per PINGRESP. While a packet is queued nothing need be known: it leaves by being sent, or with the connection |
| `MqttClientProofs!WedgedStaysWedged` | `WedgedForGood` | from the types and `BackoffInv`, action by action: none of the waits has a timeout |
| `MqttClientProofs!ExhaustedStaysExhausted` | `ExhaustedForGood` | action by action: only `teardown_connection()` frees a session, and only the one in `s_ssl`, which is NULL |
| `TlsTransportProofs!TypeCorrect`, `SeedIsGenuine`, `NonceIsFresh`, `SessionIsSound`, `HeapIsSteady`, `HeapStaysOutOfStack` | the invariants of the run `TlsTransport`, for any sizes, any RAM and any number of words | `IInv`: a session and its context are whole or absent (`SessionInv`); at most one block of each kind exists besides the leaked sessions, in use or freed, and the end of the heap is where those reach to (`HeapInv`), which `_sbrk()` lets grow only below the reserve; `SeedGenuine` itself, inductive with the rest; a nonce under way holds a word that is not in `kept` as soon as one was drawn (`NonceInv`) |
| `SecureCmdProofs!TypeCorrect`, `RepliesAreEarned`, `ForgedAreRefused` | the invariants of the channel | `IInv`: a free socket has no client (`PeerInv`); a socket seen closed stays closed (`SeenInv`); nothing follows an answer but the end (`AnswerInv`); while a command runs the socket is its client's or closed (`ExecInv`), which is why no reply can reach another connection |
| `SecureCmdProofs!OneCommand` | `OneCommandPerConnection`: when a command has ended its connection is not open any more, and a new one begins with nothing to read | with `FreshInv`, that a free socket has an empty buffer, and the lemma that the reply's `disconnect()` takes the socket out of the open states |
| `HttpdLedProofs!ButtonsAreHonoured`, `PressedOnceHolds` | `ButtonsHonoured`; a call of the page turns the LED on only for a connection that asks for it and has had no answer yet (`PressedOnce`) | `IInv`: the same, and requests sent whole are there whole (`WholeInv`) |
| `BoardProofs!BoardImplementsChannel`, `BoardImplementsPage` | the super-loop refines `SecureCmd` and `HttpdLed` | step by step: a step of one service is a step of the other's environment, because the turn passes only between calls; a reset of the chip is the `ChipReset` of both |
| `BoardProofs!BoardHonoursButtons`, `OnlyButtonsLightBoard`, `BoardRepliesEarned`, `BoardOneCommand` | the services' safety properties, on the board | from the two refinements and the theorems of `HttpdLedProofs` and `SecureCmdProofs`; needs `TurnInv`: the page has read nothing while it is another task's turn. `OnlyButtonsLight` takes the button's half from `PressedOnce` and the blinks' from `LightInv`: a command that has blinked and is between two blinks has the LED off |
| `BootProofs!TypeCorrect`, `LeaseIsApplied`, `TakenIsVacated`, `AnAddressIsAnnounced` | the safety properties of `BootAddress` | `AddressInv`: with them, that an address is asked about only after it was offered (`OfferInv`) and that the flag promises an address (`FlagInv`). `STATIC_IP` may be among the addresses offered |
| `BootProofs!BootIsBounded` | `BootBounded` | `TimeInv`: how late it may be in the loop, in the ARP check and in the busy-wait, where the library's clock and the board's have run together since it began |
| `BringupProofs!TypeCorrect`, `AccessesAreWhole`, `ResetIsTimed`, `TicksAreCounted`, `ClockIsSafe`, `ConsoleIsTimed` | the invariants of the run `Bringup`, for any length of a millisecond and of accesses | `IInv`: what clocks and dividers are at each `pc` (`ClockInv`); interrupts are masked exactly in an access or when halted (`MaskInv`); which parts are ready, and which pins they have (`PartsInv`, `PinInv`); how long RST has been low or high, by the ticks a delay still waits for and the phase of the current one (`ResetInv`); how much of the access's time the lost ticks account for (`TickInv`) |

`CommandsProofs` holds the lemmas about the interpreter: types, the cap, and the time a BLINK takes.

Every invariant that a run checks is proved. Only model-checked are the liveness properties of all runs
(`Recovers`, `VanishNoticed`, `GetsLease`, `ListensAgain`, `PageListensAgain`, `ComesUp`, `TickServed`,
`SessionsResume`), since temporal reasoning under fairness is outside what the prover does here. Proved and
not part of a run, since what they say is for every value of the constants already: `ReplyCurrent`,
`NeverLeavesLit`, `WedgedForGood`, `ExhaustedForGood`, `PressedOnce`, `OneCommandPerConnection`. Operators
defined by recursion are avoided throughout, so that every module can be proved about.

## 5. What is not modelled, and the plan

What would come next, in this order:

1. `IORecv()` and `IOSend()` against the ioLibrary's `recv()` and `send()` byte by byte (TX buffer full,
   `SENDOK`), composed with the abstraction of them in `MqttClient`, where a write takes any part.
2. How far `uwTick` falls behind over many accesses: `TicksMissed` bounds one, and the deadlines of
   `MqttClient` and `Boot` count ticks, not time.
3. `MqttClient` in place of `MqttTurn`, `MqttBlinkOn` and `MqttBlinkOff` in `Board`. Its state space times
   that of the servers is beyond exhaustive checking; the three actions keep what they can see of it, and
   `ClientNeverLeavesLit` shows that a turn of the client ends as theirs does.

Hazards that no property covers, because the code does not claim to handle them and a property would only
say so: a SUBACK that refuses the subscription (`mqtt_client.c:436`), a retained PUBLISH that is larger than
the buffer and ends every connection (`mqtt_client.c:26`), a PINGRESP that never comes from a broker whose
TCP still acknowledges (`mqtt_client.c:479`), and the number in the reply to a BLINK beyond the cap
(`secure_cmd.c:169`).

Left out for good: `USE_DHCP = 0`, which the build does not choose; the fault handlers, endless loops
that no step enters; the `DeInit` functions and `SystemCoreClockUpdate()`, which nobody calls; the stubs of
`syscalls.c`, which keep no state; startup code, linker and IDE files; the CA certificate and the script
that generates it; the laptop tools, whose side of each protocol is the environment of the models; wolfSSL,
Paho, the ioLibrary and the HAL, which are not in the repository and appear only as the firmware uses them;
AES-GCM itself, of which the model keeps that a packet opens only whole and under the right key.
