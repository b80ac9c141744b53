---------------------------- MODULE BoardProofs ----------------------------
(* Proofs about Board, for every value of its constants: every step of the  *)
(* super-loop is a step of each service, or none of its business, so that   *)
(* each keeps what it promises alone.                                       *)
EXTENDS Board, SecureCmdProofs

PageProofs == INSTANCE HttpdLedProofs
  WITH sock <- hsock, peer <- hpeer, seen <- hseen, MaxUnits <- PageUnits

-----------------------------------------------------------------------------
(* The page and the channel read Sn_SR in their own turns only. *)
TurnInv ==
  /\ turn # "page" => hseen = Idle
  /\ turn # "channel" => seen = Idle
  /\ led \in BOOLEAN

LEMMA BoardStarts == BoardInit => TurnInv
  BY DEF BoardInit, Init, Page!Init, Page!Idle, Idle, TurnInv

(* What a call of the page does to the LED. *)
LEMMA PageSwitches ==
  ASSUME led \in BOOLEAN, Page!HTTPD_LED_Task
  PROVE  led' \in BOOLEAN
<1>1. CASE Page!Serve
  BY <1>1 DEF Page!Serve, Page!Switched
<1>2. CASE ~Page!Serve
  BY <1>2 DEF Page!HTTPD_LED_Task, Page!GetStatus, Page!Reopen, Page!Listen,
              Page!HangUp, Page!Ignore, Page!ReceiveNothing
<1> QED BY <1>1, <1>2

LEMMA PageKeepsAddress == Page!HTTPD_LED_Task => UNCHANGED sipr
  BY DEF Page!HTTPD_LED_Task, Page!GetStatus, Page!Act, Page!Reopen, Page!Listen,
         Page!HangUp, Page!Ignore, Page!ReceiveNothing, Page!Serve

LEMMA ChannelKeepsAddress == SecureCmd_Task => UNCHANGED sipr
  BY DEF SecureCmd_Task, GetStatus, Act, Reopen, Listen, HangUp, Ignore,
         ReceiveNothing, ReceiveBad, ReceiveCommand, BlinkOn, BlinkOff, Respond

(* What a call of the command channel does to the LED. *)
LEMMA ChannelSwitches ==
  ASSUME SecureCmd_Task
  PROVE  led' = led \/ (BlinkOn /\ led' = TRUE) \/ (BlinkOff /\ led' = FALSE)
  BY DEF SecureCmd_Task, GetStatus, Act, Reopen, Listen, HangUp, Ignore,
         ReceiveNothing, ReceiveBad, ReceiveCommand, BlinkOn, BlinkOff, Respond

LEMMA TurnsKept == TurnInv /\ [BoardNext]_boardVars => TurnInv'
<1> SUFFICES ASSUME TurnInv, [BoardNext]_boardVars PROVE TurnInv'
  OBVIOUS
<1> USE DEF TurnInv
<1>1. CASE PageTurn
  BY <1>1, PageSwitches DEF PageTurn, channelVars
<1>2. CASE ChannelTurn
  BY <1>2, ChannelSwitches DEF ChannelTurn, pageVars
<1>3. CASE MqttTurn \/ MqttBlinkOn \/ MqttBlinkOff \/ DhcpTurn \/ DhcpReset
  BY <1>3 DEF MqttTurn, MqttBlinkOn, MqttBlinkOff, DhcpTurn, DhcpReset, channelVars, pageVars
<1>4. CASE Clients
  BY <1>4 DEF Clients, Environment, channelVars, pageVars
<1>5. CASE UNCHANGED boardVars
  BY <1>5 DEF boardVars, pageVars, vars
<1> QED BY <1>1, <1>2, <1>3, <1>4, <1>5 DEF BoardNext, Loop

LEMMA TurnsHold == BoardSpec => []TurnInv
  BY BoardStarts, TurnsKept, PTL DEF BoardSpec

-----------------------------------------------------------------------------
(* The command channel. *)
LEMMA ChannelSteps == TurnInv /\ TurnInv' /\ [BoardNext]_boardVars => [Next]_vars
<1> SUFFICES ASSUME TurnInv, TurnInv', [BoardNext]_boardVars PROVE [Next]_vars
  OBVIOUS
<1>1. CASE PageTurn \/ MqttTurn \/ MqttBlinkOn \/ MqttBlinkOff
  <2>1. seen = Idle /\ led' \in BOOLEAN /\ UNCHANGED <<channelVars, sipr>>
    BY <1>1, PageKeepsAddress
       DEF TurnInv, PageTurn, MqttTurn, MqttBlinkOn, MqttBlinkOff
  <2> QED BY <2>1 DEF Next, OtherTasks, channelVars
<1>2. CASE ChannelTurn
  BY <1>2 DEF ChannelTurn, Next
<1>3. CASE DhcpTurn
  BY <1>3 DEF DhcpTurn, Next, Chip, Addressed, channelVars, vars
<1>4. CASE DhcpReset
  BY <1>4 DEF DhcpReset, Next, Chip
<1>5. CASE Clients
  BY <1>5 DEF Clients, Next, Page!Network, channelVars, vars
<1>6. CASE UNCHANGED boardVars
  BY <1>6 DEF boardVars
<1> QED BY <1>1, <1>2, <1>3, <1>4, <1>5, <1>6 DEF BoardNext, Loop

(* SecureCmd_Task() in the super-loop implements SecureCmd. *)
THEOREM BoardImplementsChannel == BoardSpec => ChannelImplemented
<1>1. BoardInit => Init
  BY DEF BoardInit
<1> QED BY <1>1, TurnsHold, ChannelSteps, PTL DEF BoardSpec, Spec, ChannelImplemented

-----------------------------------------------------------------------------
(* The page. *)
LEMMA PageSteps ==
  TurnInv /\ [BoardNext]_boardVars => [Page!Next]_(Page!vars)
<1> SUFFICES ASSUME TurnInv, [BoardNext]_boardVars PROVE [Page!Next]_(Page!vars)
  OBVIOUS
<1>1. CASE PageTurn
  BY <1>1 DEF PageTurn, Page!Next
<1>2. CASE ChannelTurn \/ MqttTurn \/ MqttBlinkOn \/ MqttBlinkOff
  <2>1. hseen = Idle /\ UNCHANGED <<pageVars, sipr>> /\ led' \in BOOLEAN
    BY <1>2, ChannelSwitches, ChannelKeepsAddress
       DEF TurnInv, ChannelTurn, MqttTurn, MqttBlinkOn, MqttBlinkOff
  <2> QED BY <2>1 DEF Page!Next, Page!Blink, Page!Idle, Idle, Page!vars, pageVars
<1>3. CASE DhcpTurn
  BY <1>3 DEF DhcpTurn, Page!Next, Page!Chip, Page!Addressed, Page!vars, pageVars
<1>4. CASE DhcpReset
  BY <1>4 DEF DhcpReset, Page!Next, Page!Chip
<1>5. CASE Clients
  BY <1>5 DEF Clients, Environment, Network, Page!Next, Page!Environment, Page!vars, pageVars
<1>6. CASE UNCHANGED boardVars
  BY <1>6 DEF boardVars, Page!vars, pageVars, vars
<1> QED BY <1>1, <1>2, <1>3, <1>4, <1>5, <1>6 DEF BoardNext, Loop

(* HTTPD_LED_Task() in the super-loop implements HttpdLed. *)
THEOREM BoardImplementsPage == BoardSpec => PageImplemented
<1>1. BoardInit => Page!Init
  BY DEF BoardInit
<1> QED BY <1>1, TurnsHold, PageSteps, PTL DEF BoardSpec, Page!Spec, PageImplemented

-----------------------------------------------------------------------------
(* What the services promise, on the board.                                 *)

(* The two instances of HttpdLed, that of Board and that of its proofs, are *)
(* the same specification.                                                  *)
LEMMA SamePage ==
  /\ Page!Init = PageProofs!Init /\ Page!Next = PageProofs!Next /\ Page!vars = PageProofs!vars
  /\ Page!HTTPD_LED_Task = PageProofs!HTTPD_LED_Task
  BY DEF Page!Requests, PageProofs!Requests, Page!Open, PageProofs!Open,
         Page!NoPeer, PageProofs!NoPeer, Page!close, PageProofs!close,
         Page!socket, PageProofs!socket, Page!listen, PageProofs!listen,
         Page!recv_fails, PageProofs!recv_fails, Page!recv_data,
         PageProofs!recv_data, Page!recv_rest, PageProofs!recv_rest,
         Page!send, PageProofs!send, Page!disconnect, PageProofs!disconnect,
         Page!ServerInit, PageProofs!ServerInit, Page!Connect,
         PageProofs!Connect, Page!Speaking, PageProofs!Speaking,
         Page!NextHalf, PageProofs!NextHalf, Page!ClientSend,
         PageProofs!ClientSend, Page!ClientSendHalf,
         PageProofs!ClientSendHalf, Page!ClientFin, PageProofs!ClientFin,
         Page!Lost, PageProofs!Lost, Page!ChipReset, PageProofs!ChipReset,
         Page!Addressed, PageProofs!Addressed,
         Page!Chip, PageProofs!Chip, Page!Vanish, PageProofs!Vanish, Page!Deliver, PageProofs!Deliver,
         Page!Closed, PageProofs!Closed, Page!Network, PageProofs!Network,
         Page!vars, PageProofs!vars, Page!Idle, PageProofs!Idle, Page!Init,
         PageProofs!Init, Page!GetStatus, PageProofs!GetStatus, Page!Act,
         PageProofs!Act, Page!Reopen, PageProofs!Reopen, Page!Listen,
         PageProofs!Listen, Page!HangUp, PageProofs!HangUp, Page!Ignore,
         PageProofs!Ignore, Page!ReceiveNothing, PageProofs!ReceiveNothing,
         Page!paths, PageProofs!paths, Page!Switched, PageProofs!Switched,
         Page!Serve, PageProofs!Serve, Page!HTTPD_LED_Task,
         PageProofs!HTTPD_LED_Task, Page!Environment, PageProofs!Environment,
         Page!Blink, PageProofs!Blink, Page!Next, PageProofs!Next

LEMMA BoardRunsPage == BoardSpec => PageProofs!Spec
<1>1. BoardInit => PageProofs!Init
  BY SamePage DEF BoardInit
<1>2. TurnInv /\ [BoardNext]_boardVars => [PageProofs!Next]_(PageProofs!vars)
  BY PageSteps, SamePage DEF Page!vars, PageProofs!vars
<1> QED BY <1>1, <1>2, TurnsHold, PTL DEF BoardSpec, PageProofs!Spec

(* Whoever asked for ON or OFF in one piece sees it on the page, also when  *)
(* the other services blink the LED and DHCP resets the chip meanwhile.     *)
THEOREM BoardHonoursButtons == BoardSpec => []ButtonsHonoured
<1>1. PageProofs!Spec => []PageProofs!ButtonsHonoured
  BY PageProofs!ButtonsAreHonoured, RxAssumption, PTL DEF PageProofs!ButtonsAreHonoured
<1>2. PageProofs!ButtonsHonoured => ButtonsHonoured
  BY DEF ButtonsHonoured, Page!ButtonsHonoured, PageProofs!ButtonsHonoured
<1> QED BY <1>1, <1>2, BoardRunsPage, PTL

(* A client of the command channel gets the reply its own command earned,   *)
(* and one without the key nothing, whatever the page and DHCP do.          *)
THEOREM BoardRepliesEarned == BoardSpec => [](RepliesEarned /\ ForgedRefused)
  BY BoardImplementsChannel, RepliesAreEarned, ForgedAreRefused, PTL
     DEF ChannelImplemented

(* Nor do a DHCP event in the middle of a blink and the page's clients ever *)
(* bring a connection a second command.                                     *)
THEOREM BoardOneCommand == BoardSpec => OneCommandPerConnection
  BY BoardImplementsChannel, OneCommand, PTL DEF ChannelImplemented

-----------------------------------------------------------------------------
(* The LED.                                                                 *)

(* What the proofs of HttpdLed say of the page's calls, in its two names. *)
Press == PageProofs!HTTPD_LED_Task /\ ~led /\ led' => PageProofs!Pressed

LEMMA BoardPresses == BoardSpec => [][Press]_(PageProofs!vars)
<1>1. PageProofs!Spec => PageProofs!PressedOnce
  BY PageProofs!PressedOnceHolds, RxAssumption, PTL DEF PageProofs!PressedOnceHolds
<1>2. PageProofs!PressedOnce => [][Press]_(PageProofs!vars)
  BY PTL DEF Press, PageProofs!PressedOnce
<1> QED BY <1>1, <1>2, BoardRunsPage, PTL

LEMMA SamePress ==
  /\ Page!HTTPD_LED_Task = PageProofs!HTTPD_LED_Task
  /\ PageProofs!Pressed => Page!Pressed
  BY SamePage DEF Page!Pressed, PageProofs!Pressed

(* A task that is between two calls executes nothing. *)
LEMMA NothingRuns == IInv /\ seen = Idle => exec = NoCommand
  BY DEF IInv, ExecInv, Idle

LEMMA TurnsOn ==
  ASSUME TurnInv, IInv, [Press]_(PageProofs!vars), [BoardNext]_boardVars, ~led, led'
  PROVE  (turn = "page" /\ Page!Pressed) \/ Blinking'
<1>1. CASE PageTurn
  <2>1. Press
    BY DEF PageProofs!vars
  <2> QED BY <1>1, <2>1, SamePress DEF PageTurn, Press
<1>2. CASE ChannelTurn
  <2>1. BlinkOn
    BY <1>2, ChannelSwitches DEF ChannelTurn
  <2>2. exec # NoCommand /\ exec' = [exec EXCEPT !.lit = TRUE]
    BY <2>1, NoCommandFields DEF BlinkOn
  <2>3. exec \in [cmd : Commands, left : 0 .. BLINK_MAX, lit : BOOLEAN]
    BY <2>2 DEF IInv, TypeOK, Executions
  <2>4. exec'.lit = TRUE
    BY <2>2, <2>3
  <2> QED BY <2>4, Zenon DEF Blinking
<1>3. CASE MqttBlinkOn
  BY <1>3 DEF MqttBlinkOn, Blinking
<1> QED BY <1>1, <1>2, <1>3
        DEF BoardNext, Loop, Clients, MqttTurn, MqttBlinkOff, DhcpTurn, DhcpReset,
            Environment, boardVars, vars

LEMMA TurnsEnd ==
  ASSUME TurnInv, TurnInv', IInv, IInv', LightInv, [BoardNext]_boardVars, turn' # turn
  PROVE  exec'.lit = FALSE /\ (BlinkRuns /\ ~Blinking' => led' = FALSE)
<1>0. IInv' /\ seen' = Idle => exec' = NoCommand
  BY DEF IInv, ExecInv, Idle
<1>1. CASE ChannelTurn
  <2>1. seen' = Idle
    BY <1>1 DEF ChannelTurn
  <2>2. exec'.lit = FALSE
    BY <1>0, <2>1, NoCommandFields
  <2>3. CASE exec # NoCommand /\ Blinked(exec.cmd) > 0
    <3>1. seen = "ESTABLISHED"
      BY <2>3 DEF IInv, ExecInv
    <3>2. Respond
      BY <1>1, <2>1, <2>3, <3>1
         DEF ChannelTurn, SecureCmd_Task, GetStatus, Act, Reopen, Listen, HangUp, Ignore,
             ReceiveNothing, ReceiveBad, ReceiveCommand, BlinkOn, BlinkOff, Idle
    <3>3. exec.left = 0 /\ led' = led
      BY <3>2 DEF Respond
    <3>4. exec.lit \in BOOLEAN /\ exec.cmd \in Commands
      BY <2>3 DEF IInv, TypeOK, Executions
    <3>5. exec.lit = FALSE
      <4>1. ~(0 > 0)
        OBVIOUS
      <4> QED BY <3>3, <3>4, <4>1, Zenon DEF IInv, ExecInv
    <3>6. exec.left # Blinked(exec.cmd)
      BY <2>3, <3>3
    <3> QED BY <2>2, <2>3, <3>3, <3>5, <3>6 DEF LightInv
  <2>4. CASE ~(exec # NoCommand /\ Blinked(exec.cmd) > 0)
    BY <1>1, <2>2, <2>4 DEF BlinkRuns, ChannelTurn
  <2> QED BY <2>3, <2>4
<1>2. CASE ~ChannelTurn
  <2>1. turn # "channel"
    BY <1>2 DEF BoardNext, Loop, Clients, PageTurn, MqttTurn, MqttBlinkOn, MqttBlinkOff,
         DhcpTurn, DhcpReset, boardVars
  <2>2. exec = NoCommand
    BY <2>1, NothingRuns DEF TurnInv
  <2>3. exec' = exec
    BY <1>2 DEF BoardNext, Loop, Clients, PageTurn, MqttTurn, MqttBlinkOn, MqttBlinkOff,
         DhcpTurn, DhcpReset, boardVars, channelVars
  <2>4. exec'.lit = FALSE
    BY <2>2, <2>3, NoCommandFields
  <2>5. turn = "blink" => led' = FALSE
    BY <1>2 DEF BoardNext, Loop, Clients, PageTurn, MqttTurn, MqttBlinkOn, MqttBlinkOff,
         DhcpTurn, DhcpReset, boardVars
  <2> QED BY <2>2, <2>4, <2>5 DEF BlinkRuns
<1> QED BY <1>1, <1>2

(* Of the whole board, only the page turns the LED on to stay, for a        *)
(* connection that asks for it; a BLINK has it on while no other task runs  *)
(* and leaves it off, also when connections are lost meanwhile.             *)
THEOREM OnlyButtonsLightBoard == BoardSpec => OnlyButtonsLight
<1> DEFINE A == /\ ~led /\ led' => (turn = "page" /\ Page!Pressed) \/ Blinking'
                /\ turn' # turn => ~exec'.lit /\ (BlinkRuns /\ ~Blinking' => ~led')
<1>1. ASSUME TurnInv, TurnInv', IInv, IInv', LightInv, [Press]_(PageProofs!vars),
             [BoardNext]_boardVars
      PROVE  [A]_boardVars
  <2>1. ~led /\ led' => (turn = "page" /\ Page!Pressed) \/ Blinking'
    BY <1>1, TurnsOn
  <2>2. turn' # turn => exec'.lit = FALSE /\ (BlinkRuns /\ ~Blinking' => led' = FALSE)
    BY <1>1, TurnsEnd
  <2> QED BY <2>1, <2>2, Zenon
<1>2. BoardSpec => [](IInv /\ LightInv)
  BY BoardImplementsChannel, Invariance, Lights, PTL DEF ChannelImplemented
<1> HIDE DEF A
<1>3. BoardSpec => [][A]_boardVars
  BY <1>1, <1>2, BoardPresses, TurnsHold, PTL DEF BoardSpec
<1> QED BY <1>3 DEF A, OnlyButtonsLight
=============================================================================
