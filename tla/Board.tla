------------------------------- MODULE Board -------------------------------
(***************************************************************************)
(* The super-loop of main.c: HTTPD_LED_Task(), SecureCmd_Task(), then        *)
(* MQTT_Client_Task() and DHCP_run(), and again, one call after the other.   *)
(*                                                                         *)
(* The tasks share the LED, the CPU and the chip.  While one runs, a blink   *)
(* run of minutes included, the clients of the others go on; a DHCP event    *)
(* resets the chip, and with it the sockets of all tasks.  The variables of  *)
(* SecureCmd are those of the command channel here.                         *)
(***************************************************************************)
EXTENDS SecureCmd

CONSTANT
  PageUnits             \* MaxUnits of the page's clients

VARIABLES
  turn,                 \* the task that runs
  hsock, hpeer, hseen   \* the page's socket, client, and Sn_SR

Page == INSTANCE HttpdLed
  WITH sock <- hsock, peer <- hpeer, seen <- hseen, MaxUnits <- PageUnits

pageVars == <<hsock, hpeer, hseen>>
channelVars == <<sock, peer, seen, exec, s_total_blinks>>
boardVars == <<turn, pageVars, vars>>

(* "blink": the MQTT client, while its do_blink() has the LED on. *)
Turns == {"page", "channel", "mqtt", "blink", "dhcp"}

BoardInit == turn = "page" /\ Page!Init /\ Init

-----------------------------------------------------------------------------
(* Mutant of PageTurn: a call gives way after it has read Sn_SR. *)
PageTurn_Yields ==
  /\ turn = "page" /\ Page!HTTPD_LED_Task
  /\ turn' = "channel"
  /\ UNCHANGED channelVars

(* A call ends when it forgets what it read from Sn_SR. *)
PageTurn ==
  /\ turn = "page" /\ Page!HTTPD_LED_Task
  /\ turn' = IF hseen' = Idle THEN "channel" ELSE "page"
  /\ UNCHANGED channelVars

(* Mutant of ChannelTurn: the blinks are left to later calls. *)
ChannelTurn_Yields ==
  /\ turn = "channel" /\ SecureCmd_Task
  /\ turn' = IF seen' = Idle \/ exec'.left > 0 THEN "mqtt" ELSE "channel"
  /\ UNCHANGED pageVars

ChannelTurn ==
  /\ turn = "channel" /\ SecureCmd_Task
  /\ turn' = IF seen' = Idle THEN "mqtt" ELSE "channel"
  /\ UNCHANGED pageVars

(* MQTT_Client_Task(): a call without a BLINK leaves the LED alone. *)
MqttTurn ==
  /\ turn = "mqtt" /\ turn' = "dhcp"
  /\ UNCHANGED <<channelVars, pageVars, sipr, led>>

(* Its do_blink(): the LED goes on, and off.  The others see a run of blinks *)
(* as one.                                                                  *)
MqttBlinkOn ==
  /\ turn = "mqtt" /\ turn' = "blink"
  /\ led' = TRUE
  /\ UNCHANGED <<channelVars, pageVars, sipr>>

MqttBlinkOff ==
  /\ turn = "blink" /\ turn' = "dhcp"
  /\ led' = FALSE
  /\ UNCHANGED <<channelVars, pageVars, sipr>>

(* DHCP_run(): mostly nothing, or a lease. *)
DhcpTurn ==
  /\ turn = "dhcp" /\ turn' = "page"
  /\ sipr' \in {sipr, TRUE}
  /\ UNCHANGED <<pageVars, channelVars, led>>

(* default_ip_update() and default_ip_conflict() reset the chip: every       *)
(* socket is closed, whatever it was doing.                                 *)
DhcpReset ==
  /\ turn = "dhcp" /\ turn' = "page"
  /\ ChipReset /\ Page!ChipReset
  /\ UNCHANGED <<hseen, seen, exec, s_total_blinks, led>>

Loop ==
  \/ PageTurn \/ ChannelTurn \/ MqttTurn \/ MqttBlinkOn \/ MqttBlinkOff
  \/ DhcpTurn \/ DhcpReset

Clients ==
  \/ Environment /\ UNCHANGED <<turn, pageVars>>
  \/ Page!Network /\ UNCHANGED <<turn, hseen, channelVars, led>>

BoardNext == Loop \/ Clients

BoardSpec == BoardInit /\ [][BoardNext]_boardVars

(* The super-loop runs for ever. *)
BoardFairSpec ==
  /\ BoardSpec
  /\ WF_boardVars(Loop)
  /\ NetworkFairness /\ Page!NetworkFairness

-----------------------------------------------------------------------------
(* Properties.                                                              *)

(* Each service runs on the board as it would alone, whatever the others do *)
(* to the LED, to the chip and to the time between its calls: what HttpdLed *)
(* and SecureCmd promise holds here.                                        *)
ChannelImplemented == Spec
PageImplemented == Page!Spec

(* httpd_led.c on a board that has other tasks: HttpdLed states these.      *)
ButtonsHonoured == Page!ButtonsHonoured
PageListensAgain == Page!ListensAgain

(* A blink of a command has the LED on. *)
Blinking == exec.lit \/ turn = "blink"

(* The running task executes a command that blinks. *)
BlinkRuns == turn = "blink" \/ (exec # NoCommand /\ Blinked(exec.cmd) > 0)

(* The LED that all services share shows what the buttons did and nothing   *)
(* else.  It is turned on by the page, for a connection that asks for it    *)
(* and has had no answer yet, or for the time of a blink, during which no   *)
(* other task runs; and when a task that blinked ends its turn the LED is   *)
(* off, whichever way it was before.                                        *)
OnlyButtonsLight ==
  [][/\ ~led /\ led' => (turn = "page" /\ Page!Pressed) \/ Blinking'
     /\ turn' # turn => ~exec'.lit /\ (BlinkRuns /\ ~Blinking' => ~led')]_boardVars
=============================================================================
