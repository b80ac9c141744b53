-------------------------------- MODULE Boot --------------------------------
(***************************************************************************)
(* main.c and the SysTick interrupt: the board gets an address.             *)
(*                                                                         *)
(* Network_Config() polls the WIZnet DHCP library until it has a lease or   *)
(* BootTimeout seconds are over, falls back on a static address, and the    *)
(* super-loop goes on polling.  A call of DHCP_run() may block twice: in    *)
(* sendto(), while the chip asks by ARP whether the offered address is in   *)
(* use (call = "arp"), and in a busy-wait on the seconds that the SysTick   *)
(* interrupt counts for the library (call = "decline").  Time is in         *)
(* seconds: Second stands for a thousand interrupts.                        *)
(***************************************************************************)
EXTENDS Integers

CONSTANTS
  Addrs,         \* what DHCP servers may give out
  Static,        \* STATIC_IP: of the router's subnet, so that it may be in Addrs
  Zero,          \* 0.0.0.0
  BootTimeout,   \* 15
  Wait,          \* DHCP_WAIT_TIME of the library
  MaxRetry,      \* MAX_DHCP_RETRY of the library
  HalfLease,     \* half of the lease time
  ArpTime,       \* how long the chip repeats an ARP request
  MaxGap,        \* seconds between two steps of the boot loop
  TickMax        \* bound: dhcp_tick_1s counts no further

ASSUME BootAssumption ==
  /\ Zero \notin Addrs /\ Static # Zero
  /\ BootTimeout \in Nat \ {0} /\ Wait \in Nat /\ MaxRetry \in Nat
  /\ HalfLease \in Nat /\ ArpTime \in Nat /\ MaxGap \in Nat
  /\ TickMax \in Nat /\ TickMax > Wait /\ TickMax > HalfLease

VARIABLES
  booted,         \* Network_Config() has returned
  g_ip_assigned,
  chip,           \* SIPR, and whether the DHCP socket is open
  dhcp,           \* the library: state, DHCP_allocated_ip, dhcp_tick_1s, retries
  call,           \* where a DHCP_run() blocks
  waited,         \* seconds counted since the busy-wait began
  rx,             \* the message in the DHCP socket
  asked,          \* the request that the servers have not answered yet
  announced,      \* the address in the banner
  taken,          \* the address that the last ARP found in use
  uptime, gap     \* while booting: seconds since `start', and since the last step

vars == <<booted, g_ip_assigned, chip, dhcp, call, waited, rx, asked, announced,
          taken, uptime, gap>>

DhcpStates == {"INIT", "DISCOVER", "REQUEST", "LEASED", "REREQUEST"}
Messages == [type : {"OFFER", "ACK"}, ip : Addrs] \cup [type : {"NAK"}, ip : {Zero}]
Nothing == [type |-> "NONE", ip |-> Zero]

-----------------------------------------------------------------------------
(* Registers, and the callbacks of main.c.                                  *)

Unset == [sipr |-> Zero, udp |-> FALSE]

default_ip_assign(ip) == [chip EXCEPT !.sipr = ip]

(* A software reset closes every socket and clears SIPR. *)
default_ip_update(ip) == [Unset EXCEPT !.sipr = ip]
default_ip_conflict == Unset

(* Mutant of DHCP_IP_Assigned: the library's own handler is not called, as    *)
(* the comment in the code tells of an earlier version.                      *)
DHCP_IP_Assigned_Bare ==
  /\ UNCHANGED chip
  /\ g_ip_assigned' = TRUE

DHCP_IP_Assigned ==
  /\ chip' = default_ip_assign(dhcp.ip)
  /\ g_ip_assigned' = TRUE

DHCP_IP_Updated(ip) ==
  /\ chip' = default_ip_update(ip)
  /\ g_ip_assigned' = TRUE

(* Mutants of DHCP_IP_Conflict: the library's own handler is not called; the *)
(* flag is set as in the other two callbacks.                                *)
DHCP_IP_Conflict_Flagged ==
  /\ chip' = default_ip_conflict
  /\ g_ip_assigned' = TRUE
DHCP_IP_Conflict_Bare ==
  /\ UNCHANGED chip
  /\ g_ip_assigned' = FALSE

DHCP_IP_Conflict ==
  /\ chip' = default_ip_conflict
  /\ g_ip_assigned' = FALSE

-----------------------------------------------------------------------------
(* W5500_HW_Reset(), wizchip_setnetinfo() with zeros, DHCP_init(). *)
Init ==
  /\ booted = FALSE /\ g_ip_assigned = FALSE /\ chip = Unset
  /\ dhcp = [state |-> "INIT", ip |-> Zero, tick |-> 0, retry |-> 0]
  /\ call = "none" /\ waited = 0 /\ rx = Nothing /\ asked = "NONE"
  /\ announced = Zero /\ taken = Zero /\ uptime = 0 /\ gap = 0

-----------------------------------------------------------------------------
(* DHCP_run().                                                              *)

(* Mutant of Polled: the super-loop only renews. *)
Polled_Renewals ==
  /\ call = "none"
  /\ g_ip_assigned \/ (~booted /\ uptime < BootTimeout)

(* The loop of Network_Config(), or the super-loop, calls DHCP_run(). *)
Polled ==
  /\ call = "none"
  /\ booted \/ (~g_ip_assigned /\ uptime < BootTimeout)

(* Every call reopens the socket if it is closed, and takes a message. *)
Run ==
  /\ Polled
  /\ rx' = Nothing /\ gap' = 0
  /\ UNCHANGED <<booted, waited, announced, uptime>>

Opened == [chip EXCEPT !.udp = TRUE]
OpensOnly == chip' = Opened /\ UNCHANGED <<g_ip_assigned, taken>>

Enter(state) == [dhcp EXCEPT !.state = state, !.tick = 0, !.retry = 0]

Discover ==
  /\ Run /\ dhcp.state = "INIT"
  /\ dhcp' = [dhcp EXCEPT !.state = "DISCOVER", !.ip = Zero]
  /\ asked' = "DISCOVER"
  /\ OpensOnly /\ UNCHANGED call

Offered ==
  /\ Run /\ dhcp.state = "DISCOVER" /\ rx.type = "OFFER"
  /\ dhcp' = [dhcp EXCEPT !.state = "REQUEST", !.ip = rx.ip]
  /\ asked' = "REQUEST"
  /\ OpensOnly /\ UNCHANGED call

(* check_DHCP_leasedIP() sends a datagram to the address. *)
Acknowledged ==
  /\ Run /\ dhcp.state = "REQUEST" /\ rx.type = "ACK"
  /\ call' = "arp"
  /\ OpensOnly /\ UNCHANGED <<dhcp, asked>>

(* Nothing is sent before the next timeout. *)
Refused ==
  /\ Run /\ dhcp.state \in {"REQUEST", "REREQUEST"} /\ rx.type = "NAK"
  /\ dhcp' = Enter("DISCOVER")
  /\ OpensOnly /\ UNCHANGED <<call, asked>>

Hold ==
  /\ Run /\ dhcp.state = "LEASED" /\ dhcp.tick <= HalfLease
  /\ OpensOnly /\ UNCHANGED <<dhcp, call, asked>>

Renew ==
  /\ Run /\ dhcp.state = "LEASED" /\ dhcp.tick > HalfLease
  /\ dhcp' = Enter("REREQUEST")
  /\ asked' = "REQUEST"
  /\ OpensOnly /\ UNCHANGED call

(* A renewal may bring another address, which no ARP checks. *)
Renewed ==
  /\ Run /\ dhcp.state = "REREQUEST" /\ rx.type = "ACK"
  /\ dhcp' = [Enter("LEASED") EXCEPT !.ip = rx.ip]
  /\ \/ rx.ip = dhcp.ip /\ OpensOnly
     \/ rx.ip # dhcp.ip /\ DHCP_IP_Updated(rx.ip) /\ taken' = Zero
  /\ UNCHANGED <<call, asked>>

Expected == CASE dhcp.state = "DISCOVER" -> {"OFFER"}
              [] dhcp.state = "REQUEST" -> {"ACK", "NAK"}
              [] dhcp.state = "REREQUEST" -> {"ACK", "NAK"}
              [] OTHER -> {}

Request == IF dhcp.state = "DISCOVER" THEN "DISCOVER" ELSE "REQUEST"

(* check_DHCP_timeout(): wait, send again, or start over. *)
Timeout ==
  /\ Run
  /\ dhcp.state \in {"DISCOVER", "REQUEST", "REREQUEST"} /\ rx.type \notin Expected
  /\ \/ /\ dhcp.retry < MaxRetry /\ dhcp.tick <= Wait
        /\ UNCHANGED <<dhcp, asked>>
     \/ /\ dhcp.retry < MaxRetry /\ dhcp.tick > Wait
        /\ dhcp' = [dhcp EXCEPT !.tick = 0, !.retry = @ + 1]
        /\ asked' = Request
     \/ /\ dhcp.retry >= MaxRetry /\ dhcp.state = "DISCOVER"
        /\ dhcp' = Enter("INIT") /\ UNCHANGED asked
     \/ /\ dhcp.retry >= MaxRetry /\ dhcp.state # "DISCOVER"
        /\ dhcp' = Enter("DISCOVER") /\ asked' = "DISCOVER"
  /\ OpensOnly /\ UNCHANGED call

DHCP_run == \/ Discover \/ Offered \/ Acknowledged \/ Refused
            \/ Hold \/ Renew \/ Renewed \/ Timeout

(* Nobody answers the ARP request: the address is ours. *)
ArpUnique ==
  /\ call = "arp" /\ call' = "none" /\ gap' = 0
  /\ DHCP_IP_Assigned
  /\ dhcp' = Enter("LEASED") /\ taken' = Zero
  /\ UNCHANGED <<booted, waited, rx, asked, announced, uptime>>

(* Somebody has the address, or sendto() fails: DECLINE, and wait. *)
ArpTaken ==
  /\ call = "arp" /\ call' = "decline" /\ gap' = 0 /\ waited' = 0
  /\ taken' = dhcp.ip
  /\ UNCHANGED <<booted, g_ip_assigned, chip, dhcp, rx, asked, announced, uptime>>

(* The busy-wait is over: start again. *)
Declined ==
  /\ call = "decline" /\ waited >= 2
  /\ call' = "none" /\ gap' = 0 /\ waited' = 0
  /\ DHCP_IP_Conflict
  /\ dhcp' = Enter("INIT")
  /\ rx' = Nothing
  /\ UNCHANGED <<booted, asked, announced, taken, uptime>>

-----------------------------------------------------------------------------
(* The end of Network_Config(), and the banner.  No ARP checks STATIC_IP.    *)
Configured ==
  /\ ~booted /\ call = "none"
  /\ g_ip_assigned \/ uptime >= BootTimeout
  /\ booted' = TRUE /\ uptime' = 0 /\ gap' = 0
  /\ chip' = IF g_ip_assigned THEN chip ELSE [chip EXCEPT !.sipr = Static]
  /\ announced' = chip'.sipr
  /\ UNCHANGED <<g_ip_assigned, dhcp, call, waited, rx, asked, taken>>

(* The boot loop is fast, the chip gives up after ArpTime, and the busy-wait *)
(* ends when it may.  After boot a call waits for the other tasks.           *)
Punctual ==
  \/ booted
  \/ call = "none" /\ gap < MaxGap
  \/ call = "arp" /\ gap < ArpTime
  \/ call = "decline" /\ (waited < 2 \/ gap < 2 + MaxGap)

DHCP_time_handler ==
  /\ dhcp' = [dhcp EXCEPT !.tick = IF @ < TickMax THEN @ + 1 ELSE @]
  /\ waited' = IF call = "decline" /\ waited < 2 THEN waited + 1 ELSE waited

Uptime == IF booted THEN UNCHANGED <<uptime, gap>>
                    ELSE uptime' = uptime + 1 /\ gap' = gap + 1

(* Mutant of Second: DHCP_time_handler() is called from the loop, which does *)
(* not turn while DHCP_run() blocks.                                         *)
Second_FromLoop ==
  /\ Punctual /\ Uptime
  /\ IF call = "none" THEN DHCP_time_handler ELSE UNCHANGED <<dhcp, waited>>
  /\ UNCHANGED <<booted, g_ip_assigned, chip, call, rx, asked, announced, taken>>

(* SysTick_Handler(), until dhcp_ms_counter has come round. *)
Second ==
  /\ Punctual /\ Uptime
  /\ DHCP_time_handler
  /\ UNCHANGED <<booted, g_ip_assigned, chip, call, rx, asked, announced, taken>>

-----------------------------------------------------------------------------
(* DHCP servers.  Answers may be lost, late or repeated.                    *)

Arrives(m) ==
  /\ chip.udp /\ rx = Nothing /\ rx' = m
  /\ UNCHANGED <<booted, g_ip_assigned, chip, dhcp, call, waited, announced,
                 taken, uptime, gap>>

AnswerDiscover ==
  /\ asked = "DISCOVER" /\ asked' = "NONE"
  /\ \E m \in Messages : m.type = "OFFER" /\ Arrives(m)

AnswerRequest ==
  /\ asked = "REQUEST" /\ asked' = "NONE"
  /\ \E m \in Messages : m.type = "ACK" /\ Arrives(m)

LateAnswer == (\E m \in Messages : Arrives(m)) /\ UNCHANGED asked

Server == AnswerDiscover \/ AnswerRequest \/ LateAnswer

-----------------------------------------------------------------------------
Next == \/ DHCP_run \/ ArpUnique \/ ArpTaken \/ Declined
        \/ Configured \/ Second \/ Server

Spec == Init /\ [][Next]_vars

(* The loops turn, the clock runs, the chip ends its ARP.  A server that is  *)
(* asked again and again answers in time now and then.                       *)
FairSpec ==
  /\ Spec
  /\ WF_vars(DHCP_run) /\ WF_vars(Configured) /\ WF_vars(Declined)
  /\ WF_vars(ArpUnique \/ ArpTaken) /\ WF_vars(Second)
  /\ SF_vars(dhcp.state = "DISCOVER" /\ AnswerDiscover)
  /\ SF_vars(dhcp.state \in {"REQUEST", "REREQUEST"} /\ AnswerRequest)

-----------------------------------------------------------------------------
(* Properties.                                                              *)

(* The types of the variables. *)
TypeOK ==
  /\ booted \in BOOLEAN /\ g_ip_assigned \in BOOLEAN
  /\ chip \in [sipr : Addrs \cup {Static, Zero}, udp : BOOLEAN]
  /\ dhcp \in [state : DhcpStates, ip : Addrs \cup {Zero}, tick : 0..TickMax,
               retry : 0..MaxRetry]
  /\ call \in {"none", "arp", "decline"} /\ waited \in 0..2
  /\ rx \in Messages \cup {Nothing}
  /\ asked \in {"NONE", "DISCOVER", "REQUEST"}
  /\ announced \in Addrs \cup {Static, Zero} /\ taken \in Addrs \cup {Zero}
  /\ uptime \in Nat /\ gap \in Nat

(* main.c:158: the board boots without a DHCP server, and with one whose     *)
(* addresses are in use: Network_Config() returns soon after BootTimeout,    *)
(* however a DHCP_run() that began before blocks.                            *)
BootBounded ==
  ~booted => uptime < BootTimeout + ArpTime + 2 + 2 * MaxGap

(* While the library holds a lease the chip answers to that very address,    *)
(* through static fallbacks, renewals, changes and chip resets.              *)
LeaseApplied ==
  dhcp.state \in {"LEASED", "REREQUEST"}
    => g_ip_assigned /\ chip.sipr = dhcp.ip

(* An address that another host was found to use is given up, even when the  *)
(* board had it from an earlier lease: the board answers to it again only    *)
(* when it is STATIC_IP, applied unchecked at the end of a boot without a    *)
(* lease, and only until there is a lease.                                   *)
TakenVacated ==
  call # "decline" /\ taken # Zero /\ chip.sipr = taken
    => booted /\ taken = Static /\ announced = Static /\ ~g_ip_assigned

(* The board never comes up without an address. *)
AnnouncesAddress == booted => announced # Zero

(* From some point on no address is refused or found in use. *)
Orderly == <>[][~ArpTaken /\ (rx = Nothing => rx'.type # "NAK")]_vars

(* A lease is obtained, and again and again renewed, also when the server    *)
(* appears after the board has fallen back on its static address.            *)
GetsLease == Orderly => []<>(dhcp.state = "LEASED")
=============================================================================
