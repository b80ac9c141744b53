----------------------------- MODULE BootProofs -----------------------------
(* Proofs about Boot, for every value of its constants.                     *)
EXTENDS Boot, TLAPS

-----------------------------------------------------------------------------
(* The inductive invariant.                                                 *)

(* An address is asked about only after it was offered. *)
OfferInv ==
  /\ call # "none" => dhcp.state = "REQUEST"
  /\ dhcp.state \in {"REQUEST", "LEASED", "REREQUEST"} => dhcp.ip \in Addrs

(* The flag promises an address. *)
FlagInv == g_ip_assigned => chip.sipr # Zero

(* How late it may be, at each point where the loop may be.  The busy-wait   *)
(* began when the clock of the library stood still, and both run together.   *)
TimeInv ==
  ~booted =>
    /\ call = "none" =>
         gap <= MaxGap /\ uptime < BootTimeout + ArpTime + 2 + MaxGap + gap
    /\ call = "arp" => gap <= ArpTime /\ uptime < BootTimeout + gap
    /\ call = "decline" =>
         /\ gap <= 2 + MaxGap /\ (waited < 2 => gap = waited)
         /\ uptime < BootTimeout + ArpTime + gap

-----------------------------------------------------------------------------
(* What every step does to the types. *)

LEMMA Bounds == 0 \in 0..TickMax /\ 0 \in 0..MaxRetry
BY BootAssumption

LEMMA EnterType ==
  ASSUME TypeOK, NEW state \in DhcpStates
  PROVE  Enter(state) \in [state : DhcpStates, ip : Addrs \cup {Zero},
                           tick : 0..TickMax, retry : 0..MaxRetry]
BY Bounds DEF Enter, TypeOK

LEMMA TypeInit == Init => TypeOK
<1> SUFFICES ASSUME Init PROVE TypeOK
  OBVIOUS
<1>1. dhcp \in [state : DhcpStates, ip : Addrs \cup {Zero}, tick : 0..TickMax,
                retry : 0..MaxRetry]
  BY Bounds DEF Init, DhcpStates
<1>2. chip \in [sipr : Addrs \cup {Static, Zero}, udp : BOOLEAN]
  BY DEF Init, Unset
<1>3. /\ rx \in Messages \cup {Nothing} /\ waited \in 0..2
      /\ announced \in Addrs \cup {Static, Zero} /\ taken \in Addrs \cup {Zero}
      /\ uptime \in Nat /\ gap \in Nat
  BY DEF Init
<1>4. booted \in BOOLEAN /\ g_ip_assigned \in BOOLEAN
  BY DEF Init
<1>5. call \in {"none", "arp", "decline"} /\ asked \in {"NONE", "DISCOVER", "REQUEST"}
  BY DEF Init
<1> QED BY <1>1, <1>2, <1>3, <1>4, <1>5 DEF TypeOK

LEMMA TypeRun == TypeOK /\ DHCP_run => TypeOK'
<1> SUFFICES ASSUME TypeOK, DHCP_run PROVE TypeOK'
  OBVIOUS
<1> USE BootAssumption
<1>1. Nothing \in Messages \cup {Nothing} /\ 0 \in Nat
  OBVIOUS
<1>2. \A m \in Messages \cup {Nothing} : m.ip \in Addrs \cup {Zero}
  BY DEF Messages, Nothing
<1>3. \A m \in Messages \cup {Nothing} : m.type \in {"OFFER", "ACK"} => m.ip \in Addrs
  BY DEF Messages, Nothing
<1>4. Opened \in [sipr : Addrs \cup {Static, Zero}, udp : BOOLEAN]
  BY DEF Opened, TypeOK
<1> USE DEF Run, Polled, OpensOnly
<1>a. CASE Discover
  BY <1>a, <1>1, <1>4 DEF Discover, TypeOK, DhcpStates
<1>b. CASE Offered
  BY <1>b, <1>1, <1>3, <1>4 DEF Offered, TypeOK, DhcpStates
<1>c. CASE Acknowledged
  BY <1>c, <1>1, <1>4 DEF Acknowledged, TypeOK
<1>d. CASE Refused
  <2>1. dhcp' \in [state : DhcpStates, ip : Addrs \cup {Zero}, tick : 0..TickMax,
                   retry : 0..MaxRetry]
    BY <1>d, EnterType DEF Refused, DhcpStates
  <2> QED BY <1>d, <1>1, <1>4, <2>1 DEF Refused, TypeOK
<1>e. CASE Hold
  BY <1>e, <1>1, <1>4 DEF Hold, TypeOK
<1>f. CASE Renew
  <2>1. dhcp' \in [state : DhcpStates, ip : Addrs \cup {Zero}, tick : 0..TickMax,
                   retry : 0..MaxRetry]
    BY <1>f, EnterType DEF Renew, DhcpStates
  <2> QED BY <1>f, <1>1, <1>4, <2>1 DEF Renew, TypeOK
<1>g. CASE Renewed
  <2>1. rx.ip \in Addrs
    BY <1>g, <1>3 DEF Renewed, TypeOK
  <2>2. dhcp' \in [state : DhcpStates, ip : Addrs \cup {Zero}, tick : 0..TickMax,
                   retry : 0..MaxRetry]
    BY <1>g, <2>1, EnterType DEF Renewed, DhcpStates
  <2>3. /\ chip' \in [sipr : Addrs \cup {Static, Zero}, udp : BOOLEAN]
        /\ g_ip_assigned' \in BOOLEAN /\ taken' \in Addrs \cup {Zero}
    BY <1>g, <1>4, <2>1
       DEF Renewed, DHCP_IP_Updated, default_ip_update, Unset, TypeOK
  <2> QED BY <1>g, <1>1, <2>2, <2>3 DEF Renewed, TypeOK
<1>h. CASE Timeout
  <2>1. /\ dhcp' \in [state : DhcpStates, ip : Addrs \cup {Zero}, tick : 0..TickMax,
                      retry : 0..MaxRetry]
        /\ asked' \in {"NONE", "DISCOVER", "REQUEST"}
    <3>1. \A state \in {"INIT", "DISCOVER"} :
            Enter(state) \in [state : DhcpStates, ip : Addrs \cup {Zero},
                              tick : 0..TickMax, retry : 0..MaxRetry]
      BY EnterType DEF DhcpStates
    <3>2. dhcp.retry < MaxRetry =>
            [dhcp EXCEPT !.tick = 0, !.retry = @ + 1]
              \in [state : DhcpStates, ip : Addrs \cup {Zero}, tick : 0..TickMax,
                   retry : 0..MaxRetry]
      <4>1. dhcp.retry < MaxRetry => dhcp.retry + 1 \in 0..MaxRetry
        BY BootAssumption DEF TypeOK
      <4> QED BY <4>1, Bounds DEF TypeOK
    <3> QED BY <1>h, <3>1, <3>2 DEF Timeout, Request, TypeOK
  <2> QED BY <1>h, <1>1, <1>4, <2>1 DEF Timeout, TypeOK
<1> QED
  BY <1>a, <1>b, <1>c, <1>d, <1>e, <1>f, <1>g, <1>h DEF DHCP_run

LEMMA TypeRest ==
  TypeOK /\ (ArpUnique \/ ArpTaken \/ Declined \/ Configured \/ Second
             \/ Server \/ UNCHANGED vars) => TypeOK'
<1> SUFFICES ASSUME TypeOK,
                    \/ ArpUnique \/ ArpTaken \/ Declined \/ Configured \/ Second
                    \/ Server \/ UNCHANGED vars
             PROVE  TypeOK'
  OBVIOUS
<1> USE BootAssumption
<1>a. CASE ArpUnique
  <2>1. dhcp' \in [state : DhcpStates, ip : Addrs \cup {Zero}, tick : 0..TickMax,
                   retry : 0..MaxRetry]
    BY <1>a, EnterType DEF ArpUnique, DhcpStates
  <2>2. /\ chip' \in [sipr : Addrs \cup {Static, Zero}, udp : BOOLEAN]
        /\ g_ip_assigned' \in BOOLEAN
    BY <1>a DEF ArpUnique, DHCP_IP_Assigned, default_ip_assign, TypeOK
  <2>3. call' \in {"none", "arp", "decline"} /\ gap' \in Nat /\ taken' \in Addrs \cup {Zero}
    BY <1>a DEF ArpUnique
  <2> QED BY <1>a, <2>1, <2>2, <2>3 DEF ArpUnique, TypeOK
<1>b. CASE ArpTaken
  BY <1>b DEF ArpTaken, TypeOK
<1>c. CASE Declined
  <2>1. dhcp' \in [state : DhcpStates, ip : Addrs \cup {Zero}, tick : 0..TickMax,
                   retry : 0..MaxRetry]
    BY <1>c, EnterType DEF Declined, DhcpStates
  <2>2. /\ chip' \in [sipr : Addrs \cup {Static, Zero}, udp : BOOLEAN]
        /\ g_ip_assigned' \in BOOLEAN
    BY <1>c DEF Declined, DHCP_IP_Conflict, default_ip_conflict, Unset
  <2>3. /\ call' \in {"none", "arp", "decline"} /\ gap' \in Nat /\ waited' \in 0..2
        /\ rx' \in Messages \cup {Nothing}
    BY <1>c DEF Declined
  <2> QED BY <1>c, <2>1, <2>2, <2>3 DEF Declined, TypeOK
<1>d. CASE Configured
  BY <1>d DEF Configured, TypeOK
<1>e. CASE Second
  <2>1. dhcp' \in [state : DhcpStates, ip : Addrs \cup {Zero}, tick : 0..TickMax,
                   retry : 0..MaxRetry]
    <3>1. dhcp.tick \in 0..TickMax
      BY DEF TypeOK
    <3>2. (IF dhcp.tick < TickMax THEN dhcp.tick + 1 ELSE dhcp.tick) \in 0..TickMax
      BY <3>1
    <3> QED BY <1>e, <3>2 DEF Second, DHCP_time_handler, TypeOK
  <2>2. waited' \in 0..2
    BY <1>e DEF Second, DHCP_time_handler, TypeOK
  <2>3. uptime' \in Nat /\ gap' \in Nat
    BY <1>e DEF Second, Uptime, TypeOK
  <2> QED BY <1>e, <2>1, <2>2, <2>3 DEF Second, TypeOK
<1>f. CASE Server
  BY <1>f DEF Server, AnswerDiscover, AnswerRequest, LateAnswer, Arrives, TypeOK
<1>g. CASE UNCHANGED vars
  BY <1>g DEF vars, TypeOK
<1> QED BY <1>a, <1>b, <1>c, <1>d, <1>e, <1>f, <1>g

LEMMA TypeStep == TypeOK /\ [Next]_vars => TypeOK'
BY TypeRun, TypeRest DEF Next

(* Every variable keeps to its type. *)
THEOREM TypeCorrect == Spec => []TypeOK
BY TypeInit, TypeStep, PTL DEF Spec

-----------------------------------------------------------------------------
(* The address: what the library holds, what the chip has, what is taken.   *)

AddressInv == OfferInv /\ FlagInv /\ LeaseApplied /\ TakenVacated /\ AnnouncesAddress

LEMMA AddressInit == Init => AddressInv
BY DEF Init, AddressInv, OfferInv, FlagInv, LeaseApplied, TakenVacated, AnnouncesAddress

(* What a record of the library becomes. *)
LEMMA Entered ==
  ASSUME TypeOK, NEW state
  PROVE  Enter(state).state = state /\ Enter(state).ip = dhcp.ip
BY DEF Enter, TypeOK

(* A DHCP_run() that only opens its socket leaves the address alone. *)
LEMMA OpenedKeeps ==
  ASSUME TypeOK, OpensOnly
  PROVE  /\ chip'.sipr = chip.sipr
         /\ UNCHANGED <<g_ip_assigned, taken>>
BY DEF OpensOnly, Opened, TypeOK

LEMMA AddressRun == TypeOK /\ AddressInv /\ DHCP_run => AddressInv'
<1> SUFFICES ASSUME TypeOK, AddressInv, DHCP_run PROVE AddressInv'
  OBVIOUS
<1> USE DEF AddressInv, OfferInv, FlagInv, LeaseApplied, TakenVacated, AnnouncesAddress,
            Run, Polled
<1>1. \A m \in Messages \cup {Nothing} : m.type \in {"OFFER", "ACK"} => m.ip \in Addrs
  BY DEF Messages, Nothing
<1>2. rx \in Messages \cup {Nothing}
  BY DEF TypeOK
<1>a. CASE Discover
  <2>1. dhcp'.state = "DISCOVER"
    BY <1>a DEF Discover, TypeOK
  <2> QED BY <1>a, <2>1, OpenedKeeps DEF Discover
<1>b. CASE Offered
  <2>1. dhcp'.state = "REQUEST" /\ dhcp'.ip \in Addrs
    BY <1>b, <1>1, <1>2 DEF Offered, TypeOK
  <2> QED BY <1>b, <2>1, OpenedKeeps DEF Offered
<1>c. CASE Acknowledged
  BY <1>c, OpenedKeeps DEF Acknowledged
<1>d. CASE Refused
  BY <1>d, OpenedKeeps, Entered DEF Refused
<1>e. CASE Hold
  BY <1>e, OpenedKeeps DEF Hold
<1>f. CASE Renew
  BY <1>f, OpenedKeeps, Entered DEF Renew
<1>g. CASE Renewed
  <2>1. dhcp'.state = "LEASED" /\ dhcp'.ip = rx.ip /\ rx.ip \in Addrs
    BY <1>g, <1>1, <1>2, Entered DEF Renewed, Enter, TypeOK
  <2>2. CASE rx.ip = dhcp.ip /\ OpensOnly
    BY <1>g, <2>1, <2>2, OpenedKeeps DEF Renewed
  <2>3. CASE DHCP_IP_Updated(rx.ip) /\ taken' = Zero
    <3>1. chip'.sipr = rx.ip /\ g_ip_assigned'
      BY <2>3 DEF DHCP_IP_Updated, default_ip_update, Unset
    <3> QED BY <1>g, <2>1, <2>3, <3>1, BootAssumption DEF Renewed
  <2> QED BY <1>g, <2>2, <2>3 DEF Renewed
<1>h. CASE Timeout
  <2>1. \/ dhcp' = dhcp
        \/ dhcp'.state = dhcp.state /\ dhcp'.ip = dhcp.ip
        \/ dhcp'.state \in {"INIT", "DISCOVER"}
    <3>1. dhcp' = [dhcp EXCEPT !.tick = 0, !.retry = @ + 1]
            => dhcp'.state = dhcp.state /\ dhcp'.ip = dhcp.ip
      BY DEF TypeOK
    <3>2. dhcp' \in {dhcp, [dhcp EXCEPT !.tick = 0, !.retry = @ + 1], Enter("INIT"),
                    Enter("DISCOVER")}
      BY <1>h DEF Timeout
    <3> QED BY <3>1, <3>2, Entered
  <2>2. chip'.sipr = chip.sipr /\ UNCHANGED <<g_ip_assigned, taken>>
    BY <1>h, OpenedKeeps DEF Timeout
  <2> QED BY <1>h, <2>1, <2>2 DEF Timeout
<1> QED
  BY <1>a, <1>b, <1>c, <1>d, <1>e, <1>f, <1>g, <1>h DEF DHCP_run

LEMMA AddressRest ==
  TypeOK /\ AddressInv /\ (ArpUnique \/ ArpTaken \/ Declined \/ Configured \/ Second
             \/ Server \/ UNCHANGED vars) => AddressInv'
<1> SUFFICES ASSUME TypeOK, AddressInv,
                    \/ ArpUnique \/ ArpTaken \/ Declined \/ Configured \/ Second
                    \/ Server \/ UNCHANGED vars
             PROVE  AddressInv'
  OBVIOUS
<1> USE DEF AddressInv, OfferInv, FlagInv, LeaseApplied, TakenVacated, AnnouncesAddress
<1>a. CASE ArpUnique
  <2>1. dhcp'.state = "LEASED" /\ dhcp'.ip = dhcp.ip /\ dhcp.ip \in Addrs
    BY <1>a, Entered DEF ArpUnique
  <2>2. chip'.sipr = dhcp.ip /\ g_ip_assigned'
    BY <1>a DEF ArpUnique, DHCP_IP_Assigned, default_ip_assign, TypeOK
  <2> QED BY <1>a, <2>1, <2>2, BootAssumption DEF ArpUnique
<1>b. CASE ArpTaken
  BY <1>b DEF ArpTaken
<1>c. CASE Declined
  <2>1. dhcp'.state = "INIT"
    BY <1>c, Entered DEF Declined
  <2>2. chip'.sipr = Zero /\ ~g_ip_assigned'
    BY <1>c DEF Declined, DHCP_IP_Conflict, default_ip_conflict, Unset
  <2> QED BY <1>c, <2>1, <2>2 DEF Declined
<1>d. CASE Configured
  <2>1. chip'.sipr = IF g_ip_assigned THEN chip.sipr ELSE Static
    BY <1>d DEF Configured, TypeOK
  <2>2. CASE g_ip_assigned
    BY <1>d, <2>1, <2>2 DEF Configured
  <2>3. CASE ~g_ip_assigned
    <3>1. chip'.sipr = Static /\ announced' = Static /\ booted' /\ ~g_ip_assigned'
      BY <1>d, <2>1, <2>3 DEF Configured
    <3> QED BY <1>d, <2>3, <3>1, BootAssumption DEF Configured
  <2> QED BY <2>2, <2>3
<1>e. CASE Second
  <2>1. dhcp'.state = dhcp.state /\ dhcp'.ip = dhcp.ip
    BY <1>e DEF Second, DHCP_time_handler, TypeOK
  <2> QED BY <1>e, <2>1 DEF Second
<1>f. CASE Server
  BY <1>f DEF Server, AnswerDiscover, AnswerRequest, LateAnswer, Arrives
<1>g. CASE UNCHANGED vars
  BY <1>g DEF vars
<1> QED BY <1>a, <1>b, <1>c, <1>d, <1>e, <1>f, <1>g

LEMMA AddressStep == TypeOK /\ AddressInv /\ [Next]_vars => AddressInv'
BY AddressRun, AddressRest DEF Next

LEMMA AddressCorrect == Spec => []AddressInv
<1>1. TypeOK /\ TypeOK' /\ AddressInv /\ [Next]_vars => AddressInv'
  BY AddressStep
<1> QED BY <1>1, AddressInit, TypeCorrect, PTL DEF Spec

(* A lease is what the chip answers to, whatever fallbacks, renewals and     *)
(* chip resets came before.                                                  *)
THEOREM LeaseIsApplied == Spec => []LeaseApplied
BY AddressCorrect, PTL DEF AddressInv

(* An address found in use is given up, and comes back only as the static    *)
(* fallback of a boot without a lease.                                       *)
THEOREM TakenIsVacated == Spec => []TakenVacated
BY AddressCorrect, PTL DEF AddressInv

(* The board never comes up without an address. *)
THEOREM AnAddressIsAnnounced == Spec => []AnnouncesAddress
BY AddressCorrect, PTL DEF AddressInv

-----------------------------------------------------------------------------
(* The time it takes to boot.                                               *)

LEMMA TimeInit == Init => TimeInv
BY BootAssumption DEF Init, TimeInv

LEMMA TimeStep == TypeOK /\ TimeInv /\ [Next]_vars => TimeInv'
<1> SUFFICES ASSUME TypeOK, TimeInv, [Next]_vars PROVE TimeInv'
  OBVIOUS
<1> USE BootAssumption
<1>1. uptime \in Nat /\ gap \in Nat /\ waited \in 0..2 /\ booted \in BOOLEAN
      /\ call \in {"none", "arp", "decline"}
  BY DEF TypeOK
<1>a. CASE DHCP_run
  <2>1. /\ ~booted => uptime < BootTimeout
        /\ gap' = 0 /\ call' \in {"none", "arp"} /\ UNCHANGED <<booted, uptime, waited>>
    BY <1>a DEF DHCP_run, Run, Polled, Discover, Offered, Acknowledged, Refused, Hold,
                Renew, Renewed, Timeout
  <2> QED BY <1>1, <2>1 DEF TimeInv
<1>b. CASE ArpUnique
  BY <1>b, <1>1 DEF ArpUnique, TimeInv
<1>c. CASE ArpTaken
  BY <1>c, <1>1 DEF ArpTaken, TimeInv
<1>d. CASE Declined
  BY <1>d, <1>1 DEF Declined, TimeInv
<1>e. CASE Configured
  BY <1>e DEF Configured, TimeInv
<1>f. CASE Second
  BY <1>f, <1>1 DEF Second, Punctual, Uptime, DHCP_time_handler, TimeInv
<1>g. CASE Server
  BY <1>g DEF Server, AnswerDiscover, AnswerRequest, LateAnswer, Arrives, TimeInv
<1>h. CASE UNCHANGED vars
  BY <1>h DEF vars, TimeInv
<1> QED BY <1>a, <1>b, <1>c, <1>d, <1>e, <1>f, <1>g, <1>h DEF Next

LEMMA TimeIsEnough == TypeOK /\ TimeInv => BootBounded
BY BootAssumption DEF TypeOK, TimeInv, BootBounded

(* Network_Config() does not wait longer than its timeout and one DHCP_run().*)
THEOREM BootIsBounded == Spec => []BootBounded
<1>1. TypeOK /\ TimeInv /\ [Next]_vars => TimeInv'
  BY TimeStep
<1> QED BY <1>1, TimeInit, TimeIsEnough, TypeCorrect, PTL DEF Spec
=============================================================================
