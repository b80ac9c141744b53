--------------------------- MODULE CommandsProofs ---------------------------
(* Facts about the command interpreter, for every width of the counter.     *)
EXTENDS Commands, TLAPS

(* strtoul() yields an unsigned long, whatever integer was written. *)
LEMMA StrtoulType == ASSUME NEW v \in Int PROVE strtoul(v) \in Ulongs
  BY CommandsAssumption DEF strtoul, Ulongs

(* No command blinks longer than BLINK_MAX. *)
LEMMA BlinkedType == ASSUME NEW c \in Commands PROVE Blinked(c) \in 0 .. BLINK_MAX
<1>1. CASE Blinks(c)
  <2>1. strtoul(c.arg) \in Ulongs
    BY <1>1, StrtoulType DEF Blinks, Commands
  <2> QED BY <1>1, <2>1, CommandsAssumption DEF Blinked, do_blink, Ulongs
<1>2. CASE ~Blinks(c)
  BY <1>2, CommandsAssumption DEF Blinked
<1> QED BY <1>1, <1>2

(* s_total_blinks stays a 32-bit counter: it wraps instead of overflowing. *)
LEMMA TotalType ==
  ASSUME NEW c \in Commands, NEW total \in Ulongs
  PROVE  TotalAfter(c, total) \in Ulongs
  BY BlinkedType, CommandsAssumption DEF TotalAfter, Wrap, Ulongs

(* Every command has a reply, and it is one of the four that exist. *)
LEMMA ReplyType ==
  ASSUME NEW c \in Commands, NEW total \in Ulongs
  PROVE  Reply(c, total) \in Replies
<1>1. TotalAfter(c, total) \in Ulongs /\ 0 \in Ulongs
  BY TotalType, CommandsAssumption DEF Ulongs
<1>2. Blinks(c) => strtoul(c.arg) \in Ulongs
  BY StrtoulType DEF Blinks, Commands
<1> QED BY <1>1, <1>2 DEF Reply, Replies

(* While a command blinks, the clock advances by a bounded time. *)
LEMMA BlinkTime ==
  ASSUME NEW c \in Commands
  PROVE  BLINK_MS * Blinked(c) \in 0 .. BLINK_MAX * BLINK_MS
<1> DEFINE b == Blinked(c)
<1>1. b \in 0 .. BLINK_MAX
  BY BlinkedType
<1>2. BLINK_MS * b \in Nat
  BY <1>1, CommandsAssumption
<1>3. BLINK_MS * b <= BLINK_MAX * BLINK_MS
  BY <1>1, CommandsAssumption
<1> QED BY <1>2, <1>3, CommandsAssumption
=============================================================================
