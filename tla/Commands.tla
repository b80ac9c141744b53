------------------------------ MODULE Commands ------------------------------
(***************************************************************************)
(* The command interpreter of the firmware: handle_command() and           *)
(* do_blink(), which mqtt_client.c and secure_cmd.c each hold a copy of.    *)
(*                                                                         *)
(* A command is [verb, arg].  `verb' is what the two strncmp() calls tell   *)
(* apart and `arg' is what strtoul() finds after "BLINK": the integer that  *)
(* is written there (of either sign and of any size), or NoDigits.          *)
(* Everything is a pure function of the command and of the blink counter,   *)
(* so that each service can keep its own counter, as the code does.         *)
(***************************************************************************)
EXTENDS Integers

CONSTANTS
  ULONG_MAX,   \* largest unsigned long (and uint32_t) of the target
  BLINK_MAX,   \* longest blink run a single command may ask for
  BLINK_MS,    \* BLINK_ON_MS + BLINK_OFF_MS, in the unit of the clock
  NoDigits     \* strtoul() converted nothing: endp == cmd + 5

ASSUME CommandsAssumption ==
  /\ ULONG_MAX \in Nat
  /\ BLINK_MAX \in Nat /\ BLINK_MAX <= ULONG_MAX
  /\ BLINK_MS \in Nat
  /\ NoDigits \notin Int

Verbs == {"BLINK", "COUNT", "OTHER"}
Commands == [verb : Verbs, arg : Int \cup {NoDigits}]
Ulongs == 0 .. ULONG_MAX

(* C's strtoul(): saturates on overflow, negates modulo 2^w on a minus sign. *)
strtoul(v) ==
  IF v > ULONG_MAX \/ -v > ULONG_MAX THEN ULONG_MAX
  ELSE IF v >= 0 THEN v ELSE v + ULONG_MAX + 1

(* Addition of the 32-bit counter s_total_blinks. *)
Wrap(t) == IF t > ULONG_MAX THEN t - ULONG_MAX - 1 ELSE t

(* Mutant of do_blink: no cap. *)
do_blink_NoCap(n) == n

(* How often do_blink(n) really blinks the LED. *)
do_blink(n) == IF n > BLINK_MAX THEN BLINK_MAX ELSE n

(* A BLINK the interpreter executes, as opposed to answering ERR BADCMD. *)
Blinks(c) ==
  /\ c.verb = "BLINK"
  /\ c.arg # NoDigits
  /\ strtoul(c.arg) # 0

(* handle_command(): what is blinked, the counter afterwards and the reply. *)
Blinked(c) == IF Blinks(c) THEN do_blink(strtoul(c.arg)) ELSE 0

TotalAfter(c, total) == Wrap(total + Blinked(c))

Reply(c, total) ==
  IF Blinks(c)
  THEN [kind |-> "OK BLINKED", n |-> strtoul(c.arg), total |-> TotalAfter(c, total)]
  ELSE IF c.verb = "COUNT"
  THEN [kind |-> "COUNT", n |-> 0, total |-> total]
  ELSE [kind |-> "ERR BADCMD", n |-> 0, total |-> 0]

Replies == [kind : {"OK BLINKED", "COUNT", "ERR BADCMD"},
            n : Ulongs, total : Ulongs]
=============================================================================
