----------------------------- MODULE W5500Port -----------------------------
(***************************************************************************)
(* w5500_port.c under the SysTick interrupt: what an access to the W5500    *)
(* costs the clock.                                                         *)
(*                                                                         *)
(* The driver masks all interrupts, selects the chip, moves bytes over      *)
(* SPI2, and undoes both.  SysTick goes on meanwhile; it has one pending    *)
(* bit, so of several interrupts that fall into one access only one is      *)
(* served.  Time is counted in units, one byte on the SPI bus each.         *)
(***************************************************************************)
EXTENDS Integers

CONSTANTS
  Millisecond,   \* units in one millisecond
  Transfers      \* lengths of the accesses, address and control byte included

ASSUME PortAssumption ==
  /\ Millisecond \in Nat /\ Millisecond >= 2
  /\ Transfers \subseteq Nat \ {0}

VARIABLES
  level,          \* the output level that each GPIO pin is given
  hclk, reload,   \* MHz of the core; its cycles in one period, in thousands
  phase,          \* units since SysTick last came round
  pending,        \* its interrupt is pending
  primask,        \* all interrupts are masked
  bus, left,      \* how far the access is, and the bytes it has left
  held, missed,   \* in this access: units since the mask, interrupts lost
  delay           \* ticks that a HAL_Delay() still waits for

portVars == <<level, hclk, reload, phase, pending, primask, bus, left, held, missed,
              delay>>

Stages == {"idle", "masked", "selected", "over"}

(* The pins of the .ioc, by GPIO port. *)
SCS_Pin == "PA8"
RST_Pin == "PA15"
LED_Pin == "PI2"
GPIOA == {SCS_Pin, RST_Pin, "PA9"}
GPIOB == {"PB7", "PB14", "PB15"}
GPIOI == {"PI1", LED_Pin}
Pins == GPIOA \cup GPIOB \cup GPIOI

-----------------------------------------------------------------------------
(* SysTick.                                                                 *)

Period == (Millisecond * reload) \div hclk

TickDue == reload > 0 /\ phase + 1 >= Period

(* One unit goes by.  An interrupt that finds the last one still pending is *)
(* lost; the history counts those within an access.                         *)
Elapse ==
  /\ phase' = IF TickDue \/ reload = 0 THEN 0 ELSE phase + 1
  /\ pending' = (pending \/ TickDue)
  /\ missed' = IF TickDue /\ pending /\ bus # "idle" THEN missed + 1 ELSE missed

Preempts == pending /\ ~primask

(* HAL_IncTick().  The counter of the DHCP seconds is in module Boot. *)
SysTick_Handler ==
  /\ Preempts
  /\ pending' = FALSE
  /\ delay' = IF delay > 0 THEN delay - 1 ELSE 0
  /\ UNCHANGED <<level, hclk, reload, phase, primask, bus, left, held, missed>>

(* The CPU is busy elsewhere for a unit. *)
Pass ==
  /\ bus = "idle" /\ ~Preempts
  /\ Elapse
  /\ UNCHANGED <<level, hclk, reload, primask, bus, left, held, delay>>

-----------------------------------------------------------------------------
(* One access of the driver, through the callbacks that W5500_HW_Reset()    *)
(* registers.                                                               *)

W5500_CrisEnter ==
  /\ bus = "idle" /\ ~Preempts
  /\ primask' = TRUE
  /\ bus' = "masked" /\ left' \in Transfers
  /\ held' = 0 /\ missed' = 0
  /\ UNCHANGED <<level, hclk, reload, phase, pending, delay>>

W5500_CS_Select ==
  /\ bus = "masked" /\ bus' = "selected"
  /\ level' = [level EXCEPT ![SCS_Pin] = "low"]
  /\ UNCHANGED <<hclk, reload, phase, pending, primask, left, held, missed, delay>>

(* Mutant of W5500_SPI_Byte: the loop tests its count after the byte. *)
W5500_SPI_Byte_DoWhile ==
  /\ bus = "selected"
  /\ left' = left - 1 /\ held' = held + 1
  /\ Elapse
  /\ UNCHANGED <<level, hclk, reload, primask, bus, delay>>

(* HAL_SPI_TransmitReceive() of one byte, singly or in a burst. *)
W5500_SPI_Byte ==
  /\ bus = "selected" /\ left > 0
  /\ left' = left - 1 /\ held' = held + 1
  /\ Elapse
  /\ UNCHANGED <<level, hclk, reload, primask, bus, delay>>

W5500_CS_Deselect ==
  /\ bus = "selected" /\ left = 0 /\ bus' = "over"
  /\ level' = [level EXCEPT ![SCS_Pin] = "high"]
  /\ UNCHANGED <<hclk, reload, phase, pending, primask, left, held, missed, delay>>

(* Mutant of W5500_CrisExit: the mask stays. *)
W5500_CrisExit_Masked ==
  /\ bus = "over" /\ bus' = "idle"
  /\ UNCHANGED <<level, hclk, reload, phase, pending, primask, left, held, missed,
                 delay>>

W5500_CrisExit ==
  /\ bus = "over" /\ bus' = "idle"
  /\ primask' = FALSE
  /\ UNCHANGED <<level, hclk, reload, phase, pending, left, held, missed, delay>>

W5500_Transfer ==
  W5500_CS_Select \/ W5500_SPI_Byte \/ W5500_CS_Deselect \/ W5500_CrisExit

-----------------------------------------------------------------------------
PortTypeOK ==
  /\ level \in [Pins -> {"low", "high"}]
  /\ hclk \in Nat \ {0} /\ reload \in Nat
  /\ phase \in Nat /\ pending \in BOOLEAN /\ primask \in BOOLEAN
  /\ bus \in Stages /\ left \in Nat /\ held \in Nat /\ missed \in Nat
  /\ delay \in 0 .. 3
=============================================================================
