------------------------------ MODULE Bringup ------------------------------
(***************************************************************************)
(* main() up to the super-loop: memory protection, clocks, pins, SPI2, the  *)
(* console, the reset of the W5500 and its first registers, and from then   *)
(* on one access to the chip after another.                                 *)
(*                                                                         *)
(* Every call that may fail ends in Error_Handler() when it does.  The code *)
(* runs in an order that nothing but main() fixes; SysTick runs beside it   *)
(* as soon as HAL_Init() starts it.                                         *)
(***************************************************************************)
EXTENDS W5500Port

VARIABLES
  pc,           \* what main() does next
  denied,       \* slices of 512 MB that the MPU forbids
  clocks,       \* peripherals whose clock is on
  rcc,          \* PLL, over-drive, flash latency, the dividers of the buses
  mode,         \* the function of each pin
  huart1,       \* the bus clock that the console's rate is made for; 0: off
  ready,        \* of SPI2, its handle in w5500_port.c, and the callbacks
  pulse, settled  \* units that RST was low, and high since; no more than a ms

boardVars == <<denied, clocks, rcc, mode, huart1, ready>>
vars == <<portVars, boardVars, pc, pulse, settled>>

Steps == {"reset", "hal", "osc", "overdrive", "sysclk", "systick", "gpio",
          "level", "rst", "scs", "led", "spi", "uart", "banner", "port",
          "hw_reset", "low", "high", "chip", "mac", "loop", "halted"}

HSI_VALUE == 16
PLLM == 8
PLLN == 216
PLLP == 2
PLLQ == 9
FLASH_LATENCY_7 == 7

Peripherals == {"PWR", "SYSCFG", "GPIOA", "GPIOB", "GPIOI", "SPI2", "USART1"}
Functions == {"reset", "output", "SPI2", "USART1"}
Parts == {"SPI2", "hspi", "callbacks"}

(* Flash, SRAM, the peripherals, and the core's own registers. *)
Used == {0, 1, 2, 7}

-----------------------------------------------------------------------------
(* Power on.  SystemInit() leaves the clocks as reset does. *)
Init ==
  /\ pc = "reset" /\ denied = {} /\ clocks = {}
  /\ rcc = [pll |-> 0, pll48 |-> 0, over |-> FALSE, latency |-> 0, apb2 |-> 1]
  /\ mode = [p \in Pins |-> "reset"] /\ level = [p \in Pins |-> "low"]
  /\ huart1 = 0 /\ ready = {}
  /\ pulse = 0 /\ settled = 0
  /\ hclk = HSI_VALUE /\ reload = 0 /\ phase = 0 /\ pending = FALSE
  /\ primask = FALSE /\ bus = "idle" /\ left = 0 /\ held = 0 /\ missed = 0
  /\ delay = 0

-----------------------------------------------------------------------------
(* The steps of main(): none while an interrupt is due, and none once the   *)
(* MPU forbids what the firmware needs.                                     *)

Step(from, to) ==
  /\ pc = from /\ pc' = to
  /\ ~Preempts /\ bus = "idle" /\ denied \cap Used = {}
  /\ UNCHANGED <<phase, pending, bus, left, held, missed, pulse, settled>>

(* A step that starts no HAL_Delay() and leaves core clock and mask alone. *)
Simple(from, to) == Step(from, to) /\ UNCHANGED <<hclk, reload, primask, delay>>

Error_Handler(from) ==
  /\ Step(from, "halted")
  /\ primask' = TRUE
  /\ UNCHANGED <<hclk, reload, delay, level, boardVars>>

(* Mutant of MPU_Config: no sub-region is left out. *)
MPU_Config_All ==
  /\ Simple("reset", "hal")
  /\ denied' = 0 .. 7
  /\ UNCHANGED <<clocks, rcc, mode, level, huart1, ready>>

(* One region of 4 GB without access, sub-regions 0, 1, 2 and 7 (0x87) left  *)
(* out of it.                                                               *)
MPU_Config ==
  /\ Simple("reset", "hal")
  /\ denied' = (0 .. 7) \ {0, 1, 2, 7}
  /\ UNCHANGED <<clocks, rcc, mode, level, huart1, ready>>

HAL_MspInit == clocks' = clocks \cup {"PWR", "SYSCFG"}

(* HAL_Init() starts SysTick, HAL_InitTick(), for the clock of reset. *)
HAL_Init ==
  /\ Step("hal", "osc")
  /\ reload' = HSI_VALUE
  /\ HAL_MspInit
  /\ UNCHANGED <<hclk, primask, delay, denied, rcc, mode, level, huart1, ready>>

-----------------------------------------------------------------------------
(* SystemClock_Config().                                                    *)

VCO == (HSI_VALUE \div PLLM) * PLLN

(* The voltage scale that is written before it is the one after reset.      *)
HAL_RCC_OscConfig ==
  /\ Simple("osc", "overdrive")
  /\ rcc' = [rcc EXCEPT !.pll = VCO \div PLLP, !.pll48 = VCO \div PLLQ]
  /\ clocks' = clocks \cup {"PWR"}
  /\ UNCHANGED <<denied, mode, level, huart1, ready>>

(* Mutant of EnableOverDrive: the call is left out. *)
EnableOverDrive_Not ==
  /\ Simple("overdrive", "sysclk")
  /\ UNCHANGED <<level, boardVars>>

EnableOverDrive ==
  /\ Simple("overdrive", "sysclk")
  /\ "PWR" \in clocks /\ rcc' = [rcc EXCEPT !.over = TRUE]
  /\ UNCHANGED <<denied, clocks, mode, level, huart1, ready>>

(* HAL_RCC_ClockConfig(): the latency first, then the switch to the PLL and *)
(* the dividers; HAL_InitTick() with the new SystemCoreClock comes last.    *)
SwitchClock ==
  /\ Step("sysclk", "systick")
  /\ rcc' = [rcc EXCEPT !.latency = FLASH_LATENCY_7, !.apb2 = 2]
  /\ hclk' = rcc.pll
  /\ UNCHANGED <<reload, primask, delay, denied, clocks, mode, level, huart1, ready>>

(* Mutant of RestartTick: SystemCoreClock is not updated. *)
RestartTick_Stale ==
  /\ Simple("systick", "gpio")
  /\ UNCHANGED <<level, boardVars>>

RestartTick ==
  /\ Step("systick", "gpio")
  /\ reload' = hclk
  /\ UNCHANGED <<hclk, primask, delay, level, boardVars>>

SystemClock_Config ==
  \/ HAL_RCC_OscConfig \/ EnableOverDrive \/ SwitchClock \/ RestartTick
  \/ \E from \in {"osc", "overdrive", "sysclk"} : Error_Handler(from)

-----------------------------------------------------------------------------
(* Pins.  A port whose clock is off ignores what is written to it.          *)

Powered(pin, on) ==
  \/ pin \in GPIOA /\ "GPIOA" \in on
  \/ pin \in GPIOB /\ "GPIOB" \in on
  \/ pin \in GPIOI /\ "GPIOI" \in on

HAL_GPIO_Init(on, pins, function) ==
  [p \in Pins |-> IF p \in pins /\ Powered(p, on) THEN function ELSE mode[p]]

HAL_GPIO_WritePin(pins, to) ==
  [p \in Pins |-> IF p \in pins /\ Powered(p, clocks) THEN to ELSE level[p]]

GpioClocks ==
  /\ Simple("gpio", "level")
  /\ clocks' = clocks \cup {"GPIOA", "GPIOB", "GPIOI"}
  /\ UNCHANGED <<denied, rcc, mode, level, huart1, ready>>

(* Mutant of PinLevels: the pins become outputs at the level of reset. *)
PinLevels_Not ==
  /\ Simple("level", "rst")
  /\ UNCHANGED <<level, boardVars>>

PinLevels ==
  /\ Simple("level", "rst")
  /\ level' = HAL_GPIO_WritePin({RST_Pin, SCS_Pin}, "high")
  /\ UNCHANGED boardVars

Output(from, to, pin) ==
  /\ Simple(from, to)
  /\ mode' = HAL_GPIO_Init(clocks, {pin}, "output")
  /\ UNCHANGED <<denied, clocks, rcc, huart1, ready>>

MX_GPIO_Init ==
  \/ GpioClocks \/ PinLevels
  \/ Output("rst", "scs", RST_Pin) /\ UNCHANGED level
  \/ Output("scs", "led", SCS_Pin) /\ UNCHANGED level
  \/ /\ Output("led", "spi", LED_Pin)
     /\ level' = HAL_GPIO_WritePin({LED_Pin}, "low")

-----------------------------------------------------------------------------
(* SPI2 and the console.                                                    *)

HAL_SPI_MspInit ==
  /\ clocks' = clocks \cup {"SPI2", "GPIOI", "GPIOB"}
  /\ mode' = HAL_GPIO_Init(clocks', {"PI1", "PB14", "PB15"}, "SPI2")

MX_SPI2_Init ==
  \/ /\ Simple("spi", "uart")
     /\ HAL_SPI_MspInit
     /\ ready' = ready \cup {"SPI2"}
     /\ UNCHANGED <<level, denied, rcc, huart1>>
  \/ Error_Handler("spi")

(* Mutant of PCLK2: the prescaler of the bus is forgotten. *)
PCLK2_Undivided == hclk

(* HAL_RCC_GetPCLK2Freq() *)
PCLK2 == hclk \div rcc.apb2

HAL_UART_MspInit ==
  /\ clocks' = clocks \cup {"USART1", "GPIOA", "GPIOB"}
  /\ mode' = HAL_GPIO_Init(clocks', {"PA9", "PB7"}, "USART1")

MX_USART1_UART_Init ==
  \/ /\ Simple("uart", "banner")
     /\ HAL_UART_MspInit
     /\ huart1' = PCLK2
     /\ UNCHANGED <<level, denied, rcc, ready>>
  \/ Error_Handler("uart")

-----------------------------------------------------------------------------
(* printf(), and the W5500 out of reset.                                    *)

Banner == Simple("banner", "port") /\ UNCHANGED <<level, boardVars>>

W5500_Port_Init ==
  /\ Simple("port", "hw_reset")
  /\ ready' = ready \cup {"hspi"}
  /\ UNCHANGED <<level, denied, clocks, rcc, mode, huart1>>

(* HAL_Delay(n) waits for n + 1 ticks, so that n whole ones go by. *)
HAL_Delay(n) == delay' = n + 1

WriteReset(from, to, value) ==
  /\ Step(from, to) /\ delay = 0
  /\ level' = HAL_GPIO_WritePin({RST_Pin}, value)
  /\ HAL_Delay(2)
  /\ UNCHANGED <<hclk, reload, primask, boardVars>>

RegisterCallbacks ==
  /\ Simple("high", "chip") /\ delay = 0
  /\ level' = HAL_GPIO_WritePin({SCS_Pin}, "high")
  /\ ready' = ready \cup {"callbacks"}
  /\ UNCHANGED <<denied, clocks, rcc, mode, huart1>>

W5500_HW_Reset ==
  \/ WriteReset("hw_reset", "low", "low")
  \/ WriteReset("low", "high", "high")
  \/ RegisterCallbacks

-----------------------------------------------------------------------------
(* Accesses to the chip: those of wizchip_init(), that of setSHAR(), and   *)
(* all that follow.                                                         *)

W5500_ChipInit ==
  \/ pc = "chip" /\ W5500_CrisEnter /\ pc' = "mac"
  \/ pc = "mac" /\ W5500_CrisEnter /\ pc' = "loop"

GoOn ==
  /\ \/ pc = "loop" /\ W5500_CrisEnter
     \/ W5500_Transfer
  /\ UNCHANGED pc

ChipAccess == (W5500_ChipInit \/ GoOn) /\ UNCHANGED <<boardVars, pulse, settled>>

main ==
  \/ MPU_Config \/ HAL_Init \/ SystemClock_Config \/ MX_GPIO_Init \/ MX_SPI2_Init
  \/ MX_USART1_UART_Init \/ Banner \/ W5500_Port_Init \/ W5500_HW_Reset \/ ChipAccess

-----------------------------------------------------------------------------
Tick == SysTick_Handler /\ UNCHANGED <<boardVars, pc, pulse, settled>>

Low(pin) == mode[pin] = "output" /\ level[pin] = "low"

Count(n) == IF n < Millisecond THEN n + 1 ELSE n

(* Time goes by outside of accesses. *)
Time ==
  /\ Pass
  /\ pulse' = IF Low(RST_Pin) THEN Count(pulse) ELSE pulse
  /\ settled' = IF ~Low(RST_Pin) /\ pulse > 0 THEN Count(settled) ELSE settled
  /\ UNCHANGED <<boardVars, pc>>

Next == main \/ Tick \/ Time

Spec == Init /\ [][Next]_vars

(* Time passes, the interrupt is served when it is not masked, and takes far *)
(* less than its period: main() runs between any two of them.               *)
FairSpec == Spec /\ SF_vars(main) /\ WF_vars(Tick) /\ WF_vars(Time)

-----------------------------------------------------------------------------
(* Properties.                                                              *)

(* The types of the variables. *)
TypeOK ==
  /\ PortTypeOK
  /\ pc \in Steps /\ denied \subseteq 0 .. 7 /\ clocks \subseteq Peripherals
  /\ rcc \in [pll : Nat, pll48 : Nat, over : BOOLEAN, latency : 0 .. FLASH_LATENCY_7,
              apb2 : {1, 2}]
  /\ mode \in [Pins -> Functions] /\ huart1 \in Nat /\ ready \subseteq Parts
  /\ pulse \in 0 .. Millisecond /\ settled \in 0 .. Millisecond

(* w5500_port.c:8: no interrupt splits an access, and the chip is selected   *)
(* at no other time, also not while its pins become outputs.  When it is,   *)
(* the bus reaches it: SPI2 has clock, pins and handle, the callbacks are   *)
(* registered, and the chip is not in reset.                                *)
AccessWhole ==
  Low(SCS_Pin) =>
    /\ primask /\ bus = "selected"
    /\ ready = Parts /\ "SPI2" \in clocks /\ ~Low(RST_Pin)
    /\ \A pin \in {"PI1", "PB14", "PB15"} : mode[pin] = "SPI2"

(* w5500_port.c:65: RST is low for half a millisecond at least, by a clock   *)
(* that main() has just changed, and the chip has a whole one to start.     *)
ResetTimed ==
  bus # "idle" => 2 * pulse >= Millisecond /\ settled >= Millisecond

(* An access of n bytes loses no more interrupts than whole periods fit in  *)
(* its time: one that takes no longer than a millisecond loses none.        *)
TicksMissed == missed > 0 => missed * Period < held

(* The core runs beyond 180 MHz only in over-drive and with the wait states  *)
(* that the flash needs, and the random generator has its 48 MHz.           *)
ClockSafe ==
  hclk > 180 => rcc.over /\ rcc.latency >= 7 /\ rcc.pll48 = 48

(* What is printed, and that is from the banner on, reaches the terminal's   *)
(* pin, at its rate: the rate is made for the bus clock that then runs.     *)
Printing == {"banner", "port", "hw_reset", "low", "high", "chip", "mac", "loop"}
ConsoleTimed ==
  pc \in Printing => huart1 * rcc.apb2 = hclk /\ mode["PA9"] = "USART1"

(* main() reaches its super-loop, or Error_Handler(). *)
ComesUp == <>(pc \in {"loop", "halted"})

(* The clock goes on: an interrupt that is due is served, unless the board  *)
(* has halted for good.                                                     *)
TickServed == pending ~> (~pending \/ pc = "halted")
=============================================================================
