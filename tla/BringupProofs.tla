--------------------------- MODULE BringupProofs ---------------------------
(* Proofs about Bringup, for every length of the millisecond and of the     *)
(* accesses to the chip.                                                    *)
EXTENDS Bringup, TLAPS

-----------------------------------------------------------------------------
(* How far main() has come: the steps from a given one on. *)
FromChip == {"chip", "mac", "loop"}
FromHigh == FromChip \cup {"high"}
FromLow == FromHigh \cup {"low"}
FromReset == FromLow \cup {"hw_reset"}
FromPort == FromReset \cup {"port"}
FromBanner == FromPort \cup {"banner"}
FromUart == FromBanner \cup {"uart"}
FromRst == FromUart \cup {"rst", "scs", "led", "spi"}
FromLevel == FromRst \cup {"level"}
FromGpio == FromLevel \cup {"gpio"}
FromSystick == FromGpio \cup {"systick"}
FromSysclk == FromSystick \cup {"sysclk"}
FromOverdrive == FromSysclk \cup {"overdrive"}

-----------------------------------------------------------------------------
(* The inductive invariant, by what its parts are about.                    *)

(* The clocks: the switch to 216 MHz finds all it needs, and SysTick is     *)
(* right before and after, not between.                                     *)
ClockInv ==
  /\ <<hclk, reload>> \in {<<16, 0>>, <<16, 16>>, <<216, 16>>, <<216, 216>>}
  /\ hclk = 216 => rcc.over /\ rcc.latency = 7 /\ rcc.pll48 = 48
  /\ pc \in FromOverdrive \cup {"osc"} => reload # 0
  /\ pc \in FromOverdrive => rcc.pll = 216 /\ rcc.pll48 = 48
  /\ pc \in FromSysclk => rcc.over
  /\ pc \in FromSystick => hclk = 216 /\ rcc.apb2 = 2
  /\ pc \in FromGpio => reload = 216

(* Interrupts are masked during an access, and in Error_Handler(). *)
MaskInv ==
  /\ bus # "idle" => pc \in {"mac", "loop"}
  /\ primask <=> (bus # "idle" \/ pc = "halted")

(* What the accesses need. *)
PartsInv ==
  /\ pc \in FromLevel => {"GPIOA", "GPIOB", "GPIOI"} \subseteq clocks
  /\ pc \in FromUart =>
       /\ "SPI2" \in ready /\ "SPI2" \in clocks
       /\ mode["PI1"] = "SPI2" /\ mode["PB14"] = "SPI2" /\ mode["PB15"] = "SPI2"
  /\ pc \in FromReset => "hspi" \in ready
  /\ pc \in FromChip => "callbacks" \in ready
  /\ pc \in FromBanner => huart1 = 108 /\ mode["PA9"] = "USART1"

(* The pins of the chip: selected in accesses only, RST an output, and low  *)
(* for the pulse only.                                                      *)
PinInv ==
  /\ mode[SCS_Pin] = "output" \/ pc \in FromRst
       => level[SCS_Pin] = "high" \/ bus = "selected"
  /\ pc \in FromRst \ {"rst"} => mode[RST_Pin] = "output"
  /\ pc = "low" => level[RST_Pin] = "low"
  /\ pc \in FromHigh => level[RST_Pin] = "high"

(* In HAL_Delay(2), when a tick is counted as soon as it is pending: the    *)
(* units that went by since the first one are those of phase, and more; the *)
(* second one completes a millisecond.                                      *)
Ticks == IF pending THEN delay - 1 ELSE delay
Waited(units) ==
  /\ Ticks = 2 => units >= phase + 1
  /\ Ticks < 2 => units = Millisecond
ResetInv ==
  /\ phase < Millisecond
  /\ pc = "low" => Waited(pulse)
  /\ pc \in FromHigh => pulse = Millisecond
  /\ pc = "high" => Waited(settled)
  /\ pc \in FromChip => settled = Millisecond

(* In an access: whole periods and the units since the last one account for *)
(* no more than all units since the mask, the first to the pending one.     *)
TickInv ==
  /\ bus # "idle" /\ pending => held >= missed * Millisecond + phase + 1
  /\ bus # "idle" /\ ~pending => missed = 0
  /\ missed > 0 => pc \in {"mac", "loop"} /\ missed * Millisecond < held

IInv ==
  /\ TypeOK /\ ClockInv /\ MaskInv /\ PartsInv /\ PinInv /\ ResetInv /\ TickInv

-----------------------------------------------------------------------------
(* Every step keeps every part.                                             *)

(* ClockInv: what SystemClock_Config() sets up stays. *)
LEMMA ClockInvKept == IInv /\ Next => ClockInv'
<1> SUFFICES ASSUME IInv, Next PROVE ClockInv'
  OBVIOUS
<1> USE PortAssumption
        DEF IInv, TypeOK, PortTypeOK, ClockInv, Step, Simple, boardVars,
            FromChip, FromHigh, FromLow, FromReset, FromPort, FromBanner,
            FromUart, FromRst, FromLevel, FromGpio, FromSystick, FromSysclk,
            FromOverdrive
<1>1. CASE MPU_Config \/ HAL_Init
  BY <1>1 DEF MPU_Config, HAL_Init, HSI_VALUE
<1>2. CASE SystemClock_Config
  <2>1. CASE HAL_RCC_OscConfig
    <3>1. /\ rcc'.pll = 216 /\ rcc'.pll48 = 48
          /\ rcc'.over = rcc.over /\ rcc'.latency = rcc.latency
      BY <2>1 DEF HAL_RCC_OscConfig, VCO, HSI_VALUE, PLLM, PLLN, PLLP, PLLQ
    <3> QED BY <2>1, <3>1 DEF HAL_RCC_OscConfig
  <2>2. CASE EnableOverDrive
    BY <2>2 DEF EnableOverDrive
  <2>3. CASE SwitchClock
    BY <2>3 DEF SwitchClock, FLASH_LATENCY_7
  <2>4. CASE RestartTick
    BY <2>4 DEF RestartTick
  <2>5. ASSUME NEW from \in Steps, Error_Handler(from) PROVE ClockInv'
    BY <2>5 DEF Error_Handler
  <2> QED BY <1>2, <2>1, <2>2, <2>3, <2>4, <2>5 DEF SystemClock_Config, Steps
<1>3. CASE MX_GPIO_Init
  BY <1>3 DEF MX_GPIO_Init, GpioClocks, PinLevels, Output
<1>4. CASE MX_SPI2_Init \/ MX_USART1_UART_Init
  BY <1>4 DEF MX_SPI2_Init, MX_USART1_UART_Init, Error_Handler
<1>5. CASE Banner \/ W5500_Port_Init \/ W5500_HW_Reset
  BY <1>5 DEF Banner, W5500_Port_Init, W5500_HW_Reset, WriteReset,
             RegisterCallbacks
<1>6. CASE ChipAccess
  BY <1>6 DEF ChipAccess, W5500_ChipInit, GoOn, W5500_Transfer, W5500_CrisEnter,
             W5500_CS_Select, W5500_SPI_Byte, W5500_CS_Deselect,
             W5500_CrisExit
<1>7. CASE Tick
  BY <1>7 DEF Tick, SysTick_Handler
<1>8. CASE Time
  BY <1>8 DEF Time, Pass
<1> QED BY <1>1, <1>2, <1>3, <1>4, <1>5, <1>6, <1>7, <1>8 DEF Next, main

(* MaskInv: the mask, and the accesses, belong to main(). *)
LEMMA MaskInvKept == IInv /\ Next => MaskInv'
<1> SUFFICES ASSUME IInv, Next PROVE MaskInv'
  OBVIOUS
<1> USE PortAssumption
        DEF IInv, TypeOK, PortTypeOK, MaskInv, Step, Simple, boardVars,
            FromChip, FromHigh, FromLow, FromReset, FromPort, FromBanner,
            FromUart, FromRst, FromLevel, FromGpio, FromSystick, FromSysclk,
            FromOverdrive
<1>1. CASE MPU_Config \/ HAL_Init
  BY <1>1 DEF MPU_Config, HAL_Init
<1>2. CASE SystemClock_Config
  BY <1>2 DEF SystemClock_Config, HAL_RCC_OscConfig, EnableOverDrive,
             SwitchClock, RestartTick, Error_Handler
<1>3. CASE MX_GPIO_Init
  BY <1>3 DEF MX_GPIO_Init, GpioClocks, PinLevels, Output
<1>4. CASE MX_SPI2_Init \/ MX_USART1_UART_Init
  BY <1>4 DEF MX_SPI2_Init, MX_USART1_UART_Init, Error_Handler
<1>5. CASE Banner \/ W5500_Port_Init \/ W5500_HW_Reset
  BY <1>5 DEF Banner, W5500_Port_Init, W5500_HW_Reset, WriteReset,
             RegisterCallbacks
<1>6. CASE ChipAccess
  BY <1>6 DEF ChipAccess, W5500_ChipInit, GoOn, W5500_Transfer, W5500_CrisEnter,
             W5500_CS_Select, W5500_SPI_Byte, W5500_CS_Deselect,
             W5500_CrisExit, Preempts
<1>7. CASE Tick
  BY <1>7 DEF Tick, SysTick_Handler
<1>8. CASE Time
  BY <1>8 DEF Time, Pass
<1> QED BY <1>1, <1>2, <1>3, <1>4, <1>5, <1>6, <1>7, <1>8 DEF Next, main

(* PartsInv: each part is there before what needs it. *)
LEMMA PartsInvKept == IInv /\ Next => PartsInv'
<1> SUFFICES ASSUME IInv, Next PROVE PartsInv'
  OBVIOUS
<1> USE PortAssumption
        DEF IInv, TypeOK, PortTypeOK, PartsInv, ClockInv, Step, Simple,
            boardVars, FromChip, FromHigh, FromLow, FromReset, FromPort,
            FromBanner, FromUart, FromRst, FromLevel, FromGpio, FromSystick,
            FromSysclk, FromOverdrive
<1>1. CASE MPU_Config \/ HAL_Init
  BY <1>1 DEF MPU_Config, HAL_Init
<1>2. CASE SystemClock_Config
  BY <1>2 DEF SystemClock_Config, HAL_RCC_OscConfig, EnableOverDrive,
             SwitchClock, RestartTick, Error_Handler
<1>3. CASE MX_GPIO_Init
  BY <1>3 DEF MX_GPIO_Init, GpioClocks, PinLevels, Output, HAL_GPIO_Init,
             Powered, Pins, GPIOA, GPIOB, GPIOI, SCS_Pin, RST_Pin, LED_Pin
<1>4. CASE MX_SPI2_Init \/ MX_USART1_UART_Init
  BY <1>4 DEF MX_SPI2_Init, MX_USART1_UART_Init, Error_Handler, HAL_SPI_MspInit,
             HAL_UART_MspInit, PCLK2, HAL_GPIO_Init, Powered, Pins, GPIOA,
             GPIOB, GPIOI, SCS_Pin, RST_Pin, LED_Pin
<1>5. CASE Banner \/ W5500_Port_Init \/ W5500_HW_Reset
  BY <1>5 DEF Banner, W5500_Port_Init, W5500_HW_Reset, WriteReset,
             RegisterCallbacks
<1>6. CASE ChipAccess
  BY <1>6 DEF ChipAccess, W5500_ChipInit, GoOn, W5500_Transfer, W5500_CrisEnter,
             W5500_CS_Select, W5500_SPI_Byte, W5500_CS_Deselect,
             W5500_CrisExit
<1>7. CASE Tick
  BY <1>7 DEF Tick, SysTick_Handler
<1>8. CASE Time
  BY <1>8 DEF Time, Pass
<1> QED BY <1>1, <1>2, <1>3, <1>4, <1>5, <1>6, <1>7, <1>8 DEF Next, main

(* PinInv: pins get their level before they become outputs. *)
LEMMA PinInvKept == IInv /\ Next => PinInv'
<1> SUFFICES ASSUME IInv, Next PROVE PinInv'
  OBVIOUS
<1> USE PortAssumption
        DEF IInv, TypeOK, PortTypeOK, PinInv, PartsInv, MaskInv, Step, Simple,
            boardVars, FromChip, FromHigh, FromLow, FromReset, FromPort,
            FromBanner, FromUart, FromRst, FromLevel, FromGpio, FromSystick,
            FromSysclk, FromOverdrive
<1>1. CASE MPU_Config \/ HAL_Init
  BY <1>1 DEF MPU_Config, HAL_Init
<1>2. CASE SystemClock_Config
  BY <1>2 DEF SystemClock_Config, HAL_RCC_OscConfig, EnableOverDrive,
             SwitchClock, RestartTick, Error_Handler
<1>3. CASE MX_GPIO_Init
  BY <1>3 DEF MX_GPIO_Init, GpioClocks, PinLevels, Output, HAL_GPIO_Init,
             Powered, Pins, GPIOA, GPIOB, GPIOI, SCS_Pin, RST_Pin, LED_Pin,
             HAL_GPIO_WritePin
<1>4. CASE MX_SPI2_Init \/ MX_USART1_UART_Init
  BY <1>4 DEF MX_SPI2_Init, MX_USART1_UART_Init, Error_Handler, HAL_SPI_MspInit,
             HAL_UART_MspInit, HAL_GPIO_Init, Powered, Pins, GPIOA, GPIOB,
             GPIOI, SCS_Pin, RST_Pin, LED_Pin
<1>5. CASE Banner \/ W5500_Port_Init \/ W5500_HW_Reset
  BY <1>5 DEF Banner, W5500_Port_Init, W5500_HW_Reset, WriteReset,
             RegisterCallbacks, HAL_GPIO_WritePin, Powered, Pins, GPIOA, GPIOB,
             GPIOI, SCS_Pin, RST_Pin, LED_Pin
<1>6. CASE ChipAccess
  BY <1>6 DEF ChipAccess, W5500_ChipInit, GoOn, W5500_Transfer, W5500_CrisEnter,
             W5500_CS_Select, W5500_SPI_Byte, W5500_CS_Deselect,
             W5500_CrisExit, Pins, GPIOA, GPIOB, GPIOI, SCS_Pin, RST_Pin,
             LED_Pin
<1>7. CASE Tick
  BY <1>7 DEF Tick, SysTick_Handler
<1>8. CASE Time
  BY <1>8 DEF Time, Pass
<1> QED BY <1>1, <1>2, <1>3, <1>4, <1>5, <1>6, <1>7, <1>8 DEF Next, main

(* ResetInv: two ticks after the first make the millisecond. *)
LEMMA ResetInvKept == IInv /\ Next => ResetInv'
<1> SUFFICES ASSUME IInv, Next PROVE ResetInv'
  OBVIOUS
<1> USE PortAssumption
        DEF IInv, TypeOK, PortTypeOK, ResetInv, PinInv, ClockInv, MaskInv,
            Waited, Ticks, Step, Simple, boardVars, FromChip, FromHigh,
            FromLow, FromReset, FromPort, FromBanner, FromUart, FromRst,
            FromLevel, FromGpio, FromSystick, FromSysclk, FromOverdrive
<1>1. CASE MPU_Config \/ HAL_Init
  BY <1>1 DEF MPU_Config, HAL_Init
<1>2. CASE SystemClock_Config
  BY <1>2 DEF SystemClock_Config, HAL_RCC_OscConfig, EnableOverDrive,
             SwitchClock, RestartTick, Error_Handler
<1>3. CASE MX_GPIO_Init
  BY <1>3 DEF MX_GPIO_Init, GpioClocks, PinLevels, Output
<1>4. CASE MX_SPI2_Init \/ MX_USART1_UART_Init
  BY <1>4 DEF MX_SPI2_Init, MX_USART1_UART_Init, Error_Handler
<1>5. CASE Banner \/ W5500_Port_Init \/ W5500_HW_Reset
  BY <1>5 DEF Banner, W5500_Port_Init, W5500_HW_Reset, WriteReset,
             RegisterCallbacks, HAL_Delay, Preempts
<1>6. CASE ChipAccess
  BY <1>6 DEF ChipAccess, W5500_ChipInit, GoOn, W5500_Transfer, W5500_CrisEnter,
             W5500_CS_Select, W5500_SPI_Byte, W5500_CS_Deselect,
             W5500_CrisExit, Elapse, TickDue, Period
<1>7. CASE Tick
  BY <1>7 DEF Tick, SysTick_Handler, Preempts
<1>8. CASE Time
  BY <1>8 DEF Time, Pass, Elapse, TickDue, Period, Preempts, Low, Count
<1> QED BY <1>1, <1>2, <1>3, <1>4, <1>5, <1>6, <1>7, <1>8 DEF Next, main

(* TickInv: every interrupt that an access loses takes a whole period of it. *)
LEMMA TickInvKept == IInv /\ Next => TickInv'
<1> SUFFICES ASSUME IInv, Next PROVE TickInv'
  OBVIOUS
<1> USE PortAssumption
        DEF IInv, TypeOK, PortTypeOK, TickInv, ClockInv, MaskInv, ResetInv,
            Step, Simple, boardVars, FromChip, FromHigh, FromLow, FromReset,
            FromPort, FromBanner, FromUart, FromRst, FromLevel, FromGpio,
            FromSystick, FromSysclk, FromOverdrive
<1>1. CASE MPU_Config \/ HAL_Init
  BY <1>1 DEF MPU_Config, HAL_Init
<1>2. CASE SystemClock_Config
  BY <1>2 DEF SystemClock_Config, HAL_RCC_OscConfig, EnableOverDrive,
             SwitchClock, RestartTick, Error_Handler
<1>3. CASE MX_GPIO_Init
  BY <1>3 DEF MX_GPIO_Init, GpioClocks, PinLevels, Output
<1>4. CASE MX_SPI2_Init \/ MX_USART1_UART_Init
  BY <1>4 DEF MX_SPI2_Init, MX_USART1_UART_Init, Error_Handler
<1>5. CASE Banner \/ W5500_Port_Init \/ W5500_HW_Reset
  BY <1>5 DEF Banner, W5500_Port_Init, W5500_HW_Reset, WriteReset,
             RegisterCallbacks
<1>6. CASE ChipAccess
  BY <1>6 DEF ChipAccess, W5500_ChipInit, GoOn, W5500_Transfer, W5500_CrisEnter,
             W5500_CS_Select, W5500_SPI_Byte, W5500_CS_Deselect,
             W5500_CrisExit, Preempts, Elapse, TickDue, Period
<1>7. CASE Tick
  BY <1>7 DEF Tick, SysTick_Handler, Preempts
<1>8. CASE Time
  BY <1>8 DEF Time, Pass, Preempts, Elapse, TickDue
<1> QED BY <1>1, <1>2, <1>3, <1>4, <1>5, <1>6, <1>7, <1>8 DEF Next, main

-----------------------------------------------------------------------------
(* Types. *)
Levels == {"low", "high"}
Rccs == [pll : Nat, pll48 : Nat, over : BOOLEAN, latency : 0 .. FLASH_LATENCY_7,
         apb2 : {1, 2}]

LEMMA WriteType ==
  ASSUME level \in [Pins -> Levels], NEW pins, NEW to \in Levels
  PROVE  HAL_GPIO_WritePin(pins, to) \in [Pins -> Levels]
  BY DEF HAL_GPIO_WritePin

LEMMA FunctionType ==
  ASSUME mode \in [Pins -> Functions], NEW on, NEW pins, NEW f \in Functions
  PROVE  HAL_GPIO_Init(on, pins, f) \in [Pins -> Functions]
  BY DEF HAL_GPIO_Init

LEMMA LevelType == IInv /\ Next => level' \in [Pins -> Levels]
<1> SUFFICES ASSUME IInv, Next PROVE level' \in [Pins -> Levels]
  OBVIOUS
<1>1. mode \in [Pins -> Functions] /\ level \in [Pins -> Levels]
  BY DEF IInv, TypeOK, PortTypeOK, Levels
<1>2. "low" \in Levels /\ "high" \in Levels /\ "output" \in Functions
  BY DEF Levels, Functions
<1>3. CASE level' = level
  BY <1>1, <1>3
<1>4. CASE PinLevels \/ MX_GPIO_Init
  BY <1>1, <1>2, <1>4, WriteType DEF PinLevels, MX_GPIO_Init, GpioClocks
<1>5. CASE W5500_HW_Reset
  BY <1>1, <1>2, <1>5, WriteType DEF W5500_HW_Reset, WriteReset, RegisterCallbacks
<1>6. CASE W5500_CS_Select \/ W5500_CS_Deselect
  BY <1>1, <1>2, <1>6 DEF W5500_CS_Select, W5500_CS_Deselect
<1>7. level' = level \/ MX_GPIO_Init \/ W5500_HW_Reset \/ W5500_CS_Select \/ W5500_CS_Deselect
  BY DEF Next, main, MPU_Config, HAL_Init, SystemClock_Config,
         HAL_RCC_OscConfig, EnableOverDrive, SwitchClock, RestartTick,
         Error_Handler, MX_SPI2_Init, MX_USART1_UART_Init, Banner,
         W5500_Port_Init, ChipAccess, W5500_ChipInit, GoOn, W5500_Transfer,
         W5500_CrisEnter, W5500_SPI_Byte, W5500_CrisExit, Tick,
         SysTick_Handler, Time, Pass, Simple
<1> QED BY <1>3, <1>4, <1>5, <1>6, <1>7

LEMMA ModeType == IInv /\ Next => mode' \in [Pins -> Functions]
<1> SUFFICES ASSUME IInv, Next PROVE mode' \in [Pins -> Functions]
  OBVIOUS
<1>1. mode \in [Pins -> Functions] /\ level \in [Pins -> Levels]
  BY DEF IInv, TypeOK, PortTypeOK, Levels
<1>2. "low" \in Levels /\ {"output", "SPI2", "USART1"} \subseteq Functions
  BY DEF Levels, Functions
<1>3. CASE mode' = mode
  BY <1>1, <1>3
<1>4. CASE MX_GPIO_Init
  BY <1>1, <1>2, <1>4, FunctionType
     DEF MX_GPIO_Init, GpioClocks, PinLevels, Output, boardVars
<1>5. CASE MX_SPI2_Init \/ MX_USART1_UART_Init
  BY <1>1, <1>2, <1>5, FunctionType
     DEF MX_SPI2_Init, MX_USART1_UART_Init, HAL_SPI_MspInit, HAL_UART_MspInit,
         Error_Handler, boardVars
<1>6. mode' = mode \/ MX_GPIO_Init \/ MX_SPI2_Init \/ MX_USART1_UART_Init
  BY DEF Next, main, MPU_Config, HAL_Init, SystemClock_Config,
         HAL_RCC_OscConfig, EnableOverDrive, SwitchClock, RestartTick,
         Error_Handler, Banner, W5500_Port_Init, W5500_HW_Reset, WriteReset,
         RegisterCallbacks, ChipAccess, Tick, Time, boardVars
<1> QED BY <1>3, <1>4, <1>5, <1>6

LEMMA RccType == IInv /\ Next => rcc' \in Rccs
<1> SUFFICES ASSUME IInv, Next PROVE rcc' \in Rccs
  OBVIOUS
<1>1. rcc \in Rccs
  BY DEF IInv, TypeOK, Rccs
<1>2. CASE HAL_RCC_OscConfig
  <2>1. VCO \div PLLP \in Nat /\ VCO \div PLLQ \in Nat
    BY DEF VCO, HSI_VALUE, PLLM, PLLN, PLLP, PLLQ
  <2> QED BY <1>1, <1>2, <2>1 DEF HAL_RCC_OscConfig, Rccs
<1>3. CASE EnableOverDrive
  BY <1>1, <1>3 DEF EnableOverDrive, Rccs
<1>4. CASE SwitchClock
  <2>1. FLASH_LATENCY_7 \in 0 .. FLASH_LATENCY_7 /\ 2 \in {1, 2}
    BY DEF FLASH_LATENCY_7
  <2> QED BY <1>1, <1>4, <2>1 DEF SwitchClock, Rccs
<1>5. rcc' = rcc \/ HAL_RCC_OscConfig \/ EnableOverDrive \/ SwitchClock
  BY DEF Next, main, MPU_Config, HAL_Init, SystemClock_Config, RestartTick,
         Error_Handler, MX_GPIO_Init, GpioClocks, PinLevels, Output,
         MX_SPI2_Init, MX_USART1_UART_Init, Banner, W5500_Port_Init,
         W5500_HW_Reset, WriteReset, RegisterCallbacks, ChipAccess, Tick, Time,
         boardVars
<1> QED BY <1>1, <1>2, <1>3, <1>4, <1>5

LEMMA BoardTypes ==
  IInv /\ Next =>
    /\ pc' \in Steps /\ denied' \subseteq 0 .. 7 /\ clocks' \subseteq Peripherals
    /\ huart1' \in Nat /\ ready' \subseteq Parts
<1> SUFFICES ASSUME IInv, Next
             PROVE  /\ pc' \in Steps /\ denied' \subseteq 0 .. 7 /\ clocks' \subseteq Peripherals
                    /\ huart1' \in Nat /\ ready' \subseteq Parts
  OBVIOUS
<1>0. /\ pc \in Steps /\ denied \subseteq 0 .. 7 /\ clocks \subseteq Peripherals
      /\ huart1 \in Nat /\ ready \subseteq Parts
      /\ hclk \in Nat /\ rcc.apb2 \in {1, 2}
  BY DEF IInv, TypeOK, PortTypeOK
<1>9. PCLK2 \in Nat
  BY <1>0 DEF PCLK2
<1> USE <1>0, <1>9 DEF Steps, Step, Simple, boardVars
<1>1. CASE MPU_Config \/ HAL_Init
  BY <1>1 DEF MPU_Config, HAL_Init, HAL_MspInit, Peripherals
<1>2. CASE SystemClock_Config
  BY <1>2 DEF SystemClock_Config, HAL_RCC_OscConfig, EnableOverDrive,
             SwitchClock, RestartTick, Error_Handler, Peripherals
<1>3. CASE MX_GPIO_Init
  BY <1>3 DEF MX_GPIO_Init, GpioClocks, PinLevels, Output, Peripherals
<1>4. CASE MX_SPI2_Init \/ MX_USART1_UART_Init
  BY <1>4 DEF MX_SPI2_Init, MX_USART1_UART_Init, Error_Handler, HAL_SPI_MspInit,
             HAL_UART_MspInit, Peripherals, Parts
<1>5. CASE Banner \/ W5500_Port_Init \/ W5500_HW_Reset
  BY <1>5 DEF Banner, W5500_Port_Init, W5500_HW_Reset, WriteReset,
             RegisterCallbacks, Parts
<1>6. CASE ChipAccess
  BY <1>6 DEF ChipAccess, W5500_ChipInit, GoOn
<1>7. CASE Tick
  BY <1>7 DEF Tick
<1>8. CASE Time
  BY <1>8 DEF Time
<1> QED BY <1>1, <1>2, <1>3, <1>4, <1>5, <1>6, <1>7, <1>8 DEF Next, main

LEMMA FlagTypes ==
  IInv /\ Next =>
    /\ pending' \in BOOLEAN /\ primask' \in BOOLEAN /\ bus' \in Stages
<1> SUFFICES ASSUME IInv, Next
             PROVE  /\ pending' \in BOOLEAN /\ primask' \in BOOLEAN /\ bus' \in Stages
  OBVIOUS
<1>0. /\ pending \in BOOLEAN /\ primask \in BOOLEAN /\ bus \in Stages
  BY DEF IInv, TypeOK, PortTypeOK, ClockInv
<1> USE <1>0, PortAssumption DEF Step, Simple, Stages
<1>1. CASE MPU_Config \/ HAL_Init
  BY <1>1 DEF MPU_Config, HAL_Init
<1>2. CASE SystemClock_Config
  BY <1>2 DEF SystemClock_Config, HAL_RCC_OscConfig, EnableOverDrive,
             SwitchClock, RestartTick, Error_Handler
<1>3. CASE MX_GPIO_Init
  BY <1>3 DEF MX_GPIO_Init, GpioClocks, PinLevels, Output
<1>4. CASE MX_SPI2_Init \/ MX_USART1_UART_Init
  BY <1>4 DEF MX_SPI2_Init, MX_USART1_UART_Init, Error_Handler
<1>5. CASE Banner \/ W5500_Port_Init \/ W5500_HW_Reset
  BY <1>5 DEF Banner, W5500_Port_Init, W5500_HW_Reset, WriteReset,
             RegisterCallbacks
<1>6. CASE ChipAccess
  BY <1>6 DEF ChipAccess, W5500_ChipInit, GoOn, W5500_Transfer, W5500_CrisEnter,
             W5500_CS_Select, W5500_SPI_Byte, W5500_CS_Deselect,
             W5500_CrisExit, Elapse
<1>7. CASE Tick
  BY <1>7 DEF Tick, SysTick_Handler
<1>8. CASE Time
  BY <1>8 DEF Time, Pass, Elapse
<1> QED BY <1>1, <1>2, <1>3, <1>4, <1>5, <1>6, <1>7, <1>8 DEF Next, main

LEMMA CountTypes ==
  IInv /\ Next =>
    /\ hclk' \in Nat \ {0} /\ reload' \in Nat /\ phase' \in Nat
    /\ left' \in Nat /\ held' \in Nat /\ missed' \in Nat
    /\ delay' \in 0 .. 3 /\ pulse' \in 0 .. Millisecond /\ settled' \in 0 .. Millisecond
<1> SUFFICES ASSUME IInv, Next
             PROVE  /\ hclk' \in Nat \ {0} /\ reload' \in Nat /\ phase' \in Nat
                    /\ left' \in Nat /\ held' \in Nat /\ missed' \in Nat
                    /\ delay' \in 0 .. 3
                    /\ pulse' \in 0 .. Millisecond /\ settled' \in 0 .. Millisecond
  OBVIOUS
<1>0. /\ hclk \in Nat \ {0} /\ reload \in Nat /\ phase \in Nat
      /\ left \in Nat /\ held \in Nat /\ missed \in Nat
      /\ delay \in 0 .. 3 /\ pulse \in 0 .. Millisecond /\ settled \in 0 .. Millisecond
      /\ pc \in FromOverdrive => rcc.pll = 216
  BY DEF IInv, TypeOK, PortTypeOK, ClockInv
<1> USE <1>0, PortAssumption DEF Step, Simple
<1>1. CASE MPU_Config \/ HAL_Init
  BY <1>1 DEF MPU_Config, HAL_Init, HSI_VALUE
<1>2. CASE SystemClock_Config
  BY <1>2 DEF SystemClock_Config, HAL_RCC_OscConfig, EnableOverDrive,
             SwitchClock, RestartTick, Error_Handler, FromSysclk,
             FromOverdrive
<1>3. CASE MX_GPIO_Init
  BY <1>3 DEF MX_GPIO_Init, GpioClocks, PinLevels, Output
<1>4. CASE MX_SPI2_Init \/ MX_USART1_UART_Init
  BY <1>4 DEF MX_SPI2_Init, MX_USART1_UART_Init, Error_Handler
<1>5. CASE Banner \/ W5500_Port_Init \/ W5500_HW_Reset
  BY <1>5 DEF Banner, W5500_Port_Init, W5500_HW_Reset, WriteReset,
             RegisterCallbacks, HAL_Delay
<1>6. CASE ChipAccess
  <2>1. CASE W5500_SPI_Byte
    BY <1>6, <2>1 DEF ChipAccess, W5500_SPI_Byte, Elapse
  <2>2. CASE W5500_CrisEnter
    BY <1>6, <2>2 DEF ChipAccess, W5500_CrisEnter
  <2>3. CASE W5500_CS_Select \/ W5500_CS_Deselect \/ W5500_CrisExit
    BY <1>6, <2>3 DEF ChipAccess, W5500_CS_Select, W5500_CS_Deselect, W5500_CrisExit
  <2> QED BY <1>6, <2>1, <2>2, <2>3 DEF ChipAccess, W5500_ChipInit, GoOn, W5500_Transfer
<1>7. CASE Tick
  BY <1>7 DEF Tick, SysTick_Handler
<1>8. CASE Time
  BY <1>8 DEF Time, Pass, Elapse, TickDue, Count
<1> QED BY <1>1, <1>2, <1>3, <1>4, <1>5, <1>6, <1>7, <1>8 DEF Next, main

LEMMA TypeKept == IInv /\ Next => TypeOK'
  BY LevelType, ModeType, RccType, BoardTypes, FlagTypes, CountTypes
     DEF TypeOK, PortTypeOK, Levels, Rccs

-----------------------------------------------------------------------------
LEMMA InitHolds == Init => IInv
<1> SUFFICES ASSUME Init PROVE IInv
  OBVIOUS
<1> USE PortAssumption DEF Init
<1>1. TypeOK
  <2>1. /\ mode \in [Pins -> Functions] /\ level \in [Pins -> {"low", "high"}]
        /\ rcc \in Rccs
    BY DEF Functions, Rccs, FLASH_LATENCY_7
  <2>2. PortTypeOK
    <3>1. pending \in BOOLEAN /\ primask \in BOOLEAN /\ bus \in Stages
      BY DEF Stages
    <3>2. /\ hclk \in Nat \ {0} /\ reload \in Nat /\ phase \in Nat
          /\ left \in Nat /\ held \in Nat /\ missed \in Nat /\ delay \in 0 .. 3
      BY DEF HSI_VALUE
    <3> QED BY <2>1, <3>1, <3>2 DEF PortTypeOK
  <2>3. pc \in Steps /\ pulse \in 0 .. Millisecond /\ settled \in 0 .. Millisecond
    BY DEF Steps
  <2> QED BY <2>1, <2>2, <2>3 DEF TypeOK, Rccs
<1>2. ClockInv /\ MaskInv /\ PartsInv
  BY DEF ClockInv, MaskInv, PartsInv, HSI_VALUE, FromChip, FromHigh, FromLow,
         FromReset, FromPort, FromBanner, FromUart, FromRst, FromLevel, FromGpio,
         FromSystick, FromSysclk, FromOverdrive
<1>3. PinInv /\ ResetInv /\ TickInv
  BY DEF PinInv, ResetInv, TickInv, SCS_Pin, RST_Pin, Pins, GPIOA, GPIOB, GPIOI,
         FromChip, FromHigh, FromLow, FromReset, FromPort, FromBanner, FromUart,
         FromRst, FromLevel, FromGpio, FromSystick, FromSysclk, FromOverdrive
<1> QED BY <1>1, <1>2, <1>3 DEF IInv

LEMMA StepHolds == IInv /\ [Next]_vars => IInv'
<1> SUFFICES ASSUME IInv, [Next]_vars PROVE IInv'
  OBVIOUS
<1>1. CASE Next
  BY <1>1, TypeKept, ClockInvKept, MaskInvKept, PartsInvKept, PinInvKept, ResetInvKept,
     TickInvKept DEF IInv
<1>2. CASE UNCHANGED vars
  BY <1>2 DEF vars, portVars, boardVars, IInv, TypeOK, PortTypeOK, ClockInv, MaskInv,
              PartsInv, PinInv, ResetInv, TickInv, Waited, Ticks
<1> QED BY <1>1, <1>2

LEMMA Invariance == Spec => []IInv
  BY InitHolds, StepHolds, PTL DEF Spec

-----------------------------------------------------------------------------
(* The variables keep their types: no access counts below 0. *)
THEOREM TypeCorrect == Spec => []TypeOK
<1>1. IInv => TypeOK
  BY DEF IInv
<1> QED BY <1>1, Invariance, PTL

(* No interrupt splits an access, and the chip is selected in accesses only.*)
THEOREM AccessesAreWhole == Spec => []AccessWhole
<1>1. IInv => AccessWhole
  <2> SUFFICES ASSUME IInv, Low(SCS_Pin) PROVE AccessWhole
    BY DEF AccessWhole
  <2>1. bus = "selected" /\ primask /\ pc \in {"mac", "loop"}
    BY DEF IInv, MaskInv, PinInv, Low
  <2>2. ready = Parts
    <3>1. ready \subseteq Parts /\ PartsInv
      BY DEF IInv, TypeOK
    <3>2. {"SPI2", "hspi", "callbacks"} \subseteq ready
      BY <2>1, <3>1 DEF PartsInv, FromChip, FromHigh, FromLow, FromReset, FromPort,
                        FromBanner, FromUart, FromRst, FromLevel, FromGpio,
                        FromSystick, FromSysclk, FromOverdrive
    <3> QED BY <3>1, <3>2 DEF Parts
  <2>3. ~Low(RST_Pin)
    BY <2>1 DEF IInv, PinInv, Low, FromChip, FromHigh
  <2> QED BY <2>1, <2>2, <2>3
          DEF IInv, PartsInv, AccessWhole, FromChip, FromHigh, FromLow, FromReset,
              FromPort, FromBanner, FromUart, FromRst, FromLevel, FromGpio,
              FromSystick, FromSysclk, FromOverdrive
<1> QED BY <1>1, Invariance, PTL

(* The chip's reset and its time to start are long enough. *)
THEOREM ResetIsTimed == Spec => []ResetTimed
<1>1. IInv => ResetTimed
  BY PortAssumption DEF IInv, ResetTimed, MaskInv, ResetInv, FromChip, FromHigh,
                        FromLow, FromReset, FromPort, FromBanner, FromUart,
                        FromRst, FromLevel, FromGpio, FromSystick, FromSysclk,
                        FromOverdrive
<1> QED BY <1>1, Invariance, PTL

(* How many ticks an access can lose, whatever its length. *)
THEOREM TicksAreCounted == Spec => []TicksMissed
<1>1. IInv => TicksMissed
  <2> SUFFICES ASSUME IInv, missed > 0 PROVE missed * Period < held
    BY DEF TicksMissed
  <2>1. Period = Millisecond
    BY PortAssumption DEF IInv, TickInv, ClockInv, Period, FromChip, FromHigh,
                          FromLow, FromReset, FromPort, FromBanner, FromUart,
                          FromRst, FromLevel, FromGpio, FromSystick, FromSysclk,
                          FromOverdrive
  <2> QED BY <2>1 DEF IInv, TickInv
<1> QED BY <1>1, Invariance, PTL

(* The core is never too fast for its supply and its flash. *)
THEOREM ClockIsSafe == Spec => []ClockSafe
<1>1. IInv => ClockSafe
  BY DEF IInv, ClockSafe, ClockInv
<1> QED BY <1>1, Invariance, PTL

(* The console's rate fits the clock, from the first line that is printed.  *)
THEOREM ConsoleIsTimed == Spec => []ConsoleTimed
<1>1. IInv => ConsoleTimed
  BY DEF IInv, ConsoleTimed, Printing, ClockInv, PartsInv, FromChip, FromHigh,
         FromLow, FromReset, FromPort, FromBanner, FromUart, FromRst, FromLevel,
         FromGpio, FromSystick, FromSysclk, FromOverdrive
<1> QED BY <1>1, Invariance, PTL
=============================================================================
