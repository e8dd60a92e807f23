------------------------------ MODULE ModbusRTU ------------------------------
(***************************************************************************)
(* The Modbus RTU slave of the controller: the FreeModbus core (mb.c,      *)
(* rtu/mbrtu.c) on its FreeRTOS / CH32V307 port (portevent.c,              *)
(* portserial.c, porttimer.c, hal_usart.c, hal_timers.c).                  *)
(*                                                                         *)
(* Five activities share the state, in the order of their priorities:      *)
(*   - the UART4 interrupt (a character received, a character sent);       *)
(*   - the TIM4 interrupt of the t3.5 timer.  Its priority byte is 0x90,   *)
(*     the UART's is 0x70 (PFIC_IRQ_ENABLE_PG2 with (1,5) and (1,3)), so   *)
(*     the UART interrupt nests inside it;                                 *)
(*   - the FreeRTOS timer daemon, which performs the "FromISR" updates of  *)
(*     the two event groups (xEventGroupSetBitsFromISR pends them to it);  *)
(*   - the Serial task (StartUARTTask), which feeds the transmitter;       *)
(*   - the Modbus task (MBRTU_task), which polls the stack.                *)
(* The bus master is the environment.  ENTER_CRITICAL_SECTION is an empty  *)
(* macro in this port, so every step of a task can be interrupted.         *)
(***************************************************************************)
EXTENDS Integers, Sequences

CONSTANTS
  Kinds,        \* the kinds of frames on the bus, see KindType
  MaxFrames,    \* bound: how many frames the master sends
  SizeMax,      \* MB_SER_PDU_SIZE_MAX, the size of ucRTUBuf (256 in the build)
  T35Chars,     \* period of the t3.5 timer in character times (162 in the build)
  Paced         \* TRUE: the master waits until the slave is done with a frame

MB_SER_PDU_SIZE_MIN == 4

\* What matters of a frame: whom it addresses, its length in characters, whether
\* its CRC is right, and the length of the PDU its handler answers with.
KindType == [adr : {"own", "other", "broadcast"}, len : 1 .. SizeMax,
             ok : BOOLEAN, rlen : 1 .. SizeMax - 3]

ASSUME KindsAssumption == Kinds \subseteq KindType
ASSUME BoundsAssumption == /\ MaxFrames \in Nat
                           /\ Paced \in BOOLEAN

\* At 19200 baud the timer period (1822 ticks of 19607 Hz) is 162 characters of
\* 11 bits, the receive buffer holds 256 and its position is a USHORT.
ASSUME T35Assumption == /\ SizeMax \in Nat /\ T35Chars \in Nat
                        /\ 5 <= SizeMax /\ SizeMax < 65536
                        /\ T35Chars + 1 < SizeMax

VARIABLES
  \* the bus and its master
  sent,               \* the kinds of the frames sent so far, the last one being current
  nxt,                \* characters of the current frame already on the wire
  seen,               \* the receiver saw the start bit of the character on the wire
  heard,              \* the characters the master has heard since its last frame
  applied,            \* how often the handler has run on each frame
  \* UART4, the RS485 driver and TIM4
  rxne, rdr,          \* RXNE flag and receive data register
  rxneie, tcie,       \* interrupt enables for RXNE and TC
  tdr,                \* the character being sent
  de,                 \* RS485_EN pin: the driver (and not the receiver) is on
  timerOn, elapsed,   \* CEN bit of TIM4; character times since its counter was 0
  \* mbrtu.c
  eRcvState, eSndState, usRcvBufferPos, ucRTUBuf, pucSndBufferCur, usSndBufferCount,
  \* FreeRTOS objects
  pended,             \* updates of event groups queued for the timer daemon
  xSlaveOsEventGroup, \* bits set in the event group of the Modbus stack
  xSerialEventGroup,  \* EVENT_SERIAL_TRANS_START is set
  \* where each activity is, and the static variables of eMBPoll
  timerPc, serialPc, mbPc, ucRcvAddress, usLength,
  exec,               \* the frames the running handler has read its request from
  hung                \* an assert failed inside an interrupt

busVars   == <<sent, nxt, seen, heard>>
uartVars  == <<rxne, rdr, rxneie, tcie, tdr, de>>
timerVars == <<timerOn, elapsed>>
rxVars    == <<eRcvState, usRcvBufferPos>>
txVars    == <<eSndState, pucSndBufferCur, usSndBufferCount>>
groupVars == <<xSlaveOsEventGroup, xSerialEventGroup>>
pollVars  == <<ucRcvAddress, usLength, exec, applied>>
vars == <<busVars, uartVars, timerVars, rxVars, txVars, groupVars, pollVars,
          ucRTUBuf, pended, timerPc, serialPc, mbPc, hung>>

-----------------------------------------------------------------------------
(* Characters.  Character i of the n-th frame is <<n, i>>, character i of    *)
(* the answer built from it is <<-n, i>>; what is neither is noise.  An      *)
(* answer built from a request that was overwritten has the number Mixed.    *)

Mixed == MaxFrames + 1
Noise == <<0, 0>>
Tags  == (-Mixed) .. MaxFrames
Chars == Tags \X (0 .. SizeMax - 1)
Slots == 0 .. SizeMax - 1

\* The length of the PDU of answer n; an exception answer has two bytes.
AnswerLength(n) == IF n \in DOMAIN sent THEN sent[n].rlen ELSE 2

Answer(n) == [i \in 1 .. AnswerLength(n) + 3 |-> <<-n, i - 1>>]

\* The slave address a character in the address field stands for.
AddressIn(c) == IF c[1] \in DOMAIN sent THEN sent[c[1]].adr
                ELSE IF c[1] < 0 THEN "own" ELSE "other"

\* usMBCRC16 over the first n characters of the buffer is 0.
CrcOk(n) ==
  \/ \E f \in DOMAIN sent : /\ sent[f].ok
                            /\ n = sent[f].len
                            /\ \A i \in 0 .. n - 1 : ucRTUBuf[i] = <<f, i>>
  \/ \E f \in 1 .. Mixed :  /\ n = AnswerLength(f) + 3
                            /\ \A i \in 0 .. n - 1 : ucRTUBuf[i] = <<-f, i>>

\* The check of eMBRTUReceive.
AcceptFrame_NoCrc(n) == n >= MB_SER_PDU_SIZE_MIN
AcceptFrame(n) == n >= MB_SER_PDU_SIZE_MIN /\ CrcOk(n)

\* The check of eMBPoll.
ForUs_Any(address) == TRUE
ForUs(address) == address \in {"own", "broadcast"}

-----------------------------------------------------------------------------
(* Events.  The port sets the value of the enumeration as the bits of the    *)
(* event group, so EV_READY sets none and EV_FRAME_SENT sets the bits of     *)
(* EV_FRAME_RECEIVED and EV_EXECUTE.                                         *)

EV_READY          == 0
EV_FRAME_RECEIVED == 1
EV_EXECUTE        == 2
EV_FRAME_SENT     == 3
Events            == EV_READY .. EV_FRAME_SENT

EventBits(e) == {b \in {0, 1} : (e \div (2 ^ b)) % 2 = 1}

xMBPortEventPost(e) == Append(pended, [group |-> "slave", bits |-> EventBits(e)])

SerialUpdate == [group |-> "serial", bits |-> {0}]
PendedType   == [group : {"slave", "serial"}, bits : SUBSET {0, 1}]

-----------------------------------------------------------------------------
SlaveInit ==
  /\ rxne = FALSE /\ rdr = Noise /\ rxneie = FALSE
  /\ tcie = FALSE /\ tdr = Noise /\ de = FALSE
  /\ timerOn = FALSE /\ elapsed = 0
  /\ eRcvState = "INIT" /\ usRcvBufferPos = 0
  /\ ucRTUBuf = [i \in Slots |-> Noise]
  /\ eSndState = "IDLE" /\ pucSndBufferCur = 0 /\ usSndBufferCount = 0
  /\ pended = <<>> /\ xSlaveOsEventGroup = {} /\ xSerialEventGroup = FALSE
  /\ timerPc = "none" /\ serialPc = "wait" /\ mbPc = "start"
  /\ ucRcvAddress = "other" /\ usLength = 0 /\ exec = {}
  /\ hung = FALSE

Init ==
  /\ sent = <<>> /\ nxt = 0 /\ seen = FALSE /\ heard = <<>>
  /\ applied = [f \in 1 .. MaxFrames |-> 0]
  /\ SlaveInit

-----------------------------------------------------------------------------
(* The bus master.                                                           *)

Current == Len(sent)
Sending == Current > 0 /\ nxt < sent[Current].len

\* An interrupt preempts the tasks as soon as it is raised.
RxPending == rxne /\ rxneie

\* The slave is waiting for the next frame and nothing is under way.
Quiescent ==
  /\ mbPc = "get" /\ serialPc = "wait" /\ timerPc = "none" /\ pended = <<>>
  /\ xSlaveOsEventGroup = {} /\ ~xSerialEventGroup
  /\ ~rxne /\ ~timerOn /\ ~tcie /\ eSndState = "IDLE"

\* The first start bit of a new frame.
MasterBegin(k) ==
  /\ ~hung /\ ~Sending /\ Current < MaxFrames
  /\ Paced => Quiescent
  /\ sent' = Append(sent, k)
  /\ nxt' = 0
  /\ seen' = ~de
  /\ heard' = <<>>
  /\ UNCHANGED <<uartVars, timerVars, rxVars, txVars, groupVars, pollVars,
                 ucRTUBuf, pended, timerPc, serialPc, mbPc, hung>>

\* A character of the frame ends and the next begins.  While the RS485 driver
\* is on its receiver is off: a character that began before that is garbled,
\* one that began after it is not seen.  A character takes one character time,
\* in which the interrupts and the timer daemon get to run.
MasterChar ==
  /\ ~hung /\ Sending
  /\ timerPc = "none" /\ ~RxPending /\ pended = <<>>
  /\ timerOn => elapsed < T35Chars
  /\ elapsed' = IF timerOn THEN elapsed + 1 ELSE elapsed
  /\ nxt' = nxt + 1
  /\ seen' = ~de
  /\ IF seen /\ ~rxne
       THEN /\ rxne' = TRUE
            /\ rdr' = IF de THEN Noise ELSE <<Current, nxt>>
       ELSE UNCHANGED <<rxne, rdr>>
  /\ UNCHANGED <<sent, heard, rxneie, tcie, tdr, de, timerOn, rxVars, txVars, groupVars,
                 pollVars, ucRTUBuf, pended, timerPc, serialPc, mbPc, hung>>

-----------------------------------------------------------------------------
(* The UART4 interrupt.                                                      *)

\* vMBPortTimersEnable only sets CEN: a running timer goes on counting.
vMBPortTimersEnable_NotFirst ==
  /\ timerOn' = (timerOn \/ eRcvState # "IDLE")
  /\ elapsed' = IF timerOn THEN elapsed ELSE 0

vMBPortTimersEnable ==
  /\ timerOn' = TRUE
  /\ elapsed' = IF timerOn THEN elapsed ELSE 0

\* Where xMBRTUReceiveFSM puts the character.
StoreSlot_NoReset == usRcvBufferPos
StoreSlot == IF eRcvState = "IDLE" THEN 0 ELSE usRcvBufferPos

\* HAL_UASRT_IRQ with RXNE set: HAL_UART_RxCpltCallback, xMBRTUReceiveFSM.
RxIsr ==
  /\ ~hung /\ RxPending
  /\ rxne' = FALSE
  /\ IF eSndState # "IDLE"
       THEN /\ hung' = TRUE
            /\ UNCHANGED <<rxVars, ucRTUBuf, timerVars>>
       ELSE /\ LET full == usRcvBufferPos >= SizeMax
                   store == eRcvState = "IDLE" \/ (eRcvState = "RCV" /\ ~full)
               IN  /\ eRcvState' = CASE eRcvState = "IDLE" -> "RCV"
                                     [] eRcvState = "RCV" /\ full -> "ERROR"
                                     [] OTHER -> eRcvState
                   /\ usRcvBufferPos' = IF store THEN StoreSlot + 1 ELSE usRcvBufferPos
                   /\ ucRTUBuf' = IF store THEN [ucRTUBuf EXCEPT ![StoreSlot] = rdr] ELSE ucRTUBuf
            /\ vMBPortTimersEnable
            /\ UNCHANGED hung
  /\ UNCHANGED <<busVars, rdr, rxneie, tcie, tdr, de, txVars, groupVars, pollVars,
                 pended, timerPc, serialPc, mbPc>>

\* The TC interrupt is masked before the callback runs.
MaskTc_Missing == UNCHANGED tcie
MaskTc == tcie' = FALSE

\* HAL_UASRT_IRQ with TC set: HAL_UART_TxCpltCallback.
TcIsr ==
  /\ ~hung /\ tcie
  /\ MaskTc
  /\ heard' = IF Len(heard) < SizeMax THEN Append(heard, tdr) ELSE heard
  /\ pended' = Append(pended, SerialUpdate)
  /\ UNCHANGED <<sent, nxt, seen, rxne, rdr, rxneie, tdr, de, timerVars, rxVars, txVars,
                 groupVars, pollVars, ucRTUBuf, timerPc, serialPc, mbPc, hung>>

-----------------------------------------------------------------------------
(* The TIM4 interrupt: xMBRTUTimerT35Expired.  The timer expires once its    *)
(* period has passed, which during a frame takes T35Chars characters.        *)

T35Expired ==
  /\ ~hung /\ timerPc = "none" /\ timerOn
  /\ (Sending \/ RxPending) => elapsed = T35Chars
  /\ elapsed' = 0
  /\ IF eRcvState = "IDLE"
       THEN /\ hung' = TRUE
            /\ UNCHANGED <<pended, timerPc>>
       ELSE /\ pended' = CASE eRcvState = "INIT" -> xMBPortEventPost(EV_READY)
                           [] eRcvState = "RCV"  -> xMBPortEventPost(EV_FRAME_RECEIVED)
                           [] OTHER -> pended
            /\ timerPc' = "disable"
            /\ UNCHANGED hung
  /\ UNCHANGED <<busVars, uartVars, timerOn, rxVars, txVars, groupVars, pollVars,
                 ucRTUBuf, serialPc, mbPc>>

T35Disable_Missing ==
  /\ ~hung /\ timerPc = "disable"
  /\ timerPc' = "idle"
  /\ UNCHANGED <<busVars, uartVars, timerVars, rxVars, txVars, groupVars, pollVars,
                 ucRTUBuf, pended, serialPc, mbPc, hung>>

T35Disable ==
  /\ ~hung /\ timerPc = "disable"
  /\ timerOn' = FALSE
  /\ timerPc' = "idle"
  /\ UNCHANGED <<busVars, uartVars, elapsed, rxVars, txVars, groupVars, pollVars,
                 ucRTUBuf, pended, serialPc, mbPc, hung>>

T35Idle ==
  /\ ~hung /\ timerPc = "idle"
  /\ eRcvState' = "IDLE"
  /\ timerPc' = "none"
  /\ UNCHANGED <<busVars, uartVars, timerVars, usRcvBufferPos, txVars, groupVars, pollVars,
                 ucRTUBuf, pended, serialPc, mbPc, hung>>

-----------------------------------------------------------------------------
(* The timer daemon task applies the pended updates in order.                *)

TimerDaemon ==
  /\ ~hung /\ timerPc = "none" /\ ~RxPending /\ pended # <<>>
  /\ LET update == Head(pended)
     IN  IF update.group = "slave"
           THEN /\ xSlaveOsEventGroup' = xSlaveOsEventGroup \cup update.bits
                /\ UNCHANGED xSerialEventGroup
           ELSE /\ xSerialEventGroup' = TRUE
                /\ UNCHANGED xSlaveOsEventGroup
  /\ pended' = Tail(pended)
  /\ UNCHANGED <<busVars, uartVars, timerVars, rxVars, txVars, pollVars, ucRTUBuf,
                 timerPc, serialPc, mbPc, hung>>

\* A task runs when no interrupt and no task of a higher priority does.
TaskRuns   == ~hung /\ timerPc = "none" /\ ~RxPending /\ pended = <<>>
MBTaskRuns == TaskRuns /\ serialPc = "wait" /\ ~xSerialEventGroup

-----------------------------------------------------------------------------
(* The Serial task: StartUARTTask calling xMBRTUTransmitFSM.                 *)

SerialWake_NotCleared ==
  /\ TaskRuns /\ serialPc = "wait" /\ xSerialEventGroup
  /\ serialPc' = "fsm"
  /\ UNCHANGED <<busVars, uartVars, timerVars, rxVars, txVars, groupVars, pollVars,
                 ucRTUBuf, pended, timerPc, mbPc, hung>>

\* xEventGroupWaitBits, which clears the bit on exit.
SerialWake ==
  /\ TaskRuns /\ serialPc = "wait" /\ xSerialEventGroup
  /\ xSerialEventGroup' = FALSE
  /\ serialPc' = "fsm"
  /\ UNCHANGED <<busVars, uartVars, timerVars, rxVars, txVars, xSlaveOsEventGroup, pollVars,
                 ucRTUBuf, pended, timerPc, mbPc, hung>>

SendCharacter_NoInterrupt ==
  /\ tdr' = ucRTUBuf[pucSndBufferCur]
  /\ UNCHANGED tcie
  /\ de' = TRUE

\* xMBPortSerialPutByte, HAL_SendByte_IT.
SendCharacter ==
  /\ tdr' = ucRTUBuf[pucSndBufferCur]
  /\ tcie' = TRUE
  /\ de' = TRUE

\* xMBRTUTransmitFSM up to the call of vMBPortSerialEnable.  A failed assert
\* spins at the priority of this task: the Modbus task never runs again.
SerialTransmit ==
  /\ TaskRuns /\ serialPc = "fsm"
  /\ IF eRcvState # "IDLE"
       THEN /\ serialPc' = "dead"
            /\ UNCHANGED <<tdr, tcie, de, pucSndBufferCur, usSndBufferCount, pended>>
       ELSE IF eSndState = "XMIT" /\ usSndBufferCount # 0
         THEN /\ SendCharacter
              /\ pucSndBufferCur' = pucSndBufferCur + 1
              /\ usSndBufferCount' = usSndBufferCount - 1
              /\ serialPc' = "wait"
              /\ UNCHANGED pended
         ELSE /\ pended' = IF eSndState = "XMIT" THEN xMBPortEventPost(EV_FRAME_SENT) ELSE pended
              /\ serialPc' = "enable"
              /\ UNCHANGED <<tdr, tcie, de, pucSndBufferCur, usSndBufferCount>>
  /\ UNCHANGED <<busVars, rxne, rdr, rxneie, timerVars, rxVars, eSndState, groupVars, pollVars,
                 ucRTUBuf, timerPc, mbPc, hung>>

\* vMBPortSerialEnable( TRUE, FALSE ).
ReceiveEnable_DriverOn == /\ rxneie' = TRUE
                          /\ UNCHANGED de
                          /\ xSerialEventGroup' = FALSE

ReceiveEnable == /\ rxneie' = TRUE
                 /\ de' = FALSE
                 /\ xSerialEventGroup' = FALSE

SerialEnable ==
  /\ TaskRuns /\ serialPc = "enable"
  /\ ReceiveEnable
  /\ serialPc' = "idle"
  /\ UNCHANGED <<busVars, rxne, rdr, tcie, tdr, timerVars, rxVars, txVars, xSlaveOsEventGroup,
                 pollVars, ucRTUBuf, pended, timerPc, mbPc, hung>>

SerialIdle ==
  /\ TaskRuns /\ serialPc = "idle"
  /\ eSndState' = "IDLE"
  /\ serialPc' = "wait"
  /\ UNCHANGED <<busVars, uartVars, timerVars, rxVars, pucSndBufferCur, usSndBufferCount,
                 groupVars, pollVars, ucRTUBuf, pended, timerPc, mbPc, hung>>

SerialTask == SerialWake \/ SerialTransmit \/ SerialEnable \/ SerialIdle

-----------------------------------------------------------------------------
(* The Modbus task: MBRTU_task, eMBPoll and what they call.                  *)

\* eMBInit and eMBEnable: eMBRTUStart.
MBStart ==
  /\ MBTaskRuns /\ mbPc = "start"
  /\ eRcvState' = "INIT"
  /\ ReceiveEnable
  /\ vMBPortTimersEnable
  /\ mbPc' = "delay"
  /\ UNCHANGED <<busVars, rxne, rdr, tcie, tdr, usRcvBufferPos, txVars, xSlaveOsEventGroup,
                 pollVars, ucRTUBuf, pended, timerPc, serialPc, hung>>

\* vTaskDelay(1).
MBDelay ==
  /\ MBTaskRuns /\ mbPc = "delay"
  /\ mbPc' = "get"
  /\ UNCHANGED <<busVars, uartVars, timerVars, rxVars, txVars, groupVars, pollVars,
                 ucRTUBuf, pended, timerPc, serialPc, hung>>

\* xMBPortEventGet and the switch of eMBPoll: the value of all pending bits
\* is compared with the events.
MBEventGet ==
  /\ MBTaskRuns /\ mbPc = "get" /\ xSlaveOsEventGroup # {}
  /\ mbPc' = CASE xSlaveOsEventGroup = EventBits(EV_FRAME_RECEIVED) -> "receive"
               [] xSlaveOsEventGroup = EventBits(EV_EXECUTE) -> "execute"
               [] OTHER -> "delay"
  /\ xSlaveOsEventGroup' = {}
  /\ UNCHANGED <<busVars, uartVars, timerVars, rxVars, txVars, xSerialEventGroup, pollVars,
                 ucRTUBuf, pended, timerPc, serialPc, hung>>

\* eMBRTUReceive: the assert and the check of length and CRC.
MBReceiveCheck ==
  /\ MBTaskRuns /\ mbPc = "receive"
  /\ mbPc' = IF usRcvBufferPos >= SizeMax THEN "dead"
             ELSE IF AcceptFrame(usRcvBufferPos) THEN "latch" ELSE "delay"
  /\ UNCHANGED <<busVars, uartVars, timerVars, rxVars, txVars, groupVars, pollVars,
                 ucRTUBuf, pended, timerPc, serialPc, hung>>

\* *pusLength of eMBRTUReceive, an unsigned 16-bit number.
PduLength_Signed == usRcvBufferPos - 3
PduLength == (usRcvBufferPos - 3) % 65536

\* The rest of eMBRTUReceive, which reads buffer and position again, and the
\* address check of eMBPoll.
MBReceiveLatch ==
  /\ MBTaskRuns /\ mbPc = "latch"
  /\ ucRcvAddress' = AddressIn(ucRTUBuf[0])
  /\ usLength' = PduLength
  /\ pended' = IF ForUs(ucRcvAddress') THEN xMBPortEventPost(EV_EXECUTE) ELSE pended
  /\ mbPc' = "delay"
  /\ UNCHANGED <<busVars, uartVars, timerVars, rxVars, txVars, groupVars, exec, applied,
                 ucRTUBuf, timerPc, serialPc, hung>>

\* EV_EXECUTE: the function code is read from the frame that is in the buffer.
MBExecute ==
  /\ MBTaskRuns /\ mbPc = "execute"
  /\ exec' = {ucRTUBuf[1][1]}
  /\ mbPc' = "handler"
  /\ UNCHANGED <<busVars, uartVars, timerVars, rxVars, txVars, groupVars, ucRcvAddress,
                 usLength, applied, ucRTUBuf, pended, timerPc, serialPc, hung>>

\* The function handler, which may have blocked on the EEPROM meanwhile, reads
\* its parameters, changes the registers and writes its answer over them.
MBHandler ==
  /\ MBTaskRuns /\ mbPc = "handler"
  /\ LET read == exec \cup {ucRTUBuf[2][1]}
         whole == {f \in DOMAIN sent : read = {f}}
         n == IF whole = {} THEN Mixed ELSE CHOOSE f \in whole : TRUE
     IN  /\ exec' = read
         /\ applied' = [f \in DOMAIN applied |->
                          IF f \in whole /\ applied[f] < 2 THEN applied[f] + 1 ELSE applied[f]]
         /\ IF ucRcvAddress = "broadcast"
              THEN /\ mbPc' = "delay"
                   /\ UNCHANGED <<ucRTUBuf, usLength>>
              ELSE /\ mbPc' = "send"
                   /\ usLength' = AnswerLength(n)
                   /\ ucRTUBuf' = [i \in Slots |->
                                     IF i \in 1 .. AnswerLength(n) THEN <<-n, i>> ELSE ucRTUBuf[i]]
  /\ UNCHANGED <<busVars, uartVars, timerVars, rxVars, txVars, groupVars, ucRcvAddress,
                 pended, timerPc, serialPc, hung>>

\* eMBRTUSend: the check of the receiver.
MBSendCheck ==
  /\ MBTaskRuns /\ mbPc = "send"
  /\ mbPc' = IF eRcvState = "IDLE" THEN "build" ELSE "delay"
  /\ UNCHANGED <<busVars, uartVars, timerVars, rxVars, txVars, groupVars, pollVars,
                 ucRTUBuf, pended, timerPc, serialPc, hung>>

\* eMBRTUSend: address and CRC go around the PDU.
MBSendBuild ==
  /\ MBTaskRuns /\ mbPc = "build"
  /\ ucRTUBuf' = [i \in Slots |-> IF i \in {0, usLength + 1, usLength + 2}
                                    THEN <<ucRTUBuf[1][1], i>> ELSE ucRTUBuf[i]]
  /\ pucSndBufferCur' = 0
  /\ usSndBufferCount' = usLength + 3
  /\ eSndState' = "XMIT"
  /\ mbPc' = "driver"
  /\ UNCHANGED <<busVars, uartVars, timerVars, rxVars, groupVars, pollVars, pended,
                 timerPc, serialPc, hung>>

\* vMBPortSerialEnable( FALSE, TRUE ): the driver on, ...
MBSendDriver ==
  /\ MBTaskRuns /\ mbPc = "driver"
  /\ de' = TRUE
  /\ mbPc' = "start_tx"
  /\ UNCHANGED <<busVars, rxne, rdr, rxneie, tcie, tdr, timerVars, rxVars, txVars, groupVars,
                 pollVars, ucRTUBuf, pended, timerPc, serialPc, hung>>

\* ... the receive interrupt off, and the Serial task woken.
MBSendStart ==
  /\ MBTaskRuns /\ mbPc = "start_tx"
  /\ rxneie' = FALSE
  /\ xSerialEventGroup' = TRUE
  /\ mbPc' = "delay"
  /\ UNCHANGED <<busVars, rxne, rdr, tcie, tdr, de, timerVars, rxVars, txVars,
                 xSlaveOsEventGroup, pollVars, ucRTUBuf, pended, timerPc, serialPc, hung>>

MBTask == \/ MBStart \/ MBDelay \/ MBEventGet \/ MBReceiveCheck \/ MBReceiveLatch
          \/ MBExecute \/ MBHandler \/ MBSendCheck \/ MBSendBuild \/ MBSendDriver \/ MBSendStart

-----------------------------------------------------------------------------
\* An assert that fails in an interrupt stops everything, the task that feeds
\* the watchdog included: the controller restarts.
WatchdogReset ==
  /\ hung
  /\ rxne' = FALSE /\ rdr' = Noise /\ rxneie' = FALSE
  /\ tcie' = FALSE /\ tdr' = Noise /\ de' = FALSE
  /\ timerOn' = FALSE /\ elapsed' = 0
  /\ eRcvState' = "INIT" /\ usRcvBufferPos' = 0
  /\ ucRTUBuf' = [i \in Slots |-> Noise]
  /\ eSndState' = "IDLE" /\ pucSndBufferCur' = 0 /\ usSndBufferCount' = 0
  /\ pended' = <<>> /\ xSlaveOsEventGroup' = {} /\ xSerialEventGroup' = FALSE
  /\ timerPc' = "none" /\ serialPc' = "wait" /\ mbPc' = "start"
  /\ ucRcvAddress' = "other" /\ usLength' = 0 /\ exec' = {}
  /\ hung' = FALSE
  /\ UNCHANGED <<busVars, applied>>

Next ==
  \/ \E k \in Kinds : MasterBegin(k)
  \/ MasterChar
  \/ RxIsr \/ TcIsr
  \/ T35Expired \/ T35Disable \/ T35Idle
  \/ TimerDaemon
  \/ SerialTask
  \/ MBTask
  \/ WatchdogReset

Spec == Init /\ [][Next]_vars

\* Characters take a bounded time, enabled interrupts are served, the timer
\* runs out, and a runnable task is scheduled; the master may stay silent.
Fairness ==
  /\ WF_vars(MasterChar)
  /\ WF_vars(RxIsr) /\ WF_vars(TcIsr)
  /\ WF_vars(T35Expired) /\ WF_vars(T35Disable) /\ WF_vars(T35Idle)
  /\ WF_vars(TimerDaemon) /\ WF_vars(SerialTask) /\ WF_vars(MBTask)
  /\ WF_vars(WatchdogReset)

FairSpec == Spec /\ Fairness
-----------------------------------------------------------------------------
(* Properties.                                                               *)

BusTypeOK ==
  /\ sent \in Seq(Kinds) /\ Len(sent) <= MaxFrames
  /\ nxt \in 0 .. SizeMax
  /\ heard \in Seq(Chars) /\ Len(heard) <= SizeMax
  /\ applied \in [1 .. MaxFrames -> 0 .. 2]

\* The transmit pointer and count stay within ucRTUBuf.
CoreTypeOK ==
  /\ rdr \in Chars /\ tdr \in Chars /\ elapsed \in 0 .. T35Chars
  /\ usRcvBufferPos \in 0 .. SizeMax
  /\ ucRTUBuf \in [Slots -> Chars]
  /\ pucSndBufferCur \in 0 .. SizeMax /\ usSndBufferCount \in 0 .. SizeMax
  /\ pucSndBufferCur + usSndBufferCount <= SizeMax
  /\ usLength \in Nat /\ usLength < 65536

StateTypeOK ==
  /\ eRcvState \in {"INIT", "IDLE", "RCV", "ERROR"}
  /\ eSndState \in {"IDLE", "XMIT"}
  /\ timerPc \in {"none", "disable", "idle"}
  /\ serialPc \in {"wait", "fsm", "enable", "idle", "dead"}
  /\ mbPc \in {"start", "delay", "get", "receive", "latch", "execute", "handler",
               "send", "build", "driver", "start_tx", "dead"}
  /\ ucRcvAddress \in {"own", "other", "broadcast"}

GroupTypeOK ==
  /\ pended \in Seq(PendedType)
  /\ xSlaveOsEventGroup \subseteq {0, 1}
  /\ exec \subseteq Tags

FlagTypeOK ==
  /\ seen \in BOOLEAN
  /\ rxne \in BOOLEAN /\ rxneie \in BOOLEAN
  /\ tcie \in BOOLEAN /\ de \in BOOLEAN
  /\ timerOn \in BOOLEAN
  /\ xSerialEventGroup \in BOOLEAN
  /\ hung \in BOOLEAN

\* Every variable stays in its range.  The transmit pointer and count stay
\* within ucRTUBuf, so xMBRTUTransmitFSM never sends a byte behind its end.
TypeOK == BusTypeOK /\ CoreTypeOK /\ StateTypeOK /\ GroupTypeOK /\ FlagTypeOK

\* The assert usRcvBufferPos < MB_SER_PDU_SIZE_MAX of eMBRTUReceive cannot fail,
\* whatever the master sends, although xMBRTUReceiveFSM fills the whole buffer:
\* the timer is not restarted by a character, so it ends every frame after
\* T35Chars + 1 of them.
BufferNeverFull == usRcvBufferPos <= T35Chars + 1 /\ mbPc # "dead"

\* While a frame is being received the t3.5 timer runs, so the receiver always
\* comes back to idle, also when the UART interrupt nests inside the timer's.
ReceiverNotWedged == (eRcvState \in {"RCV", "ERROR"} /\ timerPc = "none" /\ ~hung) => timerOn

\* configTIMER_QUEUE_LENGTH is 4: an update of an event group is never refused,
\* which xMBPortEventPost and HAL_UART_TxCpltCallback would not notice.
PostNeverLost == Len(pended) <= 4

\* Something is still going to call xMBRTUTransmitFSM.
SerialWakeUp == \/ xSerialEventGroup \/ tcie \/ serialPc # "wait"
                \/ mbPc \in {"driver", "start_tx"}
                \/ \E i \in 1 .. Len(pended) : pended[i].group = "serial"

\* A transmission is never left half way: while eSndState is STATE_TX_XMIT the
\* call that sends the next character, or ends the transmission, is under way.
TransmissionNotStranded == eSndState = "XMIT" => SerialWakeUp

\* The RS485 driver is switched off again after every transmission (unless the
\* assert of xMBRTUTransmitFSM stopped the Serial task).
BusReleased == de ~> (~de \/ serialPc = "dead")

\* No character is written to the data register while the one before it is
\* still being sent.
NoTransmitOverrun == serialPc = "fsm" => ~tcie

\* The asserts of mbrtu.c hold.
AssertsHold == ~hung /\ serialPc # "dead" /\ mbPc # "dead"

\* A handler only ever sees one sound, whole frame for this slave, with its own
\* length: nothing wrote to ucRTUBuf between the CRC check and the handler.
ExecutesWholeFrame ==
  mbPc \in {"execute", "handler"} =>
    /\ Current > 0 /\ ~Sending
    /\ sent[Current].ok /\ sent[Current].adr # "other"
    /\ \A i \in 0 .. sent[Current].len - 1 : ucRTUBuf[i] = <<Current, i>>
    /\ usLength = sent[Current].len - 3

\* eMBPoll executes no request that was addressed to another slave.
ForeignFrameIgnored == \A f \in exec \cap DOMAIN sent : sent[f].adr # "other"

\* The t3.5 timer does not end a frame whose characters are still coming.  Not so for
\* frames longer than its period: a character does not reset it (hal_timers.c:37).
FrameNotCut == (timerPc = "disable" /\ eRcvState = "RCV") => ~(Sending /\ nxt > 0)

\* What the master has heard of the answer to its current frame.
answer == IF heard = <<>> THEN "none"
          ELSE IF heard = Answer(Current) THEN "complete"
          ELSE IF /\ Len(heard) < Len(Answer(Current))
                  /\ \A i \in 1 .. Len(heard) : heard[i] = Answer(Current)[i] THEN "partial"
          ELSE "corrupt"

\* With a master that waits for it, the slave keeps the promise of
\* ModbusTransaction: sound requests take effect exactly once and are answered
\* by one complete answer, all others are ignored.
Transaction == INSTANCE ModbusTransaction
Implements == Transaction!Spec
=============================================================================
