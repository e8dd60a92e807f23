-------------------------- MODULE ModbusRTU_proofs --------------------------
(* Proofs about ModbusRTU for every value of its constants: the safety       *)
(* invariants for a master that sends at any moment, then, for one that      *)
(* waits for the slave, the promise of ModbusTransaction.                    *)
EXTENDS ModbusRTU, SequenceTheorems, TLAPS

\* The answer a handler has left in ucRTUBuf fits the frame eMBRTUSend builds.
AnswerFits == mbPc \in {"send", "build"} => usLength <= SizeMax - 3

TypeInv == TypeOK /\ AnswerFits

\* The answer of a handler is a PDU of at least one byte that leaves room for
\* the address and the CRC.
LEMMA AnswerLengthType ==
  ASSUME BusTypeOK, NEW n
  PROVE  AnswerLength(n) \in 1 .. SizeMax - 3
<1>1. CASE n \in DOMAIN sent
  <2>1. sent[n] \in Kinds
    BY <1>1 DEF BusTypeOK
  <2> QED
    BY <1>1, <2>1, KindsAssumption, T35Assumption DEF KindType, AnswerLength
<1>2. CASE n \notin DOMAIN sent
  BY <1>2, T35Assumption DEF AnswerLength
<1> QED
  BY <1>1, <1>2

\* The current frame is no longer than the receive buffer.
LEMMA SendingFits ==
  ASSUME BusTypeOK, Sending
  PROVE  /\ Current \in 1 .. MaxFrames
         /\ nxt \in 0 .. SizeMax - 1
<1>1. Current \in 1 .. MaxFrames /\ sent[Current] \in Kinds
  BY BoundsAssumption DEF BusTypeOK, Sending, Current
<1>2. sent[Current].len \in 1 .. SizeMax
  BY <1>1, KindsAssumption DEF KindType
<1> QED
  BY <1>1, <1>2, T35Assumption DEF BusTypeOK, Sending

LEMMA CharTypes ==
  /\ Noise \in Chars
  /\ \A f \in Tags, i \in Slots : <<f, i>> \in Chars
  /\ \A c \in Chars : c[1] \in Tags
  /\ \A f \in 1 .. MaxFrames + 1 : f \in Int /\ -f \in Tags
<1>1. 0 \in Tags /\ 0 \in 0 .. SizeMax - 1
  BY BoundsAssumption, T35Assumption DEF Tags, Mixed
<1>2. Noise \in Chars
  BY <1>1 DEF Noise, Chars
<1>3. \A f \in Tags, i \in Slots : <<f, i>> \in Chars
  BY DEF Chars, Slots
<1>4. \A c \in Chars : c[1] \in Tags
  BY DEF Chars
<1>5. \A f \in 1 .. MaxFrames + 1 : f \in Int /\ -f \in Tags
  BY BoundsAssumption DEF Tags, Mixed
<1> QED
  BY <1>2, <1>3, <1>4, <1>5

LEMMA UpdateTypes ==
  /\ SerialUpdate \in PendedType
  /\ \A e : [group |-> "slave", bits |-> EventBits(e)] \in PendedType
BY DEF SerialUpdate, PendedType, EventBits

LEMMA PostType ==
  ASSUME pended \in Seq(PendedType), NEW e
  PROVE  xMBPortEventPost(e) \in Seq(PendedType)
BY UpdateTypes DEF xMBPortEventPost

LEMMA TypeInvInit == Init => TypeInv
<1> SUFFICES ASSUME Init PROVE TypeInv
  OBVIOUS
<1>1. BusTypeOK
  <2>1. sent \in Seq(Kinds) /\ Len(sent) = 0 /\ heard \in Seq(Chars) /\ Len(heard) = 0
    BY EmptySeq DEF Init
  <2> QED
    BY <2>1, BoundsAssumption, T35Assumption DEF Init, BusTypeOK
<1>2. CoreTypeOK
  BY CharTypes, T35Assumption DEF Init, SlaveInit, CoreTypeOK
<1>3. StateTypeOK
  BY DEF Init, SlaveInit, StateTypeOK
<1>4. GroupTypeOK
  BY EmptySeq DEF Init, SlaveInit, GroupTypeOK
<1>5. FlagTypeOK
  BY Zenon DEF Init, SlaveInit, FlagTypeOK
<1>6. AnswerFits
  BY DEF Init, SlaveInit, AnswerFits
<1> QED
  BY <1>1, <1>2, <1>3, <1>4, <1>5, <1>6 DEF TypeInv, TypeOK


LEMMA BusTypeNext == TypeInv /\ [Next]_vars => BusTypeOK'
<1> SUFFICES ASSUME TypeInv, [Next]_vars PROVE BusTypeOK'
  OBVIOUS
<1>0. BusTypeOK /\ tdr \in Chars
  BY DEF TypeInv, TypeOK, CoreTypeOK
<1>1. ASSUME NEW k \in Kinds, MasterBegin(k) PROVE BusTypeOK'
  <2>1. sent' \in Seq(Kinds) /\ Len(sent') <= MaxFrames
    BY <1>0, <1>1, BoundsAssumption DEF MasterBegin, BusTypeOK, Current
  <2>2. heard' \in Seq(Chars) /\ Len(heard') = 0
    BY <1>1, EmptySeq DEF MasterBegin
  <2> QED
    BY <1>0, <1>1, <2>1, <2>2, T35Assumption DEF MasterBegin, BusTypeOK, pollVars
<1>2. CASE MasterChar
  BY <1>0, <1>2, SendingFits, T35Assumption DEF MasterChar, BusTypeOK, pollVars
<1>3. CASE TcIsr
  BY <1>0, <1>3, T35Assumption DEF TcIsr, BusTypeOK, pollVars
<1>4. CASE MBHandler
  <2>1. \A f \in DOMAIN applied : applied'[f] \in 0 .. 2
    BY <1>0, <1>4 DEF MBHandler, BusTypeOK
  <2> QED
    BY <1>0, <1>4, <2>1 DEF MBHandler, BusTypeOK, busVars
<1>5. CASE \/ RxIsr \/ T35Expired \/ T35Disable \/ T35Idle \/ TimerDaemon \/ SerialTask
           \/ MBStart \/ MBDelay \/ MBEventGet \/ MBReceiveCheck \/ MBReceiveLatch \/ MBExecute
           \/ MBSendCheck \/ MBSendBuild \/ MBSendDriver \/ MBSendStart
           \/ WatchdogReset \/ UNCHANGED vars
  <2>1. UNCHANGED <<sent, nxt, heard, applied>>
    BY <1>5 DEF RxIsr, T35Expired, T35Disable, T35Idle, TimerDaemon, SerialTask, SerialWake,
         SerialTransmit, SerialEnable, SerialIdle, MBStart, MBDelay, MBEventGet, MBReceiveCheck,
         MBReceiveLatch, MBExecute, MBSendCheck, MBSendBuild, MBSendDriver, MBSendStart,
         WatchdogReset, vars, busVars, pollVars
  <2> QED
    BY <1>0, <2>1 DEF BusTypeOK
<1> QED
  BY <1>1, <1>2, <1>3, <1>4, <1>5 DEF Next, MBTask

LEMMA CoreTypeNext == TypeInv /\ [Next]_vars => CoreTypeOK'
<1> SUFFICES ASSUME TypeInv, [Next]_vars PROVE CoreTypeOK'
  OBVIOUS
<1> USE DEF busVars, uartVars, timerVars, rxVars, txVars, pollVars
<1>a. BusTypeOK
  BY DEF TypeInv, TypeOK
<1>b. CoreTypeOK
  BY DEF TypeInv, TypeOK
<1>c. AnswerFits
  BY DEF TypeInv, TypeOK
<1>1. CASE MasterChar
  <2>1. rdr' \in Chars
    <3>1. Noise \in Chars /\ <<Current, nxt>> \in Chars
      BY <1>b, <1>1, <1>a, SendingFits, CharTypes, BoundsAssumption DEF MasterChar, Tags, Slots, Mixed
    <3> QED
      BY <1>b, <1>1, <3>1 DEF MasterChar, CoreTypeOK
  <2>2. elapsed' \in 0 .. T35Chars
    BY <1>b, <1>1, T35Assumption DEF MasterChar, CoreTypeOK
  <2> QED
    BY <1>b, <1>1, <2>1, <2>2 DEF MasterChar, CoreTypeOK
<1>2. CASE RxIsr
  <2>1. elapsed' \in 0 .. T35Chars
    BY <1>b, <1>2, T35Assumption DEF RxIsr, vMBPortTimersEnable, CoreTypeOK
  <2>2. usRcvBufferPos' \in 0 .. SizeMax
    BY <1>b, <1>2, T35Assumption DEF RxIsr, StoreSlot, CoreTypeOK
  <2>3. ucRTUBuf' \in [Slots -> Chars]
    BY <1>b, <1>2 DEF RxIsr, CoreTypeOK
  <2> QED
    BY <1>b, <1>2, <2>1, <2>2, <2>3 DEF RxIsr, CoreTypeOK
<1>3. CASE T35Expired
  BY <1>b, <1>3, T35Assumption DEF T35Expired, CoreTypeOK
<1>4. CASE SerialTransmit
  <2>1. CASE UNCHANGED <<tdr, pucSndBufferCur, usSndBufferCount>>
    BY <1>b, <1>4, <2>1 DEF SerialTransmit, CoreTypeOK
  <2>2. CASE /\ usSndBufferCount # 0
             /\ tdr' = ucRTUBuf[pucSndBufferCur]
             /\ pucSndBufferCur' = pucSndBufferCur + 1
             /\ usSndBufferCount' = usSndBufferCount - 1
    <3>1. pucSndBufferCur \in Slots
      BY <1>b, <2>2, T35Assumption DEF CoreTypeOK, Slots
    <3> QED
      BY <1>b, <1>4, <2>2, <3>1, T35Assumption DEF SerialTransmit, CoreTypeOK
  <2> QED
    BY <1>4, <2>1, <2>2 DEF SerialTransmit, SendCharacter
<1>5. CASE MBStart
  BY <1>b, <1>5, T35Assumption DEF MBStart, vMBPortTimersEnable, CoreTypeOK
<1>6. CASE MBReceiveLatch
  BY <1>b, <1>6, T35Assumption DEF MBReceiveLatch, PduLength, CoreTypeOK
<1>7. CASE MBHandler
  <2>1. PICK n : /\ n \in DOMAIN sent \cup {Mixed}
                 /\ \/ UNCHANGED <<ucRTUBuf, usLength>>
                    \/ /\ usLength' = AnswerLength(n)
                       /\ ucRTUBuf' = [i \in Slots |-> IF i \in 1 .. AnswerLength(n)
                                                       THEN <<-n, i>> ELSE ucRTUBuf[i]]
    BY <1>7 DEF MBHandler
  <2>2. n \in 1 .. MaxFrames + 1
    BY <1>a, <2>1, BoundsAssumption DEF BusTypeOK, Mixed
  <2>3. AnswerLength(n) \in Nat /\ AnswerLength(n) < 65536
    BY <1>a, AnswerLengthType, T35Assumption
  <2>4. ucRTUBuf' \in [Slots -> Chars] /\ usLength' \in Nat /\ usLength' < 65536
    BY <1>b, <2>1, <2>2, <2>3, CharTypes DEF CoreTypeOK
  <2> QED
    BY <1>b, <1>7, <2>4 DEF MBHandler, CoreTypeOK
<1>8. CASE MBSendBuild
  <2>1. 1 \in Slots /\ ucRTUBuf[1][1] \in Tags
    BY <1>b, CharTypes, T35Assumption DEF CoreTypeOK, Slots
  <2>2. ucRTUBuf' \in [Slots -> Chars]
    BY <1>b, <1>8, <2>1, CharTypes DEF MBSendBuild, CoreTypeOK
  <2>3. usSndBufferCount' \in 0 .. SizeMax
    BY <1>b, <1>c, <1>8, T35Assumption DEF MBSendBuild, CoreTypeOK, AnswerFits
  <2> QED
    BY <1>b, <1>8, <2>2, <2>3, T35Assumption DEF MBSendBuild, CoreTypeOK
<1>9. CASE WatchdogReset
  BY <1>9, CharTypes, T35Assumption DEF WatchdogReset, CoreTypeOK
<1>10. CASE \/ \E k \in Kinds : MasterBegin(k)
            \/ TcIsr \/ T35Disable \/ T35Idle \/ TimerDaemon
            \/ SerialWake \/ SerialEnable \/ SerialIdle
            \/ MBDelay \/ MBEventGet \/ MBReceiveCheck \/ MBExecute
            \/ MBSendCheck \/ MBSendDriver \/ MBSendStart \/ UNCHANGED vars
  <2>1. UNCHANGED <<rdr, tdr, elapsed, usRcvBufferPos, ucRTUBuf, pucSndBufferCur,
                    usSndBufferCount, usLength>>
    BY <1>10 DEF MasterBegin, TcIsr, T35Disable, T35Idle, TimerDaemon, SerialWake, SerialEnable,
         SerialIdle, MBDelay, MBEventGet, MBReceiveCheck, MBExecute, MBSendCheck, MBSendDriver,
         MBSendStart, vars
  <2> QED
    BY <1>b, <2>1 DEF CoreTypeOK
<1> QED
  BY <1>1, <1>2, <1>3, <1>4, <1>5, <1>6, <1>7, <1>8, <1>9, <1>10 DEF Next, SerialTask, MBTask


LEMMA StateTypeNext == TypeInv /\ [Next]_vars => StateTypeOK'
<1> SUFFICES ASSUME TypeInv, [Next]_vars PROVE StateTypeOK'
  OBVIOUS
<1> USE DEF StateTypeOK, busVars, uartVars, timerVars, rxVars, txVars, groupVars, pollVars
<1>a. StateTypeOK
  BY DEF TypeInv, TypeOK
<1>b. BusTypeOK
  BY DEF TypeInv, TypeOK
<1>1. CASE (\E k \in Kinds : MasterBegin(k)) \/ MasterChar \/ RxIsr \/ TcIsr
  BY <1>a, <1>1 DEF MasterBegin, MasterChar, RxIsr, TcIsr
<1>2. CASE T35Expired \/ T35Disable \/ T35Idle \/ TimerDaemon
  BY <1>a, <1>2 DEF T35Expired, T35Disable, T35Idle, TimerDaemon
<1>3. CASE SerialTask
  BY <1>a, <1>3 DEF SerialTask, SerialWake, SerialTransmit, SerialEnable, SerialIdle
<1>4. CASE MBStart \/ MBDelay \/ MBEventGet \/ MBReceiveCheck
  BY <1>a, <1>4 DEF MBStart, MBDelay, MBEventGet, MBReceiveCheck
<1>5. CASE MBReceiveLatch
  <2>1. \A f \in DOMAIN sent : sent[f].adr \in {"own", "other", "broadcast"}
    BY <1>b, KindsAssumption DEF BusTypeOK, KindType
  <2>2. AddressIn(ucRTUBuf[0]) \in {"own", "other", "broadcast"}
    BY <2>1 DEF AddressIn
  <2> QED
    BY <1>a, <1>5, <2>2 DEF MBReceiveLatch
<1>6. CASE MBExecute \/ MBHandler \/ MBSendCheck
  BY <1>a, <1>6 DEF MBExecute, MBHandler, MBSendCheck
<1>7. CASE MBSendBuild \/ MBSendDriver \/ MBSendStart
  BY <1>a, <1>7 DEF MBSendBuild, MBSendDriver, MBSendStart
<1>8. CASE WatchdogReset \/ UNCHANGED vars
  BY <1>a, <1>8 DEF WatchdogReset, vars
<1> QED
  BY <1>1, <1>2, <1>3, <1>4, <1>5, <1>6, <1>7, <1>8 DEF Next, MBTask

LEMMA GroupTypeNext == TypeInv /\ [Next]_vars => GroupTypeOK'
<1> SUFFICES ASSUME TypeInv, [Next]_vars PROVE GroupTypeOK'
  OBVIOUS
<1> USE DEF groupVars, pollVars
<1>a. GroupTypeOK
  BY DEF TypeInv, TypeOK
<1>b. CoreTypeOK
  BY DEF TypeInv, TypeOK
<1>1. CASE TcIsr
  BY <1>a, <1>1, UpdateTypes DEF TcIsr, GroupTypeOK
<1>2. CASE T35Expired
  BY <1>a, <1>2, PostType DEF T35Expired, GroupTypeOK
<1>3. CASE TimerDaemon
  <2>1. Head(pended) \in PendedType /\ Tail(pended) \in Seq(PendedType)
    BY <1>a, <1>3, HeadTailProperties DEF TimerDaemon, GroupTypeOK
  <2>2. Head(pended).bits \subseteq {0, 1}
    BY <2>1 DEF PendedType
  <2> QED
    BY <1>a, <1>3, <2>1, <2>2 DEF TimerDaemon, GroupTypeOK
<1>4. CASE SerialTransmit
  BY <1>a, <1>4, PostType DEF SerialTransmit, GroupTypeOK
<1>5. CASE MBReceiveLatch
  BY <1>a, <1>5, PostType DEF MBReceiveLatch, GroupTypeOK
<1>6. CASE MBEventGet
  BY <1>a, <1>6 DEF MBEventGet, GroupTypeOK
<1>7. CASE MBExecute \/ MBHandler
  <2>1. ucRTUBuf[1][1] \in Tags /\ ucRTUBuf[2][1] \in Tags
    BY <1>b, CharTypes, T35Assumption DEF CoreTypeOK, Slots
  <2> QED
    BY <1>a, <1>7, <2>1 DEF MBExecute, MBHandler, GroupTypeOK
<1>8. CASE WatchdogReset
  BY <1>8, EmptySeq DEF WatchdogReset, GroupTypeOK
<1>9. CASE \/ \E k \in Kinds : MasterBegin(k)
           \/ MasterChar \/ RxIsr \/ T35Disable \/ T35Idle
           \/ SerialWake \/ SerialEnable \/ SerialIdle
           \/ MBStart \/ MBDelay \/ MBReceiveCheck
           \/ MBSendCheck \/ MBSendBuild \/ MBSendDriver \/ MBSendStart \/ UNCHANGED vars
  <2>1. UNCHANGED <<pended, xSlaveOsEventGroup, exec>>
    BY <1>9 DEF MasterBegin, MasterChar, RxIsr, T35Disable, T35Idle, SerialWake, SerialEnable,
         SerialIdle, MBStart, MBDelay, MBReceiveCheck, MBSendCheck, MBSendBuild, MBSendDriver,
         MBSendStart, vars
  <2> QED
    BY <1>a, <2>1 DEF GroupTypeOK
<1> QED
  BY <1>1, <1>2, <1>3, <1>4, <1>5, <1>6, <1>7, <1>8, <1>9 DEF Next, SerialTask, MBTask

LEMMA FlagTypeNext == TypeInv /\ [Next]_vars => FlagTypeOK'
<1> SUFFICES ASSUME TypeInv, [Next]_vars PROVE FlagTypeOK'
  OBVIOUS
<1> USE DEF FlagTypeOK, busVars, uartVars, timerVars, rxVars, txVars, groupVars, pollVars
<1>a. FlagTypeOK
  BY DEF TypeInv, TypeOK
<1>1. CASE (\E k \in Kinds : MasterBegin(k)) \/ MasterChar \/ RxIsr \/ TcIsr
  BY <1>a, <1>1, Zenon DEF MasterBegin, MasterChar, RxIsr, TcIsr, MaskTc, vMBPortTimersEnable
<1>2. CASE T35Expired \/ T35Disable \/ T35Idle \/ TimerDaemon
  BY <1>a, <1>2, Zenon DEF T35Expired, T35Disable, T35Idle, TimerDaemon
<1>3. CASE SerialTask
  BY <1>a, <1>3, Zenon DEF SerialTask, SerialWake, SerialTransmit, SerialEnable, SerialIdle, SendCharacter, ReceiveEnable
<1>4. CASE MBStart \/ MBDelay \/ MBEventGet \/ MBReceiveCheck \/ MBReceiveLatch
  BY <1>a, <1>4, Zenon DEF MBStart, MBDelay, MBEventGet, MBReceiveCheck, MBReceiveLatch, ReceiveEnable, vMBPortTimersEnable
<1>5. CASE MBExecute \/ MBHandler \/ MBSendCheck
  BY <1>a, <1>5, Zenon DEF MBExecute, MBHandler, MBSendCheck
<1>6. CASE MBSendBuild \/ MBSendDriver \/ MBSendStart
  BY <1>a, <1>6, Zenon DEF MBSendBuild, MBSendDriver, MBSendStart
<1>7. CASE WatchdogReset \/ UNCHANGED vars
  BY <1>a, <1>7, Zenon DEF WatchdogReset, vars
<1> QED
  BY <1>1, <1>2, <1>3, <1>4, <1>5, <1>6, <1>7 DEF Next, MBTask


LEMMA AnswerFitsNext == TypeInv /\ [Next]_vars => AnswerFits'
<1> SUFFICES ASSUME TypeInv, [Next]_vars PROVE AnswerFits'
  OBVIOUS
<1> USE DEF AnswerFits, pollVars
<1>a. BusTypeOK /\ AnswerFits
  BY DEF TypeInv, TypeOK
<1>1. CASE MBHandler
  <2>1. \A n : AnswerLength(n) <= SizeMax - 3
    BY <1>a, AnswerLengthType, T35Assumption
  <2> QED
    BY <1>1, <2>1 DEF MBHandler
<1>2. CASE \/ MBStart \/ MBDelay \/ MBEventGet \/ MBReceiveCheck \/ MBReceiveLatch \/ MBExecute
           \/ MBSendCheck \/ MBSendBuild \/ MBSendDriver \/ MBSendStart \/ WatchdogReset
  <2>1. \/ mbPc' \notin {"send", "build"}
        \/ mbPc = "send" /\ usLength' = usLength
    BY <1>2 DEF MBStart, MBDelay, MBEventGet, MBReceiveCheck, MBReceiveLatch, MBExecute,
         MBSendCheck, MBSendBuild, MBSendDriver, MBSendStart, WatchdogReset
  <2> QED
    BY <1>a, <2>1
<1>3. CASE \/ \E k \in Kinds : MasterBegin(k)
           \/ MasterChar \/ RxIsr \/ TcIsr \/ T35Expired \/ T35Disable \/ T35Idle
           \/ TimerDaemon \/ SerialTask \/ UNCHANGED vars
  <2>1. UNCHANGED <<mbPc, usLength>>
    BY <1>3 DEF MasterBegin, MasterChar, RxIsr, TcIsr, T35Expired, T35Disable, T35Idle,
         TimerDaemon, SerialTask, SerialWake, SerialTransmit, SerialEnable, SerialIdle, vars
  <2> QED
    BY <1>a, <2>1
<1> QED
  BY <1>1, <1>2, <1>3 DEF Next, MBTask

LEMMA TypeInvNext == TypeInv /\ [Next]_vars => TypeInv'
BY BusTypeNext, CoreTypeNext, StateTypeNext, GroupTypeNext, FlagTypeNext, AnswerFitsNext
   DEF TypeInv, TypeOK

LEMMA TypeInvAlways == Spec => []TypeInv
BY TypeInvInit, TypeInvNext, PTL DEF Spec

\* Every variable stays in its range, for every master: xMBRTUTransmitFSM never
\* sends a byte from behind the end of ucRTUBuf, whatever the handlers answer.
THEOREM TypeCorrect == Spec => []TypeOK
<1>1. TypeInv => TypeOK
  BY DEF TypeInv
<1> QED
  BY <1>1, TypeInvAlways, PTL


-----------------------------------------------------------------------------
(* The receive buffer.  The timer is started with the first character of a   *)
(* frame and counts on, so it has passed at least as many character times as *)
(* there are characters in the buffer after the first.                       *)

Waiting == IF rxne THEN 1 ELSE 0

\* eRcvState = "ERROR" needs a full buffer: it is never entered.
ReceiveInv ==
  /\ eRcvState # "ERROR"
  /\ usRcvBufferPos <= T35Chars + 1
  /\ mbPc # "dead"
  /\ (eRcvState = "RCV" /\ timerPc = "none") =>
       /\ timerOn = TRUE
       /\ usRcvBufferPos + Waiting <= elapsed + 1
  /\ (eRcvState = "RCV" /\ timerPc # "none") => usRcvBufferPos + Waiting <= T35Chars + 1

(* The queue of the timer daemon.  Before the daemon, which outranks every   *)
(* task, runs again, one task has posted at most one update, and the         *)
(* interrupts at most one for the character being sent, one for the running  *)
(* timer and one for the timer the waiting character may still start.        *)

Weight(p) == IF p THEN 1 ELSE 0

QueueInv == Len(pended) + Weight(tcie) + Weight(rxne)
              + Weight(timerOn /\ timerPc # "disable") <= 4


LEMMA ReceiveInvInit == Init => ReceiveInv
BY T35Assumption DEF Init, SlaveInit, ReceiveInv

LEMMA ReceiveInvNext == TypeInv /\ ReceiveInv /\ [Next]_vars => ReceiveInv'
<1> SUFFICES ASSUME TypeInv, ReceiveInv, [Next]_vars PROVE ReceiveInv'
  OBVIOUS
<1> USE DEF busVars, uartVars, timerVars, rxVars
<1>a. /\ usRcvBufferPos \in Nat /\ elapsed \in Nat /\ elapsed <= T35Chars
      /\ T35Chars \in Nat /\ SizeMax \in Nat /\ T35Chars + 1 < SizeMax
  BY T35Assumption DEF TypeInv, TypeOK, CoreTypeOK
<1>b. StateTypeOK
  BY DEF TypeInv, TypeOK
<1>c. ReceiveInv /\ Waiting \in 0 .. 1
  BY DEF Waiting
<1>1. CASE MasterChar
  <2>1. timerPc = "none" /\ UNCHANGED <<usRcvBufferPos, eRcvState, mbPc, timerPc, timerOn>>
    BY <1>1 DEF MasterChar
  <2>2. timerOn = TRUE => elapsed' = elapsed + 1
    BY <1>1 DEF MasterChar
  <2>3. Waiting' \in 0 .. 1 /\ Waiting' <= Waiting + 1
    BY DEF Waiting
  <2> QED
    BY <1>a, <1>c, <2>1, <2>2, <2>3 DEF ReceiveInv
<1>2. CASE RxIsr
  <2>1. Waiting = 1 /\ Waiting' = 0 /\ UNCHANGED <<mbPc, timerPc>>
    BY <1>2 DEF RxIsr, RxPending, Waiting
  <2>2. CASE eSndState # "IDLE"
    <3>1. UNCHANGED <<eRcvState, usRcvBufferPos, timerOn, elapsed>>
      BY <1>2, <2>2 DEF RxIsr
    <3> QED
      BY <1>a, <1>c, <2>1, <3>1 DEF ReceiveInv
  <2>3. CASE eSndState = "IDLE"
    <3>1. /\ timerOn' = TRUE
          /\ elapsed' = IF timerOn THEN elapsed ELSE 0
      BY <1>2, <2>3 DEF RxIsr, vMBPortTimersEnable
    <3>2. CASE eRcvState = "IDLE"
      <4>1. eRcvState' = "RCV" /\ usRcvBufferPos' = 1
        BY <1>2, <2>3, <3>2 DEF RxIsr, StoreSlot
      <4> QED
        BY <1>a, <1>c, <2>1, <3>1, <4>1 DEF ReceiveInv
    <3>3. CASE eRcvState = "RCV"
      <4>1. eRcvState' = "RCV" /\ usRcvBufferPos' = usRcvBufferPos + 1
        BY <1>2, <1>a, <1>c, <2>3, <3>3 DEF RxIsr, StoreSlot, ReceiveInv
      <4> QED
        BY <1>a, <1>c, <2>1, <3>1, <3>3, <4>1 DEF ReceiveInv
    <3>4. CASE eRcvState = "INIT"
      <4>1. eRcvState' = "INIT" /\ usRcvBufferPos' = usRcvBufferPos
        BY <1>2, <2>3, <3>4 DEF RxIsr
      <4> QED
        BY <1>a, <1>c, <2>1, <4>1 DEF ReceiveInv
    <3> QED
      BY <1>b, <1>c, <3>2, <3>3, <3>4 DEF StateTypeOK, ReceiveInv
  <2> QED
    BY <2>2, <2>3
<1>3. CASE T35Expired
  <2>1. timerPc = "none" /\ UNCHANGED <<eRcvState, usRcvBufferPos, mbPc, timerOn>> /\ Waiting' = Waiting
    BY <1>3 DEF T35Expired, Waiting
  <2>2. eRcvState = "RCV" => timerPc' = "disable"
    BY <1>3 DEF T35Expired
  <2> QED
    BY <1>a, <1>c, <2>1, <2>2 DEF ReceiveInv
<1>4. CASE T35Disable
  <2>1. timerPc # "none" /\ timerPc' # "none" /\ UNCHANGED <<eRcvState, usRcvBufferPos, mbPc>> /\ Waiting' = Waiting
    BY <1>4 DEF T35Disable, Waiting
  <2> QED
    BY <1>a, <1>c, <2>1 DEF ReceiveInv
<1>5. CASE T35Idle
  BY <1>5, <1>c DEF T35Idle, ReceiveInv
<1>6. CASE MBStart
  BY <1>6, <1>c DEF MBStart, ReceiveInv
<1>7. CASE MBReceiveCheck
  <2>1. /\ UNCHANGED <<eRcvState, usRcvBufferPos, timerPc, timerOn, elapsed>>
        /\ Waiting' = Waiting
    BY <1>7 DEF MBReceiveCheck, Waiting
  <2>2. mbPc' # "dead"
    BY <1>7, <1>a, <1>c DEF MBReceiveCheck, ReceiveInv
  <2> QED
    BY <1>a, <1>c, <2>1, <2>2 DEF ReceiveInv
<1>8. CASE WatchdogReset
  BY <1>8, T35Assumption DEF WatchdogReset, ReceiveInv
<1>9. CASE \/ \E k \in Kinds : MasterBegin(k)
           \/ TcIsr \/ TimerDaemon \/ SerialTask
           \/ MBDelay \/ MBEventGet \/ MBReceiveLatch \/ MBExecute \/ MBHandler
           \/ MBSendCheck \/ MBSendBuild \/ MBSendDriver \/ MBSendStart \/ UNCHANGED vars
  <2>1. /\ UNCHANGED <<eRcvState, usRcvBufferPos, timerPc, timerOn, elapsed>>
        /\ Waiting' = Waiting
    BY <1>9 DEF MasterBegin, TcIsr, TimerDaemon, SerialTask, SerialWake, SerialTransmit,
         SerialEnable, SerialIdle, MBDelay, MBEventGet, MBReceiveLatch, MBExecute, MBHandler,
         MBSendCheck, MBSendBuild, MBSendDriver, MBSendStart, Waiting, vars
  <2>2. mbPc' = mbPc \/ mbPc' # "dead"
    BY <1>9 DEF MasterBegin, TcIsr, TimerDaemon, SerialTask, SerialWake, SerialTransmit,
         SerialEnable, SerialIdle, MBDelay, MBEventGet, MBReceiveLatch, MBExecute, MBHandler,
         MBSendCheck, MBSendBuild, MBSendDriver, MBSendStart, vars
  <2> QED
    BY <1>c, <2>1, <2>2 DEF ReceiveInv
<1> QED
  BY <1>1, <1>2, <1>3, <1>4, <1>5, <1>6, <1>7, <1>8, <1>9 DEF Next, MBTask

LEMMA ReceiveInvAlways == Spec => []ReceiveInv
BY ReceiveInvInit, ReceiveInvNext, TypeInvAlways, PTL DEF Spec

\* The assert of eMBRTUReceive cannot fail, for any period of the t3.5 timer
\* that is shorter than the buffer and any master.
THEOREM BufferNeverFullAlways == Spec => []BufferNeverFull
<1>1. ReceiveInv => BufferNeverFull
  BY DEF ReceiveInv, BufferNeverFull
<1> QED
  BY <1>1, ReceiveInvAlways, PTL

\* Whatever the nesting of the interrupts, a frame under reception has the
\* timer running that ends it.
THEOREM ReceiverNotWedgedAlways == Spec => []ReceiverNotWedged
<1>1. ReceiveInv => ReceiverNotWedged
  BY DEF ReceiveInv, ReceiverNotWedged
<1> QED
  BY <1>1, ReceiveInvAlways, PTL


LEMMA WeightType == \A p : Weight(p) \in 0 .. 1
BY DEF Weight

LEMMA QueueInvInit == Init => QueueInv
BY EmptySeq DEF Init, SlaveInit, QueueInv, Weight

\* A post makes the queue one longer.
LEMMA PostLength ==
  ASSUME GroupTypeOK
  PROVE  /\ Len(pended) \in Nat
         /\ \A e : Len(xMBPortEventPost(e)) = Len(pended) + 1
         /\ Len(Append(pended, SerialUpdate)) = Len(pended) + 1
         /\ pended = <<>> => Len(pended) = 0
         /\ pended # <<>> => Len(Tail(pended)) = Len(pended) - 1
BY HeadTailProperties DEF GroupTypeOK, xMBPortEventPost

LEMMA QueueInvNext == TypeInv /\ QueueInv /\ [Next]_vars => QueueInv'
<1> SUFFICES ASSUME TypeInv, QueueInv, [Next]_vars PROVE QueueInv'
  OBVIOUS
<1> DEFINE tc == Weight(tcie)
           rx == Weight(rxne)
           tm == Weight(timerOn /\ timerPc # "disable")
<1> USE DEF uartVars, timerVars
<1>a. GroupTypeOK
  BY DEF TypeInv, TypeOK
<1>b. /\ tc \in 0 .. 1 /\ tc' \in 0 .. 1
      /\ rx \in 0 .. 1 /\ rx' \in 0 .. 1
      /\ tm \in 0 .. 1 /\ tm' \in 0 .. 1
      /\ Len(pended) \in Nat
      /\ Len(pended) + tc + rx + tm <= 4
  BY <1>a, WeightType, PostLength DEF QueueInv
<1>c. (Len(pended') \in Nat /\ Len(pended') + tc' + rx' + tm' <= 4) => QueueInv'
  BY DEF QueueInv
<1>d. Len(pended') \in 0 .. 1 => QueueInv'
  <2>1. ASSUME NEW l \in 0 .. 1, NEW a \in 0 .. 1, NEW b \in 0 .. 1, NEW c \in 0 .. 1
        PROVE  l \in Nat /\ l + a + b + c <= 4
    OBVIOUS
  <2> QED
    BY <1>b, <1>c, <2>1
<1> HIDE DEF tc, rx, tm
<1>1. CASE \/ MasterChar \/ SerialWake \/ SerialTransmit \/ SerialEnable \/ SerialIdle
           \/ MBTask
  <2>1. pended = <<>> /\ Len(pended) = 0
    BY <1>1, <1>a, PostLength DEF MasterChar, TaskRuns, MBTaskRuns, SerialWake, SerialTransmit, SerialEnable,
         SerialIdle, MBTask, MBStart, MBDelay, MBEventGet, MBReceiveCheck, MBReceiveLatch,
         MBExecute, MBHandler, MBSendCheck, MBSendBuild, MBSendDriver, MBSendStart
  <2>2. pended' = pended \/ \E e : pended' = xMBPortEventPost(e)
    BY <1>1 DEF MasterChar, SerialWake, SerialTransmit, SerialEnable,
         SerialIdle, MBTask, MBStart, MBDelay, MBEventGet, MBReceiveCheck, MBReceiveLatch,
         MBExecute, MBHandler, MBSendCheck, MBSendBuild, MBSendDriver, MBSendStart
  <2>3. Len(pended') \in 0 .. 1
    BY <1>a, <2>1, <2>2, PostLength
  <2> QED
    BY <1>d, <2>3
<1>2. CASE RxIsr
  <2>1. pended' = pended /\ tc' = tc /\ timerPc' = timerPc
    BY <1>2 DEF RxIsr, tc
  <2>2. rx = 1 /\ rx' = 0
    BY <1>2 DEF RxIsr, RxPending, rx, Weight
  <2> QED
    BY <1>b, <1>c, <2>1, <2>2
<1>3. CASE TcIsr
  <2>1. tc = 1 /\ tc' = 0
    BY <1>3 DEF TcIsr, MaskTc, tc, Weight
  <2>2. Len(pended') = Len(pended) + 1
    BY <1>3, <1>a, PostLength DEF TcIsr
  <2>3. rx' = rx /\ tm' = tm
    BY <1>3 DEF TcIsr, rx, tm
  <2> QED
    BY <1>b, <1>c, <2>1, <2>2, <2>3
<1>4. CASE T35Expired
  <2>1. tc' = tc /\ rx' = rx
    BY <1>4 DEF T35Expired, tc, rx
  <2>2. CASE UNCHANGED <<pended, timerPc>>
    BY <1>4, <1>b, <1>c, <2>1, <2>2 DEF T35Expired, tm
  <2>3. CASE timerPc' = "disable"
    <3>1. Len(pended') = Len(pended) \/ Len(pended') = Len(pended) + 1
      BY <1>4, <1>a, PostLength DEF T35Expired
    <3>2. tm = 1 /\ tm' = 0
      BY <1>4, <2>3 DEF T35Expired, tm, Weight
    <3> QED
      BY <1>b, <1>c, <2>1, <3>1, <3>2
  <2> QED
    BY <1>4, <2>2, <2>3 DEF T35Expired
<1>5. CASE T35Disable
  <2>1. tc' = tc /\ rx' = rx /\ tm' = 0 /\ pended' = pended
    BY <1>5 DEF T35Disable, tc, rx, tm, Weight
  <2> QED
    BY <1>b, <1>c, <2>1
<1>6. CASE T35Idle
  <2>1. tc' = tc /\ rx' = rx /\ tm' = tm /\ pended' = pended
    BY <1>6 DEF T35Idle, tc, rx, tm, Weight
  <2> QED
    BY <1>b, <1>c, <2>1
<1>7. CASE TimerDaemon
  <2>1. tc' = tc /\ rx' = rx /\ tm' = tm
    BY <1>7 DEF TimerDaemon, tc, rx, tm
  <2>2. Len(pended') = Len(pended) - 1 /\ Len(pended') \in Nat
    BY <1>7, <1>a, <1>b, PostLength, EmptySeq DEF TimerDaemon, GroupTypeOK
  <2> QED
    BY <1>b, <1>c, <2>1, <2>2
<1>8. CASE (\E k \in Kinds : MasterBegin(k)) \/ UNCHANGED vars
  <2>1. tc' = tc /\ rx' = rx /\ tm' = tm /\ pended' = pended
    BY <1>8 DEF MasterBegin, tc, rx, tm, vars
  <2> QED
    BY <1>b, <1>c, <2>1
<1>9. CASE WatchdogReset
  <2>1. Len(pended') = 0
    BY <1>9, EmptySeq DEF WatchdogReset
  <2> QED
    BY <1>d, <2>1
<1> QED
  BY <1>1, <1>2, <1>3, <1>4, <1>5, <1>6, <1>7, <1>8, <1>9 DEF Next, SerialTask

\* The timer daemon's queue of four always has room for the updates the
\* interrupts and the tasks hand to it: none is lost, for any master.
THEOREM PostNeverLostAlways == Spec => []PostNeverLost
<1>1. TypeInv /\ QueueInv => PostNeverLost
  BY PostLength, WeightType DEF TypeInv, TypeOK, QueueInv, PostNeverLost
<1> QED
  BY <1>1, QueueInvInit, QueueInvNext, TypeInvAlways, PTL DEF Spec


-----------------------------------------------------------------------------
(* The transmission.  Whoever takes away one reason why xMBRTUTransmitFSM is *)
(* going to be called leaves another one behind.                             *)

\* An update that wakes the Serial task is queued for the timer daemon.
WakeQueued == \E i \in 1 .. Len(pended) : pended[i].group = "serial"

LEMMA QueuedStays ==
  ASSUME GroupTypeOK, WakeQueued, NEW u \in PendedType, pended' = Append(pended, u)
  PROVE  WakeQueued'
<1>1. PICK i \in 1 .. Len(pended) : pended[i].group = "serial"
  BY DEF WakeQueued
<1>2. Len(pended') = Len(pended) + 1 /\ pended'[i] = pended[i]
  BY DEF GroupTypeOK
<1>3. i \in 1 .. Len(pended')
  BY <1>2 DEF GroupTypeOK
<1> QED
  BY <1>1, <1>2, <1>3 DEF WakeQueued

LEMMA TransmissionNext == TypeInv /\ TransmissionNotStranded /\ [Next]_vars => TransmissionNotStranded'
<1> SUFFICES ASSUME TypeInv, TransmissionNotStranded, [Next]_vars, eSndState' = "XMIT"
             PROVE  SerialWakeUp'
  BY DEF TransmissionNotStranded
<1> USE DEF uartVars, txVars, groupVars
<1>a. GroupTypeOK
  BY DEF TypeInv, TypeOK
<1>w. /\ SerialWakeUp <=> \/ xSerialEventGroup \/ tcie \/ serialPc # "wait"
                          \/ mbPc \in {"driver", "start_tx"} \/ WakeQueued
      /\ SerialWakeUp' <=> \/ xSerialEventGroup' \/ tcie' \/ serialPc' # "wait"
                           \/ mbPc' \in {"driver", "start_tx"} \/ WakeQueued'
  BY DEF SerialWakeUp, WakeQueued
<1>1. CASE TcIsr
  <2>1. pended' = Append(pended, SerialUpdate)
    BY <1>1 DEF TcIsr
  <2>2. pended'[Len(pended')].group = "serial" /\ Len(pended') \in 1 .. Len(pended')
    BY <1>a, <2>1, UpdateTypes DEF GroupTypeOK, SerialUpdate
  <2> QED
    BY <1>w, <2>2 DEF WakeQueued
<1>2. CASE T35Expired
  <2>1. SerialWakeUp
    BY <1>2 DEF T35Expired, TransmissionNotStranded
  <2>2. UNCHANGED <<xSerialEventGroup, tcie, serialPc, mbPc>>
    BY <1>2 DEF T35Expired
  <2>3. pended' = pended \/ \E u \in PendedType : pended' = Append(pended, u)
    BY <1>2, UpdateTypes DEF T35Expired, xMBPortEventPost
  <2>4. WakeQueued => WakeQueued'
    BY <1>a, <2>3, QueuedStays DEF WakeQueued
  <2> QED
    BY <1>w, <2>1, <2>2, <2>4
<1>3. CASE TimerDaemon
  <2>1. SerialWakeUp
    BY <1>3 DEF TimerDaemon, TransmissionNotStranded
  <2>2. UNCHANGED <<tcie, serialPc, mbPc>> /\ (xSerialEventGroup => xSerialEventGroup')
    BY <1>3 DEF TimerDaemon
  <2>3. ASSUME WakeQueued PROVE xSerialEventGroup' \/ WakeQueued'
    <3>1. PICK i \in 1 .. Len(pended) : pended[i].group = "serial"
      BY <2>3 DEF WakeQueued
    <3>2. CASE i = 1
      BY <1>3, <3>1, <3>2 DEF TimerDaemon
    <3>3. CASE i # 1
      <4>1. /\ pended' = Tail(pended)
            /\ Len(pended') = Len(pended) - 1
            /\ \A j \in 1 .. Len(pended') : pended'[j] = pended[j + 1]
        BY <1>3, <1>a, HeadTailProperties DEF TimerDaemon, GroupTypeOK
      <4>2. i - 1 \in 1 .. Len(pended') /\ pended'[i - 1] = pended[i]
        BY <1>a, <3>1, <3>3, <4>1 DEF GroupTypeOK
      <4> QED
        BY <3>1, <4>2 DEF WakeQueued
    <3> QED
      BY <3>2, <3>3
  <2> QED
    BY <1>w, <2>1, <2>2, <2>3
<1>4. CASE SerialTask
  <2>1. serialPc' # "wait" \/ tcie'
    BY <1>4 DEF SerialTask, SerialWake, SerialTransmit, SendCharacter, SerialEnable, SerialIdle
  <2> QED
    BY <1>w, <2>1
<1>5. CASE MBSendBuild \/ MBSendDriver \/ MBSendStart
  <2>1. mbPc' \in {"driver", "start_tx"} \/ xSerialEventGroup'
    BY <1>5 DEF MBSendBuild, MBSendDriver, MBSendStart
  <2> QED
    BY <1>w, <2>1
<1>6. CASE MBStart \/ MBDelay \/ MBEventGet \/ MBReceiveCheck \/ MBReceiveLatch
           \/ MBExecute \/ MBHandler \/ MBSendCheck
  <2>1. UNCHANGED <<eSndState, tcie>> /\ mbPc \notin {"driver", "start_tx"}
    BY <1>6 DEF MBStart, MBDelay, MBEventGet, MBReceiveCheck, MBReceiveLatch, MBExecute,
         MBHandler, MBSendCheck
  <2>2. pended = <<>> /\ serialPc = "wait" /\ ~xSerialEventGroup
    BY <1>6 DEF MBStart, MBDelay, MBEventGet, MBReceiveCheck, MBReceiveLatch, MBExecute,
         MBHandler, MBSendCheck, MBTaskRuns, TaskRuns
  <2>3. ~WakeQueued
    BY <2>2, EmptySeq DEF WakeQueued
  <2> QED
    BY <1>w, <2>1, <2>2, <2>3 DEF TransmissionNotStranded
<1>7. CASE WatchdogReset
  BY <1>7 DEF WatchdogReset
<1>8. CASE \/ \E k \in Kinds : MasterBegin(k)
           \/ MasterChar \/ RxIsr \/ T35Disable \/ T35Idle \/ UNCHANGED vars
  <2>1. UNCHANGED <<eSndState, xSerialEventGroup, tcie, serialPc, mbPc, pended>>
    BY <1>8 DEF MasterBegin, MasterChar, RxIsr, T35Disable, T35Idle, vars
  <2> QED
    BY <1>w, <2>1 DEF TransmissionNotStranded, WakeQueued
<1> QED
  BY <1>1, <1>2, <1>3, <1>4, <1>5, <1>6, <1>7, <1>8 DEF Next, MBTask

\* A transmission never stops half way with nobody left to continue it.
THEOREM TransmissionNotStrandedAlways == Spec => []TransmissionNotStranded
<1>1. Init => TransmissionNotStranded
  BY DEF Init, SlaveInit, TransmissionNotStranded
<1> QED
  BY <1>1, TransmissionNext, TypeInvAlways, PTL DEF Spec

-----------------------------------------------------------------------------
(* With a master that waits for the slave, ModbusRTU keeps the promise of              *)
(* ModbusTransaction: for any number of frames, of any kinds, in a buffer of any size. *)

(* The master waits until the slave is through with a frame; no frame takes longer than *)
(* the t3.5 timer; a sound frame has at least address, function code and CRC.            *)
PacedMaster ==
  /\ Paced
  /\ \A k \in Kinds : k.len <= T35Chars /\ (k.ok => k.len >= MB_SER_PDU_SIZE_MIN)

-----------------------------------------------------------------------------
(* A transaction, phase by phase.                                                      *)

Frame   == sent[Current]
ForSlave == Current > 0 /\ Frame.ok /\ Frame.adr # "other"
Unicast  == ForSlave /\ Frame.adr = "own"
Total == Frame.rlen + 3

Has(n) == \A i \in 0 .. n - 1 : ucRTUBuf[i] = <<Current, i>>
AnswerIn(a, b) == \A i \in a .. b : ucRTUBuf[i] = <<-Current, i>>
Heard(n) == Len(heard) = n /\ \A i \in 1 .. n : heard[i] = <<-Current, i - 1>>

FrameEvent == [group |-> "slave", bits |-> {0}]
ExecuteEvent == [group |-> "slave", bits |-> {1}]
SentEvent == [group |-> "slave", bits |-> {0, 1}]
ReadyEvent == [group |-> "slave", bits |-> {}]

NoPosts == pended = <<>>
NoEvents == xSlaveOsEventGroup = {}
SendsNothing == ~tcie /\ ~de /\ eSndState = "IDLE" /\ serialPc = "wait" /\ ~xSerialEventGroup
HearsNothing == ~Sending /\ ~rxne /\ eRcvState = "IDLE" /\ ~timerOn /\ timerPc = "none"

(* eMBInit, and the first period of the timer. *)
Booting ==
  /\ sent = <<>> /\ ~rxne /\ SendsNothing /\ NoEvents
  /\ \/ mbPc = "start" /\ eRcvState = "INIT" /\ ~timerOn /\ timerPc = "none" /\ NoPosts
     \/ /\ mbPc \in {"delay", "get"} /\ rxneie
        /\ \/ eRcvState = "INIT" /\ timerOn /\ timerPc = "none" /\ NoPosts
           \/ eRcvState = "INIT" /\ timerPc = "disable" /\ pended = <<ReadyEvent>>
           \/ eRcvState = "INIT" /\ ~timerOn /\ timerPc = "idle" /\ pended = <<ReadyEvent>>
           \/ eRcvState = "IDLE" /\ ~timerOn /\ timerPc = "none" /\ pended = <<ReadyEvent>>

Idle ==
  /\ HearsNothing /\ SendsNothing /\ rxneie /\ NoPosts /\ NoEvents /\ mbPc \in {"delay", "get"}
  /\ ForSlave => applied[Current] = 1
  /\ Unicast => Heard(Total)

(* Nothing has been done for the current frame. *)
Untouched == Current > 0 /\ heard = <<>> /\ applied[Current] = 0 /\ SendsNothing /\ rxneie

Receiving ==
  /\ Untouched /\ mbPc = "get" /\ NoPosts /\ NoEvents /\ timerPc = "none"
  /\ nxt <= Frame.len
  /\ Sending => seen
  /\ rxne => nxt > 0 /\ rdr = <<Current, nxt - 1>>
  /\ Has(nxt - Waiting)
  /\ nxt = Waiting => eRcvState = "IDLE" /\ ~timerOn
  /\ nxt > Waiting => eRcvState = "RCV" /\ timerOn /\ usRcvBufferPos = nxt - Waiting /\ elapsed < nxt

Whole == Untouched /\ nxt = Frame.len /\ ~rxne /\ Has(Frame.len) /\ usRcvBufferPos = Frame.len

(* The timer interrupt. *)
Ended ==
  /\ Whole /\ mbPc = "get" /\ NoEvents /\ pended = <<FrameEvent>>
  /\ \/ eRcvState = "RCV" /\ timerPc = "disable"
     \/ eRcvState = "RCV" /\ timerPc = "idle" /\ ~timerOn
     \/ HearsNothing

Checking ==
  /\ Whole /\ HearsNothing /\ NoPosts
  /\ \/ mbPc = "get" /\ xSlaveOsEventGroup = {0}
     \/ mbPc = "receive" /\ NoEvents
     \/ mbPc = "latch" /\ NoEvents /\ Frame.ok

Accepted ==
  /\ Whole /\ HearsNothing /\ ForSlave /\ ucRcvAddress = Frame.adr /\ usLength = Frame.len - 3
  /\ \/ mbPc = "delay" /\ NoEvents /\ pended = <<ExecuteEvent>>
     \/ mbPc \in {"delay", "get"} /\ xSlaveOsEventGroup = {1} /\ NoPosts
     \/ mbPc = "execute" /\ NoEvents /\ NoPosts
     \/ mbPc = "handler" /\ NoEvents /\ NoPosts /\ exec = {Current}

Applied == Unicast /\ applied[Current] = 1 /\ HearsNothing

Answering ==
  /\ Applied /\ heard = <<>> /\ NoPosts /\ NoEvents
  /\ ~tcie /\ serialPc = "wait" /\ ~xSerialEventGroup
  /\ \/ /\ mbPc \in {"send", "build"} /\ ~de /\ eSndState = "IDLE"
        /\ usLength = Frame.rlen /\ AnswerIn(1, Frame.rlen)
     \/ /\ (mbPc = "driver" /\ ~de) \/ (mbPc = "start_tx" /\ de)
        /\ eSndState = "XMIT" /\ AnswerIn(0, Total - 1)
        /\ pucSndBufferCur = 0 /\ usSndBufferCount = Total

Transmitting ==
  /\ Applied /\ NoEvents /\ mbPc \in {"delay", "get"} /\ ~rxneie /\ de
  /\ eSndState = "XMIT" /\ AnswerIn(0, Total - 1) /\ pucSndBufferCur + usSndBufferCount = Total
  /\ \/ /\ tcie /\ serialPc = "wait" /\ ~xSerialEventGroup /\ NoPosts
        /\ pucSndBufferCur > 0 /\ tdr = <<-Current, pucSndBufferCur - 1>> /\ Heard(pucSndBufferCur - 1)
     \/ /\ ~tcie /\ Heard(pucSndBufferCur)
        /\ \/ serialPc = "wait" /\ ~xSerialEventGroup /\ pended = <<SerialUpdate>>
           \/ serialPc = "wait" /\ xSerialEventGroup /\ NoPosts
           \/ serialPc = "fsm" /\ ~xSerialEventGroup /\ NoPosts

Finishing ==
  /\ Applied /\ Heard(Total) /\ mbPc \in {"delay", "get"} /\ ~tcie /\ ~xSerialEventGroup
  /\ \/ serialPc = "enable" /\ pended = <<SentEvent>> /\ NoEvents
     \/ /\ NoPosts /\ xSlaveOsEventGroup = {0, 1}
        /\ \/ serialPc = "enable"
           \/ serialPc = "idle" /\ rxneie /\ ~de
           \/ serialPc = "wait" /\ rxneie /\ ~de /\ eSndState = "IDLE"

Phases == \/ Booting \/ Idle \/ Receiving \/ Ended \/ Checking \/ Accepted
          \/ Answering \/ Transmitting \/ Finishing

Unapplied == \A f \in Current + 1 .. MaxFrames : applied[f] = 0

PacedInv == PacedMaster /\ ~hung /\ Unapplied /\ Phases

-----------------------------------------------------------------------------
(* What each step needs of the state.                                                  *)

LEMMA Guards ==
  ASSUME ~hung, [Next]_vars
  PROVE  \/ \E k \in Kinds : /\ MasterBegin(k)
                             /\ ~Sending /\ Current < MaxFrames /\ (Paced => Quiescent)
         \/ MasterChar /\ Sending /\ timerPc = "none" /\ ~RxPending /\ pended = <<>>
         \/ RxIsr /\ RxPending
         \/ TcIsr /\ tcie
         \/ T35Expired /\ timerPc = "none" /\ timerOn /\ ((Sending \/ RxPending) => elapsed = T35Chars)
         \/ T35Disable /\ timerPc = "disable"
         \/ T35Idle /\ timerPc = "idle"
         \/ TimerDaemon /\ timerPc = "none" /\ ~RxPending /\ pended # <<>>
         \/ SerialWake /\ TaskRuns /\ serialPc = "wait" /\ xSerialEventGroup
         \/ SerialTransmit /\ TaskRuns /\ serialPc = "fsm"
         \/ SerialEnable /\ TaskRuns /\ serialPc = "enable"
         \/ SerialIdle /\ TaskRuns /\ serialPc = "idle"
         \/ MBStart /\ MBTaskRuns /\ mbPc = "start"
         \/ MBDelay /\ MBTaskRuns /\ mbPc = "delay"
         \/ MBEventGet /\ MBTaskRuns /\ mbPc = "get" /\ xSlaveOsEventGroup # {}
         \/ MBReceiveCheck /\ MBTaskRuns /\ mbPc = "receive"
         \/ MBReceiveLatch /\ MBTaskRuns /\ mbPc = "latch"
         \/ MBExecute /\ MBTaskRuns /\ mbPc = "execute"
         \/ MBHandler /\ MBTaskRuns /\ mbPc = "handler"
         \/ MBSendCheck /\ MBTaskRuns /\ mbPc = "send"
         \/ MBSendBuild /\ MBTaskRuns /\ mbPc = "build"
         \/ MBSendDriver /\ MBTaskRuns /\ mbPc = "driver"
         \/ MBSendStart /\ MBTaskRuns /\ mbPc = "start_tx"
         \/ UNCHANGED vars
<1>1. Next => \/ \E k \in Kinds : MasterBegin(k)
              \/ MasterChar \/ RxIsr \/ TcIsr \/ T35Expired \/ T35Disable \/ T35Idle
              \/ TimerDaemon \/ SerialWake \/ SerialTransmit \/ SerialEnable \/ SerialIdle
              \/ MBStart \/ MBDelay \/ MBEventGet \/ MBReceiveCheck \/ MBReceiveLatch
              \/ MBExecute \/ MBHandler \/ MBSendCheck \/ MBSendBuild \/ MBSendDriver
              \/ MBSendStart
  <2>1. ~WatchdogReset
    BY DEF WatchdogReset
  <2> QED
    BY <2>1 DEF Next, SerialTask, MBTask
<1>2. ASSUME NEW k \in Kinds, MasterBegin(k)
      PROVE  ~Sending /\ Current < MaxFrames /\ (Paced => Quiescent)
  BY <1>2 DEF MasterBegin
<1>3. MasterChar => Sending /\ timerPc = "none" /\ ~RxPending /\ pended = <<>>
  BY DEF MasterChar
<1>4. /\ RxIsr => RxPending
      /\ TcIsr => tcie
      /\ T35Expired => timerPc = "none" /\ timerOn /\ ((Sending \/ RxPending) => elapsed = T35Chars)
      /\ T35Disable => timerPc = "disable"
      /\ T35Idle => timerPc = "idle"
      /\ TimerDaemon => timerPc = "none" /\ ~RxPending /\ pended # <<>>
  BY DEF RxIsr, TcIsr, T35Expired, T35Disable, T35Idle, TimerDaemon
<1>5. /\ SerialWake => TaskRuns /\ serialPc = "wait" /\ xSerialEventGroup
      /\ SerialTransmit => TaskRuns /\ serialPc = "fsm"
      /\ SerialEnable => TaskRuns /\ serialPc = "enable"
      /\ SerialIdle => TaskRuns /\ serialPc = "idle"
  BY DEF SerialWake, SerialTransmit, SerialEnable, SerialIdle
<1>6. /\ MBStart => MBTaskRuns /\ mbPc = "start"
      /\ MBDelay => MBTaskRuns /\ mbPc = "delay"
      /\ MBEventGet => MBTaskRuns /\ mbPc = "get" /\ xSlaveOsEventGroup # {}
      /\ MBReceiveCheck => MBTaskRuns /\ mbPc = "receive"
      /\ MBReceiveLatch => MBTaskRuns /\ mbPc = "latch"
      /\ MBExecute => MBTaskRuns /\ mbPc = "execute"
      /\ MBHandler => MBTaskRuns /\ mbPc = "handler"
      /\ MBSendCheck => MBTaskRuns /\ mbPc = "send"
      /\ MBSendBuild => MBTaskRuns /\ mbPc = "build"
      /\ MBSendDriver => MBTaskRuns /\ mbPc = "driver"
      /\ MBSendStart => MBTaskRuns /\ mbPc = "start_tx"
  BY DEF MBStart, MBDelay, MBEventGet, MBReceiveCheck, MBReceiveLatch, MBExecute, MBHandler,
     MBSendCheck, MBSendBuild, MBSendDriver, MBSendStart
<1> QED
  BY <1>1, <1>2, <1>3, <1>4, <1>5, <1>6

\* The values of the four events of eMBPoll.
LEMMA EventValues ==
  /\ EventBits(EV_READY) = {} /\ EventBits(EV_FRAME_RECEIVED) = {0}
  /\ EventBits(EV_EXECUTE) = {1} /\ EventBits(EV_FRAME_SENT) = {0, 1}
<1>1. 2 ^ 0 = 1 /\ 2 ^ 1 = 2
  OBVIOUS
<1>2. ASSUME NEW e \in 0 .. 3
      PROVE  /\ 0 \in EventBits(e) <=> e % 2 = 1
             /\ 1 \in EventBits(e) <=> (e \div 2) % 2 = 1
             /\ \A b \in EventBits(e) : b = 0 \/ b = 1
  BY <1>1 DEF EventBits
<1>3. EventBits(0) = {} /\ EventBits(1) = {0}
  <2>1. /\ 0 % 2 = 0 /\ 0 \div 2 = 0
        /\ 1 % 2 = 1 /\ 1 \div 2 = 0
    OBVIOUS
  <2>2. 0 \notin EventBits(0) /\ 1 \notin EventBits(0)
    BY <1>2, <2>1
  <2>3. 0 \in EventBits(1) /\ 1 \notin EventBits(1)
    BY <1>2, <2>1
  <2> QED
    BY <1>2, <2>2, <2>3
<1>4. EventBits(2) = {1} /\ EventBits(3) = {0, 1}
  <2>1. /\ 2 % 2 = 0 /\ 2 \div 2 = 1
        /\ 3 % 2 = 1 /\ 3 \div 2 = 1
        /\ 1 % 2 = 1
    OBVIOUS
  <2>2. 0 \notin EventBits(2) /\ 1 \in EventBits(2)
    BY <1>2, <2>1
  <2>3. 0 \in EventBits(3) /\ 1 \in EventBits(3)
    BY <1>2, <2>1
  <2> QED
    BY <1>2, <2>2, <2>3
<1> QED
  BY <1>3, <1>4 DEF EV_READY, EV_FRAME_RECEIVED, EV_EXECUTE, EV_FRAME_SENT

\* A step that changes neither frames, effects nor what the master heard is a
\* stuttering step of a transaction.
LEMMA Stutter ==
  ASSUME UNCHANGED <<sent, heard, applied>>
  PROVE  UNCHANGED Transaction!vars
BY DEF Transaction!vars, answer, Answer, AnswerLength, Current

LEMMA OnePosted ==
  \A u : /\ Append(<<>>, u) = <<u>> /\ <<u>> # <<>>
         /\ Head(<<u>>) = u /\ Tail(<<u>>) = <<>>
OBVIOUS

LEMMA Posts ==
  ASSUME pended = <<>>
  PROVE  /\ xMBPortEventPost(EV_READY) = <<ReadyEvent>>
         /\ xMBPortEventPost(EV_FRAME_RECEIVED) = <<FrameEvent>>
         /\ xMBPortEventPost(EV_EXECUTE) = <<ExecuteEvent>>
         /\ xMBPortEventPost(EV_FRAME_SENT) = <<SentEvent>>
         /\ Append(pended, SerialUpdate) = <<SerialUpdate>>
BY OnePosted, EventValues DEF xMBPortEventPost, ReadyEvent, FrameEvent, ExecuteEvent, SentEvent

\* The timer daemon applies the only update there is.
LEMMA Daemon ==
  ASSUME TimerDaemon, NEW u, pended = <<u>>
  PROVE  /\ pended' = <<>>
         /\ u.group = "slave" => /\ xSlaveOsEventGroup' = xSlaveOsEventGroup \cup u.bits
                                 /\ xSerialEventGroup' = xSerialEventGroup
         /\ u.group # "slave" => xSerialEventGroup' = TRUE /\ xSlaveOsEventGroup' = xSlaveOsEventGroup
         /\ UNCHANGED <<busVars, uartVars, timerVars, rxVars, txVars, pollVars, ucRTUBuf,
                        timerPc, serialPc, mbPc, hung>>
BY OnePosted DEF TimerDaemon
-----------------------------------------------------------------------------
(* Every step keeps PacedInv and is a step of a transaction, phase by phase.           *)

Progress == PacedInv' /\ [Transaction!Next]_(Transaction!vars)

\* Most steps change neither frames, effects nor what the master heard.
LEMMA Kept ==
  ASSUME PacedInv, UNCHANGED <<sent, heard, applied, hung>>, Phases'
  PROVE  Progress
<1>1. PacedInv'
  BY DEF PacedInv, PacedMaster, Unapplied, Current
<1> QED
  BY <1>1, Stutter DEF Progress

LEMMA Stopped ==
  ASSUME PacedInv, UNCHANGED vars
  PROVE  Progress
<1> USE DEF Current, Sending, Waiting, Frame, ForSlave, Unicast, Total, Has, AnswerIn, Heard,
            NoPosts, NoEvents, SendsNothing, HearsNothing, vars, busVars, uartVars, timerVars,
            rxVars, txVars, groupVars, pollVars
<1>1. Booting => Booting'
  BY DEF Booting
<1>2. Idle => Idle'
  BY DEF Idle
<1>3. Receiving => Receiving'
  BY DEF Receiving, Untouched
<1>4. Ended => Ended'
  BY DEF Ended, Whole, Untouched
<1>5. Checking => Checking'
  BY DEF Checking, Whole, Untouched
<1>6. Accepted => Accepted'
  BY DEF Accepted, Whole, Untouched
<1>7. Answering => Answering'
  BY DEF Answering, Applied
<1>8. Transmitting => Transmitting'
  BY DEF Transmitting, Applied
<1>9. Finishing => Finishing'
  BY DEF Finishing, Applied
<1>10. Phases'
  BY <1>1, <1>2, <1>3, <1>4, <1>5, <1>6, <1>7, <1>8, <1>9 DEF PacedInv, Phases
<1> QED
  BY <1>10, Kept

\* The current frame is one of Kinds.
LEMMA FrameFacts ==
  ASSUME TypeInv, PacedMaster, Current > 0
  PROVE  /\ Current \in 1 .. MaxFrames
         /\ Frame.len \in 1 .. T35Chars /\ Frame.rlen \in 1 .. SizeMax - 3
         /\ Frame.adr \in {"own", "other", "broadcast"} /\ Frame.ok \in BOOLEAN
         /\ Frame.ok => Frame.len >= 4
         /\ AnswerLength(Current) = Frame.rlen
<1>1. Current \in DOMAIN sent /\ Current \in 1 .. MaxFrames
  BY BoundsAssumption DEF TypeInv, TypeOK, BusTypeOK, Current
<1>2. Frame \in Kinds
  BY <1>1 DEF TypeInv, TypeOK, BusTypeOK, Frame
<1> QED
  BY <1>1, <1>2, KindsAssumption DEF KindType, PacedMaster, MB_SER_PDU_SIZE_MIN, AnswerLength, Frame

LEMMA BootingStep ==
  ASSUME TypeInv, PacedInv, Booting, [Next]_vars
  PROVE  Progress
<1> USE DEF NoPosts, NoEvents, SendsNothing, groupVars, uartVars, busVars, timerVars, rxVars, txVars, pollVars
<1>a. /\ sent = <<>> /\ Current = 0 /\ ~Sending /\ ~rxne /\ ~RxPending /\ ~hung
      /\ Paced /\ ~Quiescent
  BY EmptySeq DEF Booting, Current, Sending, RxPending, PacedInv, PacedMaster, Quiescent
<1>b. \/ T35Expired /\ timerPc = "none" /\ timerOn
      \/ T35Disable /\ timerPc = "disable"
      \/ T35Idle /\ timerPc = "idle"
      \/ TimerDaemon /\ timerPc = "none" /\ pended # <<>>
      \/ MBStart /\ mbPc = "start"
      \/ MBDelay /\ mbPc = "delay" /\ timerPc = "none" /\ pended = <<>>
      \/ UNCHANGED vars
  BY <1>a, Guards DEF Booting, MBTaskRuns, TaskRuns
<1>1. CASE T35Expired /\ timerPc = "none" /\ timerOn
  <2>1. pended' = <<ReadyEvent>> /\ timerPc' = "disable"
    BY <1>1, Posts DEF Booting, T35Expired
  <2>2. Booting' /\ UNCHANGED <<sent, heard, applied, hung>>
    BY <1>1, <2>1 DEF Booting, T35Expired
  <2> QED
    BY <2>2, Kept DEF Phases
<1>2. CASE T35Disable /\ timerPc = "disable"
  <2>1. Booting' /\ UNCHANGED <<sent, heard, applied, hung>>
    BY <1>2 DEF Booting, T35Disable
  <2> QED
    BY <2>1, Kept DEF Phases
<1>3. CASE T35Idle /\ timerPc = "idle"
  <2>1. Booting' /\ UNCHANGED <<sent, heard, applied, hung>>
    BY <1>3 DEF Booting, T35Idle
  <2> QED
    BY <2>1, Kept DEF Phases
<1>4. CASE TimerDaemon /\ timerPc = "none" /\ pended # <<>>
  <2>1. pended = <<ReadyEvent>> /\ eRcvState = "IDLE" /\ ~timerOn /\ mbPc \in {"delay", "get"} /\ rxneie
    BY <1>4 DEF Booting
  <2>2. /\ pended' = <<>> /\ xSlaveOsEventGroup' = {} /\ xSerialEventGroup' = xSerialEventGroup
        /\ UNCHANGED <<busVars, uartVars, timerVars, rxVars, txVars, pollVars, ucRTUBuf,
                       timerPc, serialPc, mbPc, hung>>
    <3>1. ReadyEvent.group = "slave" /\ ReadyEvent.bits = {} /\ xSlaveOsEventGroup = {}
      BY DEF ReadyEvent, Booting
    <3>2. TimerDaemon /\ pended = <<ReadyEvent>>
      BY <1>4, <2>1
    <3> HIDE DEF groupVars, uartVars, busVars, timerVars, rxVars, txVars, pollVars
    <3> QED
      BY <3>1, <3>2, Daemon
  <2>3. Current' = 0 /\ ~Sending' /\ ~ForSlave'
    BY <1>a, <2>2, EmptySeq DEF Current, Sending, ForSlave
  <2>4. Idle'
    BY <1>4, <2>1, <2>2, <2>3 DEF Booting, Idle, HearsNothing, Unicast
  <2> QED
    BY <2>2, <2>4, Kept DEF Phases
<1>5. CASE MBStart /\ mbPc = "start"
  <2>1. Booting' /\ UNCHANGED <<sent, heard, applied, hung>>
    BY <1>5 DEF Booting, MBStart, ReceiveEnable, vMBPortTimersEnable
  <2> QED
    BY <2>1, Kept DEF Phases
<1>6. CASE MBDelay /\ mbPc = "delay" /\ timerPc = "none" /\ pended = <<>>
  <2>1. Booting' /\ UNCHANGED <<sent, heard, applied, hung>>
    BY <1>6 DEF Booting, MBDelay
  <2> QED
    BY <2>1, Kept DEF Phases
<1> QED
  BY <1>b, <1>1, <1>2, <1>3, <1>4, <1>5, <1>6, Stopped
-----------------------------------------------------------------------------
(* The answer, as far as the master has heard it.                                      *)

AnswerTo(c, r) == [i \in 1 .. r + 3 |-> <<-c, i - 1>>]

LEMMA PartOfAnswer ==
  ASSUME NEW h \in Seq(Chars), NEW c \in Int, NEW r \in Nat,
         Len(h) <= r + 3, \A i \in 1 .. Len(h) : h[i] = <<-c, i - 1>>
  PROVE  /\ Len(AnswerTo(c, r)) = r + 3
         /\ Len(h) = r + 3 => h = AnswerTo(c, r)
         /\ \A i \in 1 .. Len(h) : h[i] = AnswerTo(c, r)[i]
         /\ h = AnswerTo(c, r) => Len(h) = r + 3
<1> DEFINE ans == AnswerTo(c, r)
<1>0. ans = [i \in 1 .. r + 3 |-> <<-c, i - 1>>]
  BY DEF AnswerTo
<1> HIDE DEF ans
<1>1. Len(ans) = r + 3 /\ DOMAIN ans = 1 .. r + 3 /\ \A i \in 1 .. r + 3 : ans[i] = <<-c, i - 1>>
  <2>1. ans \in Seq(Int \X Int)
    BY <1>0
  <2>2. DOMAIN ans = 1 .. Len(ans) /\ Len(ans) \in Nat
    BY <2>1
  <2>3. DOMAIN ans = 1 .. r + 3
    BY <1>0
  <2> QED
    BY <1>0, <2>2, <2>3
<1>2. ASSUME Len(h) = r + 3 PROVE h = ans
  <2>1. h = [i \in 1 .. r + 3 |-> h[i]]
    BY <1>2
  <2>2. ans = [i \in 1 .. r + 3 |-> ans[i]]
    BY <1>0, <1>1
  <2>3. \A i \in 1 .. r + 3 : h[i] = ans[i]
    BY <1>1, <1>2
  <2> QED
    BY <2>1, <2>2, <2>3
<1>3. Len(h) \in Nat /\ \A i \in 1 .. Len(h) : i \in 1 .. r + 3
  OBVIOUS
<1>4. \A i \in 1 .. Len(h) : h[i] = ans[i]
  BY <1>1, <1>3
<1>5. h = ans => Len(h) = r + 3
  BY <1>1
<1> QED
  BY <1>1, <1>2, <1>4, <1>5 DEF ans

LEMMA AnswerHeard ==
  ASSUME TypeInv, PacedMaster, Current > 0, NEW n \in Nat, n <= Total, Heard(n)
  PROVE  /\ n = 0 => answer = "none"
         /\ n > 0 /\ n < Total => answer = "partial"
         /\ n = Total => answer = "complete"
<1>1. /\ heard \in Seq(Chars) /\ Len(heard) = n /\ Current \in Int /\ Frame.rlen \in Nat
      /\ Answer(Current) = [i \in 1 .. Frame.rlen + 3 |-> <<-Current, i - 1>>]
      /\ \A i \in 1 .. Len(heard) : heard[i] = <<-Current, i - 1>>
      /\ Total = Frame.rlen + 3
  BY FrameFacts DEF TypeInv, TypeOK, BusTypeOK, Heard, Answer, Total
<1>2. /\ Len(Answer(Current)) = Total
      /\ n = Total => heard = Answer(Current)
      /\ \A i \in 1 .. Len(heard) : heard[i] = Answer(Current)[i]
      /\ heard = Answer(Current) => n = Total
  <2>1. Answer(Current) = AnswerTo(Current, Frame.rlen)
    BY <1>1 DEF AnswerTo
  <2>2. /\ Len(AnswerTo(Current, Frame.rlen)) = Frame.rlen + 3
        /\ Len(heard) = Frame.rlen + 3 => heard = AnswerTo(Current, Frame.rlen)
        /\ \A i \in 1 .. Len(heard) : heard[i] = AnswerTo(Current, Frame.rlen)[i]
        /\ heard = AnswerTo(Current, Frame.rlen) => Len(heard) = Frame.rlen + 3
    BY <1>1, PartOfAnswer
  <2> QED
    BY <1>1, <2>1, <2>2
<1>3. heard = <<>> <=> n = 0
  BY <1>1, EmptySeq
<1>4. answer = IF heard = <<>> THEN "none"
               ELSE IF heard = Answer(Current) THEN "complete"
               ELSE IF /\ Len(heard) < Len(Answer(Current))
                       /\ \A i \in 1 .. Len(heard) : heard[i] = Answer(Current)[i] THEN "partial"
               ELSE "corrupt"
  BY DEF answer
<1>5. n > 0 /\ n < Total => answer = "partial"
  <2>1. n < Total => heard # Answer(Current)
    BY <1>1, <1>2
  <2>2. n < Total => Len(heard) < Len(Answer(Current))
    BY <1>1, <1>2
  <2>3. n > 0 => heard # <<>>
    BY <1>3
  <2> QED
    BY ONLY <1>2, <1>4, <2>1, <2>2, <2>3
<1>6. n = Total => answer = "complete"
  <2>1. n = Total => n # 0
    BY <1>1
  <2> QED
    BY ONLY <1>2, <1>3, <1>4, <2>1
<1> QED
  BY <1>3, <1>4, <1>5, <1>6

\* The same of the state after a step, which sends no new frame.
LEMMA AnswerHeardNext ==
  ASSUME TypeInv, PacedMaster, Current > 0, sent' = sent, heard' \in Seq(Chars),
         NEW n \in Nat, n <= Total, Len(heard') = n,
         \A i \in 1 .. n : heard'[i] = <<-Current, i - 1>>
  PROVE  /\ n > 0 /\ n < Total => answer' = "partial"
         /\ n = Total => answer' = "complete"
<1>1. /\ Len(heard') = n /\ Current \in Int /\ Frame.rlen \in Nat /\ Current' = Current
      /\ Answer(Current)' = [i \in 1 .. Frame.rlen + 3 |-> <<-Current, i - 1>>]
      /\ \A i \in 1 .. Len(heard') : heard'[i] = <<-Current, i - 1>>
      /\ Total = Frame.rlen + 3
  <2>1. AnswerLength(Current)' = AnswerLength(Current) /\ Current' = Current
    BY DEF AnswerLength, Current
  <2>2. Answer(Current)' = Answer(Current)
    BY <2>1 DEF Answer
  <2> QED
    BY <2>1, <2>2, FrameFacts DEF TypeInv, TypeOK, BusTypeOK, Heard, Answer, Total
<1>2. /\ Len(Answer(Current)') = Total
      /\ n = Total => heard' = Answer(Current)'
      /\ \A i \in 1 .. Len(heard') : heard'[i] = Answer(Current)'[i]
      /\ heard' = Answer(Current)' => n = Total
  <2>1. Answer(Current)' = AnswerTo(Current, Frame.rlen)
    BY <1>1 DEF AnswerTo
  <2>2. /\ Len(AnswerTo(Current, Frame.rlen)) = Frame.rlen + 3
        /\ Len(heard') = Frame.rlen + 3 => heard' = AnswerTo(Current, Frame.rlen)
        /\ \A i \in 1 .. Len(heard') : heard'[i] = AnswerTo(Current, Frame.rlen)[i]
        /\ heard' = AnswerTo(Current, Frame.rlen) => Len(heard') = Frame.rlen + 3
    BY <1>1, PartOfAnswer
  <2> QED
    BY <1>1, <2>1, <2>2
<1>3. heard' = <<>> <=> n = 0
  BY <1>1, EmptySeq
<1>4. answer' = IF heard' = <<>> THEN "none"
               ELSE IF heard' = Answer(Current)' THEN "complete"
               ELSE IF /\ Len(heard') < Len(Answer(Current)')
                       /\ \A i \in 1 .. Len(heard') : heard'[i] = Answer(Current)'[i] THEN "partial"
               ELSE "corrupt"
  BY DEF answer
<1>5. n > 0 /\ n < Total => answer' = "partial"
  <2>1. n < Total => heard' # Answer(Current)'
    BY <1>1, <1>2
  <2>2. n < Total => Len(heard') < Len(Answer(Current)')
    BY <1>1, <1>2
  <2>3. n > 0 => heard' # <<>>
    BY <1>3
  <2> QED
    BY ONLY <1>2, <1>4, <2>1, <2>2, <2>3
<1>6. n = Total => answer' = "complete"
  <2>1. n = Total => n # 0
    BY <1>1
  <2> QED
    BY ONLY <1>2, <1>3, <1>4, <2>1
<1> QED
  BY <1>3, <1>4, <1>5, <1>6

\* A frame that is not for this slave, or was dealt with, leaves nothing to do.
LEMMA IdleStep ==
  ASSUME TypeInv, PacedInv, Idle, [Next]_vars
  PROVE  Progress
<1> USE DEF NoPosts, NoEvents, SendsNothing, HearsNothing
<1>a. /\ PacedMaster /\ Paced /\ Unapplied /\ ~hung /\ ~RxPending
      /\ sent \in Seq(Kinds) /\ Current \in Nat /\ applied \in [1 .. MaxFrames -> 0 .. 2]
  BY DEF PacedInv, PacedMaster, TypeInv, TypeOK, BusTypeOK, Current, RxPending, Idle
<1>b. \/ \E k \in Kinds : MasterBegin(k) /\ Current < MaxFrames /\ Quiescent
      \/ MBDelay /\ mbPc = "delay"
      \/ UNCHANGED vars
  BY <1>a, Guards DEF Idle, MBTaskRuns, TaskRuns
<1>1. ASSUME NEW k \in Kinds, MasterBegin(k), Current < MaxFrames, Quiescent
      PROVE  Progress
  <2>1. /\ sent' = Append(sent, k) /\ nxt' = 0 /\ seen' = TRUE /\ heard' = <<>>
        /\ UNCHANGED <<uartVars, timerVars, rxVars, txVars, groupVars, pollVars,
                       ucRTUBuf, pended, timerPc, serialPc, mbPc, hung>>
    BY <1>1 DEF MasterBegin, Idle
  <2>2. Current' = Current + 1 /\ Frame' = k /\ Current + 1 \in 1 .. MaxFrames
    BY <1>a, <1>1, <2>1, BoundsAssumption DEF Current, Frame
  <2>3. k.len \in Nat
    BY KindsAssumption DEF KindType
  <2>4. Unapplied' /\ applied'[Current'] = 0
    BY <1>a, <2>1, <2>2, BoundsAssumption DEF Unapplied, pollVars
  <2>5. Waiting' = 0
    BY <2>1 DEF Idle, Waiting, uartVars
  <2>6. Untouched'
    BY <1>a, <2>1, <2>2, <2>4 DEF Idle, Untouched, uartVars, txVars, groupVars
  <2>7. Has(0)'
    BY DEF Has
  <2>8. Receiving'
    BY <1>1, <2>1, <2>2, <2>3, <2>5, <2>6, <2>7
    DEF Receiving, Quiescent, Idle, uartVars, timerVars, rxVars, groupVars
  <2>9. PacedInv'
    BY <1>a, <2>1, <2>4, <2>8 DEF PacedInv, PacedMaster, Phases
  <2>10. Transaction!Settled
    <3>1. Transaction!ForSlave <=> ForSlave
      BY DEF Transaction!ForSlave, Transaction!Current, ForSlave, Frame, Current
    <3>2. Transaction!Unicast <=> Unicast
      BY <3>1 DEF Transaction!Unicast, Transaction!Current, Unicast, Frame, Current
    <3>3. ForSlave => applied[Current] = 1
      BY DEF Idle
    <3>4. ASSUME Unicast PROVE answer = "complete"
      <4>1. Current > 0 /\ Heard(Total)
        BY <3>4 DEF Idle, Unicast, ForSlave
      <4>2. Total \in Nat
        BY <1>a, <4>1, FrameFacts, T35Assumption DEF Total
      <4> QED
        BY <1>a, <4>1, <4>2, AnswerHeard
    <3> QED
      BY <3>1, <3>2, <3>3, <3>4 DEF Transaction!Settled, Transaction!Current, Current
  <2>11. answer' = "none"
    BY <2>1 DEF answer
  <2>12. Transaction!Request(k)
    BY <1>1, <2>1, <2>10, <2>11 DEF Transaction!Request, Transaction!Current, Current, pollVars
  <2> QED
    BY <2>9, <2>12 DEF Progress, Transaction!Next
<1>2. CASE MBDelay /\ mbPc = "delay"
  <2>1. Idle' /\ UNCHANGED <<sent, heard, applied, hung>>
    BY <1>2 DEF Idle, MBDelay, ForSlave, Unicast, Frame, Current, Heard, Total, Sending,
       busVars, uartVars, timerVars, rxVars, txVars, groupVars, pollVars
  <2> QED
    BY <2>1, Kept DEF Phases
<1> QED
  BY <1>b, <1>1, <1>2, Stopped
-----------------------------------------------------------------------------
(* A frame comes in, character by character.                                           *)

LEMMA ReceivingGuards ==
  ASSUME TypeInv, PacedInv, Receiving, [Next]_vars
  PROVE  \/ MasterChar /\ Sending /\ ~rxne
         \/ RxIsr /\ rxne
         \/ T35Expired /\ nxt = Frame.len /\ ~rxne /\ timerOn
         \/ UNCHANGED vars
<1>a. /\ PacedMaster /\ Paced /\ ~hung /\ Current > 0 /\ rxneie /\ mbPc = "get" /\ pended = <<>>
      /\ xSlaveOsEventGroup = {} /\ serialPc = "wait" /\ ~xSerialEventGroup /\ ~tcie
      /\ timerPc = "none" /\ nxt <= Frame.len
  BY DEF PacedInv, PacedMaster, Receiving, Untouched, NoPosts, NoEvents, SendsNothing
<1>b. /\ Frame.len \in 1 .. T35Chars /\ nxt \in Nat /\ T35Chars \in Nat
      /\ Sending <=> nxt < Frame.len
      /\ RxPending <=> rxne
      /\ Waiting = IF rxne THEN 1 ELSE 0
  BY <1>a, FrameFacts, T35Assumption
  DEF TypeInv, TypeOK, BusTypeOK, Sending, Frame, RxPending, Waiting
<1>c. ~Sending => ~Quiescent
  <2> SUFFICES ASSUME ~Sending, Quiescent PROVE FALSE
    OBVIOUS
  <2>1. ~rxne /\ ~timerOn
    BY DEF Quiescent
  <2>2. nxt > 0 /\ Waiting = 0
    BY <1>a, <1>b, <2>1
  <2> QED
    BY <1>b, <2>1, <2>2 DEF Receiving
<1>d. T35Expired /\ timerOn /\ ((Sending \/ RxPending) => elapsed = T35Chars) => nxt = Frame.len /\ ~rxne
  <2> SUFFICES ASSUME timerOn, Sending \/ RxPending => elapsed = T35Chars
               PROVE  nxt = Frame.len /\ ~rxne
    OBVIOUS
  <2>1. elapsed < nxt /\ elapsed \in Int
    BY <1>a, <1>b DEF Receiving, TypeInv, TypeOK, CoreTypeOK
  <2>2. elapsed # T35Chars
    BY <1>a, <1>b, <2>1
  <2> QED
    BY <1>a, <1>b, <2>2
<1> QED
  BY <1>a, <1>b, <1>c, <1>d, Guards

LEMMA ReceivingStep ==
  ASSUME TypeInv, PacedInv, Receiving, [Next]_vars
  PROVE  Progress
<1> USE DEF NoPosts, NoEvents, SendsNothing
<1>a. /\ PacedMaster /\ Current > 0 /\ rxneie /\ ~de /\ eSndState = "IDLE" /\ timerPc = "none"
      /\ heard = <<>> /\ applied[Current] = 0 /\ nxt <= Frame.len /\ Has(nxt - Waiting)
      /\ (Sending => seen) /\ (rxne => nxt > 0 /\ rdr = <<Current, nxt - 1>>)
      /\ (nxt = Waiting => eRcvState = "IDLE" /\ ~timerOn)
      /\ (nxt > Waiting => eRcvState = "RCV" /\ timerOn /\ usRcvBufferPos = nxt - Waiting /\ elapsed < nxt)
  BY DEF PacedInv, Receiving, Untouched
<1>b. /\ Frame.len \in 1 .. T35Chars /\ nxt \in Nat /\ elapsed \in Int /\ T35Chars + 1 < SizeMax
      /\ T35Chars \in Nat /\ SizeMax \in Nat
      /\ Sending <=> nxt < Frame.len
      /\ Waiting = IF rxne THEN 1 ELSE 0
      /\ ucRTUBuf \in [Slots -> Chars]
  BY <1>a, FrameFacts, T35Assumption
  DEF TypeInv, TypeOK, BusTypeOK, CoreTypeOK, Sending, Frame, Waiting
<1>1. CASE MasterChar /\ Sending /\ ~rxne
  <2>1. /\ rxne' = TRUE /\ rdr' = <<Current, nxt>> /\ seen' = TRUE /\ nxt' = nxt + 1
        /\ elapsed' = IF timerOn THEN elapsed + 1 ELSE elapsed
        /\ UNCHANGED <<sent, heard, rxneie, tcie, tdr, de, timerOn, rxVars, txVars, groupVars,
                       pollVars, ucRTUBuf, pended, timerPc, serialPc, mbPc, hung>>
    BY <1>1, <1>a DEF MasterChar
  <2>2. Current' = Current /\ Frame' = Frame /\ Waiting = 0 /\ Waiting' = 1
    BY <1>1, <1>b, <2>1 DEF Current, Frame, Waiting
  <2>3. Untouched'
    BY <1>a, <2>1, <2>2 DEF Receiving, Untouched, txVars, groupVars, pollVars
  <2>4. Has(nxt - Waiting)'
    <3>1. nxt' - Waiting' = nxt - Waiting
      BY <1>b, <2>1, <2>2
    <3>2. \A i \in 0 .. nxt - Waiting - 1 : ucRTUBuf[i] = <<Current, i>>
      BY <1>a DEF Has
    <3>3. \A i \in 0 .. nxt' - Waiting' - 1 : ucRTUBuf'[i] = <<Current', i>>
      BY <2>1, <2>2, <3>1, <3>2
    <3> QED
      BY <3>3 DEF Has
  <2>5. Receiving'
    <3>1. /\ nxt' <= Frame'.len /\ nxt' > 0 /\ rdr' = <<Current', nxt' - 1>>
      BY <1>1, <1>a, <1>b, <2>1, <2>2
    <3>2. nxt' = Waiting' => eRcvState' = "IDLE" /\ ~timerOn'
      BY <1>a, <1>b, <2>1, <2>2 DEF rxVars
    <3>3. nxt' > Waiting' => /\ eRcvState' = "RCV" /\ timerOn' /\ usRcvBufferPos' = nxt' - Waiting'
                             /\ elapsed' < nxt'
      BY <1>a, <1>b, <2>1, <2>2 DEF rxVars
    <3> QED
      BY <1>a, <2>1, <2>3, <2>4, <3>1, <3>2, <3>3 DEF Receiving, groupVars
  <2> QED
    BY <2>1, <2>5, Kept DEF Phases, pollVars
<1>2. CASE RxIsr /\ rxne
  <2>1. /\ nxt > 0 /\ rdr = <<Current, nxt - 1>> /\ Waiting = 1
        /\ rxne' = FALSE /\ timerOn' = TRUE /\ elapsed' = (IF timerOn THEN elapsed ELSE 0)
        /\ hung' = hung
        /\ UNCHANGED <<busVars, rdr, rxneie, tcie, tdr, de, txVars, groupVars, pollVars,
                       pended, timerPc, serialPc, mbPc>>
    BY <1>2, <1>a, <1>b DEF RxIsr, vMBPortTimersEnable
  <2>2. /\ Current' = Current /\ Frame' = Frame /\ Waiting' = 0
        /\ Sending' <=> Sending
    BY <2>1 DEF Current, Frame, Waiting, Sending, busVars
  <2>3. Untouched'
    BY <1>a, <2>1, <2>2 DEF Receiving, Untouched, txVars, groupVars, pollVars, busVars
  <2>4. /\ eRcvState' = "RCV" /\ usRcvBufferPos' = nxt
        /\ ucRTUBuf' = [ucRTUBuf EXCEPT ![nxt - 1] = <<Current, nxt - 1>>]
    <3>1. CASE nxt = 1
      <4>1. eRcvState = "IDLE"
        BY <1>a, <2>1, <3>1
      <4> QED
        BY <1>2, <1>a, <2>1, <3>1, <4>1 DEF RxIsr, StoreSlot
    <3>2. CASE nxt > 1
      <4>1. eRcvState = "RCV" /\ usRcvBufferPos = nxt - 1 /\ ~(usRcvBufferPos >= SizeMax)
        BY <1>a, <1>b, <2>1, <3>2
      <4> QED
        BY <1>2, <1>a, <1>b, <2>1, <4>1 DEF RxIsr, StoreSlot
    <3> QED
      BY <1>b, <2>1, <3>1, <3>2
  <2>5. Has(nxt - Waiting)'
    <3>1. \A i \in 0 .. nxt - 2 : ucRTUBuf[i] = <<Current, i>>
      BY <1>a, <1>b, <2>1 DEF Has
    <3>2. nxt - 1 \in Slots
      BY <1>a, <1>b, <2>1 DEF Slots
    <3>3. \A i \in 0 .. nxt - 1 : ucRTUBuf'[i] = <<Current, i>>
      <4> SUFFICES ASSUME NEW i \in 0 .. nxt - 1 PROVE ucRTUBuf'[i] = <<Current, i>>
        OBVIOUS
      <4>1. i \in Slots
        BY <1>a, <1>b DEF Slots
      <4>2. CASE i = nxt - 1
        BY <1>b, <2>4, <3>2, <4>2
      <4>3. CASE i # nxt - 1
        BY <1>b, <2>4, <3>1, <4>1, <4>3
      <4> QED
        BY <4>2, <4>3
    <3>4. nxt' - Waiting' = nxt
      BY <1>b, <2>1, <2>2 DEF busVars
    <3> QED
      BY <2>2, <3>3, <3>4 DEF Has
  <2>6. Receiving'
    <3>1. nxt' = nxt /\ nxt' > Waiting' /\ elapsed' < nxt'
      BY <1>a, <1>b, <2>1, <2>2 DEF busVars
    <3> QED
      BY <1>a, <1>b, <2>1, <2>2, <2>3, <2>4, <2>5, <3>1 DEF Receiving, groupVars, busVars
  <2> QED
    BY <2>1, <2>6, Kept DEF Phases, pollVars, busVars
<1>3. CASE T35Expired /\ nxt = Frame.len /\ ~rxne /\ timerOn
  <2>1. /\ eRcvState = "RCV" /\ usRcvBufferPos = Frame.len /\ Has(Frame.len)
    <3>1. Waiting = 0 /\ nxt - Waiting = Frame.len /\ nxt > Waiting
      BY <1>3, <1>b
    <3> QED
      BY <1>a, <1>b, <3>1
  <2>2. /\ pended' = <<FrameEvent>> /\ timerPc' = "disable" /\ hung' = hung
        /\ UNCHANGED <<busVars, uartVars, timerOn, rxVars, txVars, groupVars, pollVars,
                       ucRTUBuf, serialPc, mbPc>>
    BY <1>3, <2>1, Posts DEF T35Expired, Receiving
  <2>3. Current' = Current /\ Frame' = Frame
    BY <2>2 DEF Current, Frame, busVars
  <2>4. Whole'
    <3>1. Untouched'
      BY <1>a, <2>2, <2>3 DEF Receiving, Untouched, txVars, groupVars, pollVars, busVars, uartVars
    <3>2. Has(Frame.len)'
      BY <2>1, <2>2, <2>3 DEF Has
    <3> QED
      BY <1>3, <2>1, <2>2, <2>3, <3>1, <3>2 DEF Whole, busVars, uartVars, rxVars
  <2>5. Ended'
    BY <2>1, <2>2, <2>4 DEF Ended, Receiving, groupVars, rxVars
  <2> QED
    BY <2>2, <2>5, Kept DEF Phases, pollVars, busVars
<1> QED
  BY <1>1, <1>2, <1>3, ReceivingGuards, Stopped
-----------------------------------------------------------------------------
(* The timer ends the frame, and eMBRTUReceive and eMBPoll look at it.                 *)

\* The frame in the buffer is the one that was sent.
LEMMA WholeFrame ==
  ASSUME TypeInv, PacedInv, Whole
  PROVE  /\ Current > 0 /\ ~Sending /\ ~RxPending /\ ~hung /\ PacedMaster /\ Paced
         /\ nxt = Frame.len /\ usRcvBufferPos = Frame.len /\ Frame.len < SizeMax
         /\ ucRTUBuf[0] = <<Current, 0>>
         /\ AddressIn(ucRTUBuf[0]) = Frame.adr
         /\ AcceptFrame(Frame.len) <=> Frame.ok
<1>1. /\ PacedMaster /\ Paced /\ ~hung /\ Current > 0 /\ ~rxne /\ nxt = Frame.len
      /\ usRcvBufferPos = Frame.len /\ Has(Frame.len)
  BY DEF PacedInv, PacedMaster, Whole, Untouched
<1>2. /\ Frame.len \in 1 .. T35Chars /\ T35Chars \in Nat /\ SizeMax \in Nat /\ T35Chars + 1 < SizeMax
      /\ Current \in Int /\ Current \in DOMAIN sent /\ (Frame.ok => Frame.len >= 4)
      /\ DOMAIN sent = 1 .. Current
  BY <1>1, FrameFacts, T35Assumption DEF TypeInv, TypeOK, BusTypeOK, Current
<1>3. ucRTUBuf[0] = <<Current, 0>>
  BY <1>1, <1>2 DEF Has
<1>4. AddressIn(ucRTUBuf[0]) = Frame.adr
  BY <1>2, <1>3 DEF AddressIn, Frame
<1>5. AcceptFrame(Frame.len) <=> Frame.ok
  <2>1. ASSUME Frame.ok PROVE AcceptFrame(Frame.len)
    <3>1. CrcOk(Frame.len)
      BY <1>1, <1>2, <2>1 DEF CrcOk, Has, Frame
    <3> QED
      BY <1>2, <2>1, <3>1 DEF AcceptFrame, MB_SER_PDU_SIZE_MIN
  <2>2. ASSUME AcceptFrame(Frame.len) PROVE Frame.ok
    <3>1. CrcOk(Frame.len) /\ 0 \in 0 .. Frame.len - 1
      BY <1>2, <2>2 DEF AcceptFrame
    <3>2. ASSUME NEW f \in DOMAIN sent, sent[f].ok, \A i \in 0 .. Frame.len - 1 : ucRTUBuf[i] = <<f, i>>
          PROVE  Frame.ok
      <4>1. <<f, 0>> = <<Current, 0>>
        BY <1>3, <3>1, <3>2
      <4> QED
        BY <3>2, <4>1 DEF Frame
    <3>3. ASSUME NEW f \in 1 .. Mixed, \A i \in 0 .. Frame.len - 1 : ucRTUBuf[i] = <<-f, i>>
          PROVE  FALSE
      <4>1. <<-f, 0>> = <<Current, 0>>
        BY <1>3, <3>1, <3>3
      <4>2. -f = Current
        BY <4>1
      <4> QED
        BY <1>1, <1>2, <4>2, BoundsAssumption DEF Mixed
    <3> QED
      BY <3>1, <3>2, <3>3 DEF CrcOk
  <2> QED
    BY <2>1, <2>2
<1> QED
  BY <1>1, <1>2, <1>3, <1>4, <1>5 DEF Sending, RxPending, Frame

\* A step that leaves bus, receiver and buffer alone leaves the frame there.
LEMMA WholeStays ==
  ASSUME Whole, SendsNothing', rxneie',
         UNCHANGED <<sent, nxt, heard, applied, rxne, usRcvBufferPos, ucRTUBuf>>
  PROVE  Whole'
<1>1. Current' = Current /\ Frame' = Frame
  BY DEF Current, Frame
<1>2. Has(Frame.len)'
  BY <1>1 DEF Whole, Has
<1> QED
  BY <1>1, <1>2 DEF Whole, Untouched

LEMMA EndedStep ==
  ASSUME TypeInv, PacedInv, Ended, [Next]_vars
  PROVE  Progress
<1> USE DEF groupVars, uartVars, busVars, timerVars, rxVars, txVars, pollVars
<1>a. /\ Whole /\ SendsNothing /\ rxneie /\ mbPc = "get" /\ xSlaveOsEventGroup = {}
      /\ pended = <<FrameEvent>> /\ pended # <<>> /\ ~hung /\ ~Sending /\ ~RxPending /\ Paced
      /\ serialPc = "wait" /\ ~tcie
  BY WholeFrame, OnePosted DEF Ended, Whole, Untouched, NoEvents, SendsNothing
<1>b. \/ T35Disable /\ timerPc = "disable"
      \/ T35Idle /\ timerPc = "idle"
      \/ TimerDaemon /\ timerPc = "none"
      \/ UNCHANGED vars
  BY <1>a, Guards DEF Ended, MBTaskRuns, TaskRuns, HearsNothing, Quiescent
<1>1. CASE T35Disable /\ timerPc = "disable"
  <2>1. SendsNothing'
    BY <1>1, <1>a DEF T35Disable, SendsNothing
  <2>2. Whole'
    BY <1>1, <1>a, <2>1, WholeStays DEF T35Disable
  <2>3. Ended' /\ UNCHANGED <<sent, heard, applied, hung>>
    BY <1>1, <2>2 DEF Ended, T35Disable, NoEvents, HearsNothing
  <2> QED
    BY <2>3, Kept DEF Phases
<1>2. CASE T35Idle /\ timerPc = "idle"
  <2>1. SendsNothing'
    BY <1>2, <1>a DEF T35Idle, SendsNothing
  <2>2. Whole'
    BY <1>2, <1>a, <2>1, WholeStays DEF T35Idle
  <2>3. ~Sending'
    BY <1>2, <1>a DEF T35Idle, Sending, Current
  <2>4. Ended' /\ UNCHANGED <<sent, heard, applied, hung>>
    BY <1>2, <2>2, <2>3 DEF Ended, T35Idle, NoEvents, HearsNothing, Whole
  <2> QED
    BY <2>4, Kept DEF Phases
<1>3. CASE TimerDaemon /\ timerPc = "none"
  <2>1. /\ pended' = <<>> /\ xSlaveOsEventGroup' = {0} /\ xSerialEventGroup' = xSerialEventGroup
        /\ UNCHANGED <<busVars, uartVars, timerVars, rxVars, txVars, pollVars, ucRTUBuf,
                       timerPc, serialPc, mbPc, hung>>
    <3>1. FrameEvent.group = "slave" /\ FrameEvent.bits = {0}
      BY DEF FrameEvent
    <3>2. TimerDaemon /\ pended = <<FrameEvent>>
      BY <1>a, <1>3
    <3> HIDE DEF groupVars, uartVars, busVars, timerVars, rxVars, txVars, pollVars
    <3> QED
      BY <1>a, <3>1, <3>2, Daemon
  <2>2. SendsNothing'
    BY <1>a, <2>1 DEF SendsNothing
  <2>3. Whole'
    BY <1>a, <2>1, <2>2, WholeStays
  <2>4. HearsNothing'
    BY <1>3, <2>1 DEF Ended, HearsNothing, Sending, Current
  <2>5. Checking'
    BY <1>a, <2>1, <2>3, <2>4 DEF Checking, NoPosts
  <2> QED
    BY <2>1, <2>5, Kept DEF Phases
<1> QED
  BY <1>b, <1>1, <1>2, <1>3, Stopped

LEMMA CheckingStep ==
  ASSUME TypeInv, PacedInv, Checking, [Next]_vars
  PROVE  Progress
<1> USE DEF groupVars, uartVars, busVars, timerVars, rxVars, txVars, pollVars
<1>a. /\ Whole /\ SendsNothing /\ rxneie /\ HearsNothing /\ pended = <<>> /\ ~hung /\ ~Sending
      /\ ~RxPending /\ Paced /\ serialPc = "wait" /\ ~tcie /\ ~timerOn /\ timerPc = "none"
      /\ eRcvState = "IDLE" /\ Current > 0
  BY WholeFrame DEF Checking, Whole, Untouched, SendsNothing, HearsNothing, NoPosts
<1>b. \/ MBEventGet /\ mbPc = "get"
      \/ MBReceiveCheck /\ mbPc = "receive"
      \/ MBReceiveLatch /\ mbPc = "latch"
      \/ UNCHANGED vars
  <2>1. ~Quiescent
    BY DEF Checking, Quiescent, NoEvents
  <2>2. ~xSerialEventGroup /\ mbPc \in {"get", "receive", "latch"}
    BY <1>a DEF Checking, SendsNothing
  <2> QED
    BY <1>a, <2>1, <2>2, Guards
<1>c. ASSUME UNCHANGED <<busVars, uartVars, timerVars, rxVars, txVars, xSerialEventGroup, applied,
                         ucRTUBuf, timerPc, serialPc, hung>>
      PROVE  /\ Whole' /\ HearsNothing' /\ Frame' = Frame /\ UNCHANGED <<sent, heard, applied, hung>>
             /\ SendsNothing' /\ rxneie' /\ Current' = Current
  <2>1. SendsNothing'
    BY <1>a, <1>c DEF SendsNothing
  <2>2. Whole'
    BY <1>a, <1>c, <2>1, WholeStays
  <2> QED
    BY <1>a, <1>c, <2>1, <2>2 DEF HearsNothing, Sending, Current, Frame
<1>d. ASSUME ~ForSlave, UNCHANGED <<sent, xSlaveOsEventGroup, pended>>, xSlaveOsEventGroup = {},
             HearsNothing', SendsNothing', rxneie', mbPc' = "delay"
      PROVE  Idle'
  BY <1>a, <1>d DEF Idle, NoPosts, NoEvents, ForSlave, Unicast, Frame, Current
<1>1. CASE MBEventGet /\ mbPc = "get"
  <2>1. xSlaveOsEventGroup = {0}
    BY <1>1 DEF Checking
  <2>2. mbPc' = "receive" /\ xSlaveOsEventGroup' = {} /\ pended' = <<>>
    BY <1>1, <1>a, <2>1, EventValues DEF MBEventGet
  <2>3. Checking' /\ UNCHANGED <<sent, heard, applied, hung>>
    BY <1>1, <1>c, <2>2 DEF Checking, MBEventGet, NoEvents, NoPosts
  <2> QED
    BY <2>3, Kept DEF Phases
<1>2. CASE MBReceiveCheck /\ mbPc = "receive"
  <2>1. mbPc' = (IF Frame.ok THEN "latch" ELSE "delay")
    <3>1. /\ usRcvBufferPos = Frame.len /\ ~(Frame.len >= SizeMax) /\ (AcceptFrame(Frame.len) <=> Frame.ok)
      BY <1>a, WholeFrame, FrameFacts, T35Assumption DEF PacedInv
    <3> QED
      BY <1>2, <3>1 DEF MBReceiveCheck
  <2>2. /\ UNCHANGED <<sent, heard, applied, hung, xSlaveOsEventGroup, pended>> /\ xSlaveOsEventGroup = {}
        /\ Whole' /\ HearsNothing' /\ Frame' = Frame /\ SendsNothing' /\ rxneie'
    BY <1>2, <1>c DEF MBReceiveCheck, Checking, NoEvents
  <2>3. CASE Frame.ok
    <3>1. Checking'
      BY <1>a, <2>1, <2>2, <2>3 DEF Checking, NoPosts, NoEvents
    <3> QED
      BY <2>2, <3>1, Kept DEF Phases
  <2>4. CASE ~Frame.ok
    <3>1. Idle'
      BY <1>d, <2>1, <2>2, <2>4 DEF ForSlave
    <3> QED
      BY <2>2, <3>1, Kept DEF Phases
  <2> QED
    BY <2>3, <2>4
<1>3. CASE MBReceiveLatch /\ mbPc = "latch"
  <2>1. /\ Frame.ok /\ xSlaveOsEventGroup = {} /\ Frame.len >= 4 /\ Frame.len \in Nat
        /\ Frame.len < 65536 /\ AddressIn(ucRTUBuf[0]) = Frame.adr /\ usRcvBufferPos = Frame.len
    BY <1>3, <1>a, WholeFrame, FrameFacts, T35Assumption DEF Checking, NoEvents
  <2>2. /\ ucRcvAddress' = Frame.adr /\ usLength' = Frame.len - 3 /\ mbPc' = "delay"
        /\ UNCHANGED <<busVars, uartVars, timerVars, rxVars, txVars, groupVars, applied,
                       ucRTUBuf, timerPc, serialPc, hung>>
    BY <1>3, <2>1 DEF MBReceiveLatch, PduLength
  <2>3. pended' = IF Frame.adr \in {"own", "broadcast"} THEN <<ExecuteEvent>> ELSE <<>>
    BY <1>3, <1>a, <2>2, Posts DEF MBReceiveLatch, ForUs
  <2>4. /\ Whole' /\ HearsNothing' /\ Frame' = Frame /\ UNCHANGED <<sent, heard, applied, hung>>
        /\ SendsNothing' /\ rxneie' /\ Current' = Current
    BY <1>c, <2>2
  <2>5. CASE Frame.adr \in {"own", "broadcast"}
    <3>1. ForSlave'
      BY <1>a, <2>1, <2>4, <2>5 DEF ForSlave
    <3>2. Accepted'
      BY <2>1, <2>2, <2>3, <2>4, <2>5, <3>1 DEF Accepted, NoEvents
    <3> QED
      BY <2>4, <3>2, Kept DEF Phases
  <2>6. CASE Frame.adr \notin {"own", "broadcast"}
    <3>1. ~ForSlave
      BY <1>a, <2>6, FrameFacts DEF ForSlave, PacedInv
    <3>2. Idle'
      BY <1>a, <1>d, <2>1, <2>2, <2>3, <2>4, <2>6, <3>1
    <3> QED
      BY <2>4, <3>2, Kept DEF Phases
  <2> QED
    BY <2>5, <2>6
<1> QED
  BY <1>b, <1>1, <1>2, <1>3, Stopped
-----------------------------------------------------------------------------
(* The request is executed.                                                            *)

LEMMA AcceptedGuards ==
  ASSUME TypeInv, PacedInv, Accepted, [Next]_vars
  PROVE  \/ TimerDaemon /\ pended = <<ExecuteEvent>>
         \/ MBDelay /\ mbPc = "delay" /\ pended = <<>>
         \/ MBEventGet /\ mbPc = "get" /\ xSlaveOsEventGroup = {1}
         \/ MBExecute /\ mbPc = "execute"
         \/ MBHandler /\ mbPc = "handler"
         \/ UNCHANGED vars
<1>a. /\ ~hung /\ ~Sending /\ ~RxPending /\ Paced /\ serialPc = "wait" /\ ~tcie /\ ~timerOn
      /\ timerPc = "none" /\ ~xSerialEventGroup
  BY WholeFrame DEF Accepted, Whole, Untouched, SendsNothing, HearsNothing
<1>b. /\ ~Quiescent /\ mbPc \in {"delay", "get", "execute", "handler"}
      /\ mbPc = "get" => xSlaveOsEventGroup = {1}
      /\ pended # <<>> => pended = <<ExecuteEvent>>
  BY DEF Accepted, Quiescent, NoEvents, NoPosts
<1>c. MBTaskRuns => pended = <<>>
  BY DEF MBTaskRuns, TaskRuns
<1> QED
  BY <1>a, <1>b, <1>c, Guards

\* What the function handler does with the frame it finds.
LEMMA HandlerEffect ==
  ASSUME TypeInv, PacedInv, Accepted, MBHandler, mbPc = "handler"
  PROVE  /\ applied' = [applied EXCEPT ![Current] = 1]
         /\ IF Frame.adr = "broadcast"
              THEN mbPc' = "delay"
              ELSE /\ mbPc' = "send" /\ usLength' = Frame.rlen
                   /\ \A i \in 1 .. Frame.rlen : ucRTUBuf'[i] = <<-Current, i>>
<1>1. /\ Current \in 1 .. MaxFrames /\ Current \in DOMAIN sent /\ DOMAIN sent = 1 .. Current
      /\ Frame.len >= 4 /\ Frame.len \in Nat
      /\ Frame.rlen \in 1 .. SizeMax - 3 /\ AnswerLength(Current) = Frame.rlen
      /\ SizeMax \in Nat /\ exec = {Current} /\ ucRcvAddress = Frame.adr
      /\ applied \in [1 .. MaxFrames -> 0 .. 2] /\ applied[Current] = 0
      /\ Has(Frame.len)
  BY FrameFacts, T35Assumption
  DEF Accepted, ForSlave, PacedInv, TypeInv, TypeOK, BusTypeOK, Current, Whole, Untouched, NoEvents
<1>2. exec \cup {ucRTUBuf[2][1]} = {Current}
  <2>1. ucRTUBuf[2] = <<Current, 2>>
    BY <1>1 DEF Has
  <2> QED
    BY <1>1, <2>1
<1>3. {f \in DOMAIN sent : {Current} = {f}} = {Current}
  BY <1>1
<1>4. /\ applied' = [f \in DOMAIN applied |->
                       IF f \in {Current} /\ applied[f] < 2 THEN applied[f] + 1 ELSE applied[f]]
      /\ IF Frame.adr = "broadcast"
           THEN mbPc' = "delay"
           ELSE /\ mbPc' = "send"
                /\ usLength' = AnswerLength(Current)
                /\ ucRTUBuf' = [i \in Slots |->
                                  IF i \in 1 .. AnswerLength(Current) THEN <<-Current, i>> ELSE ucRTUBuf[i]]
  <2> DEFINE read == exec \cup {ucRTUBuf[2][1]}
             whole == {f \in DOMAIN sent : read = {f}}
             n == IF whole = {} THEN Mixed ELSE CHOOSE f \in whole : TRUE
  <2>1. /\ applied' = [f \in DOMAIN applied |->
                         IF f \in whole /\ applied[f] < 2 THEN applied[f] + 1 ELSE applied[f]]
        /\ IF ucRcvAddress = "broadcast"
             THEN mbPc' = "delay"
             ELSE /\ mbPc' = "send"
                  /\ usLength' = AnswerLength(n)
                  /\ ucRTUBuf' = [i \in Slots |->
                                    IF i \in 1 .. AnswerLength(n) THEN <<-n, i>> ELSE ucRTUBuf[i]]
    BY Zenon DEF MBHandler
  <2>2. read = {Current}
    BY <1>2
  <2>3. whole = {Current}
    BY <1>3, <2>2
  <2>4. n = Current
    <3>1. (IF {Current} = {} THEN Mixed ELSE CHOOSE f \in {Current} : TRUE) = Current
      OBVIOUS
    <3> HIDE DEF whole
    <3> QED
      BY <2>3, <3>1
  <2> HIDE DEF read, whole, n
  <2>5. ucRcvAddress = Frame.adr
    BY <1>1
  <2> QED
    BY ONLY <2>1, <2>3, <2>4, <2>5
<1>5. applied' = [applied EXCEPT ![Current] = 1]
  <2>1. applied' = [f \in 1 .. MaxFrames |->
                      IF f \in {Current} /\ applied[f] < 2 THEN applied[f] + 1 ELSE applied[f]]
    BY <1>1, <1>4
  <2>2. \A f \in 1 .. MaxFrames : applied'[f] = IF f = Current THEN 1 ELSE applied[f]
    BY <1>1, <2>1
  <2>3. applied' = [f \in 1 .. MaxFrames |-> applied'[f]]
    BY <2>1
  <2> QED
    BY <1>1, <2>2, <2>3
<1>6. 1 .. Frame.rlen \subseteq Slots
  BY <1>1 DEF Slots
<1> QED
  BY <1>1, <1>4, <1>5, <1>6

LEMMA AcceptedStep ==
  ASSUME TypeInv, PacedInv, Accepted, [Next]_vars
  PROVE  Progress
<1> USE DEF groupVars, uartVars, busVars, timerVars, rxVars, txVars, pollVars
<1>a. /\ Whole /\ SendsNothing /\ rxneie /\ HearsNothing /\ ForSlave /\ heard = <<>>
      /\ ucRcvAddress = Frame.adr /\ usLength = Frame.len - 3
      /\ applied[Current] = 0 /\ Current > 0
  BY DEF Accepted, Whole, Untouched
<1>c. ASSUME UNCHANGED <<busVars, uartVars, timerVars, rxVars, txVars, xSerialEventGroup, applied,
                         ucRcvAddress, usLength, ucRTUBuf, timerPc, serialPc, hung>>
      PROVE  /\ Whole' /\ HearsNothing' /\ ForSlave' /\ ucRcvAddress' = Frame'.adr
             /\ usLength' = Frame'.len - 3 /\ Current' = Current
             /\ UNCHANGED <<sent, heard, applied, hung>>
  <2>1. SendsNothing'
    BY <1>a, <1>c DEF SendsNothing
  <2>2. Whole'
    BY <1>a, <1>c, <2>1, WholeStays
  <2> QED
    BY <1>a, <1>c, <2>1, <2>2 DEF HearsNothing, Sending, Current, Frame, ForSlave
<1>1. CASE TimerDaemon /\ pended = <<ExecuteEvent>>
  <2>0. /\ mbPc = "delay" /\ xSlaveOsEventGroup = {}
    BY <1>1, OnePosted DEF Accepted, NoPosts, NoEvents
  <2>1. /\ pended' = <<>> /\ xSlaveOsEventGroup' = {1} /\ xSerialEventGroup' = xSerialEventGroup
        /\ UNCHANGED <<busVars, uartVars, timerVars, rxVars, txVars, pollVars, ucRTUBuf,
                       timerPc, serialPc, mbPc, hung>>
    <3>1. ExecuteEvent.group = "slave" /\ ExecuteEvent.bits = {1}
      BY DEF ExecuteEvent
    <3> HIDE DEF groupVars, uartVars, busVars, timerVars, rxVars, txVars, pollVars
    <3> QED
      BY <1>1, <2>0, <3>1, Daemon
  <2>2. Accepted' /\ UNCHANGED <<sent, heard, applied, hung>>
    BY <1>c, <2>0, <2>1 DEF Accepted, NoPosts
  <2> QED
    BY <2>2, Kept DEF Phases
<1>2. CASE MBDelay /\ mbPc = "delay" /\ pended = <<>>
  <2>1. xSlaveOsEventGroup = {1}
    BY <1>2, OnePosted DEF Accepted
  <2>2. Accepted' /\ UNCHANGED <<sent, heard, applied, hung>>
    BY <1>2, <1>c, <2>1 DEF Accepted, MBDelay, NoPosts
  <2> QED
    BY <2>2, Kept DEF Phases
<1>3. CASE MBEventGet /\ mbPc = "get" /\ xSlaveOsEventGroup = {1}
  <2>1. pended = <<>>
    BY <1>3 DEF Accepted, NoPosts
  <2>2. mbPc' = "execute" /\ xSlaveOsEventGroup' = {}
    <3>1. {1} # {0}
      <4>1. 1 \in {1} /\ 1 \notin {0}
        OBVIOUS
      <4> QED
        BY <4>1, Zenon
    <3> QED
      BY <1>3, <3>1, EventValues DEF MBEventGet
  <2>3. Accepted' /\ UNCHANGED <<sent, heard, applied, hung>>
    BY <1>3, <1>c, <2>1, <2>2 DEF Accepted, MBEventGet, NoPosts, NoEvents
  <2> QED
    BY <2>3, Kept DEF Phases
<1>4. CASE MBExecute /\ mbPc = "execute"
  <2>1. pended = <<>> /\ xSlaveOsEventGroup = {}
    BY <1>4 DEF Accepted, NoPosts, NoEvents
  <2>2. ucRTUBuf[1] = <<Current, 1>>
    <3>1. Frame.len >= 4 /\ Frame.len \in Nat
      BY <1>a, FrameFacts DEF ForSlave, PacedInv
    <3> QED
      BY <1>a, <3>1 DEF Whole, Has
  <2>3. exec' = {Current} /\ mbPc' = "handler"
    BY <1>4, <2>2 DEF MBExecute
  <2>4. Accepted' /\ UNCHANGED <<sent, heard, applied, hung>>
    BY <1>4, <1>c, <2>1, <2>3 DEF Accepted, MBExecute, NoPosts, NoEvents
  <2> QED
    BY <2>4, Kept DEF Phases
<1>5. CASE MBHandler /\ mbPc = "handler"
  <2>1. /\ applied' = [applied EXCEPT ![Current] = 1]
        /\ IF Frame.adr = "broadcast"
             THEN mbPc' = "delay"
             ELSE /\ mbPc' = "send" /\ usLength' = Frame.rlen
                  /\ \A i \in 1 .. Frame.rlen : ucRTUBuf'[i] = <<-Current, i>>
    BY <1>5, HandlerEffect
  <2>2. /\ UNCHANGED <<busVars, uartVars, timerVars, rxVars, txVars, groupVars, pended,
                       timerPc, serialPc, hung>>
        /\ pended = <<>> /\ xSlaveOsEventGroup = {}
    BY <1>5 DEF MBHandler, Accepted, NoPosts, NoEvents
  <2>3. Current' = Current /\ Frame' = Frame /\ (ForSlave' <=> ForSlave) /\ (Unicast' <=> Unicast)
    BY <2>2 DEF Current, Frame, ForSlave, Unicast
  <2>4. /\ Current \in 1 .. MaxFrames /\ Current \in Int /\ applied \in [1 .. MaxFrames -> 0 .. 2]
        /\ Frame.adr \in {"own", "broadcast"}
    BY <1>a, FrameFacts DEF PacedInv, TypeInv, TypeOK, BusTypeOK, ForSlave
  <2>5. applied'[Current'] = 1
    BY <2>1, <2>3, <2>4
  <2>6. Unapplied'
    BY <2>1, <2>3, <2>4 DEF Unapplied, PacedInv
  <2>7. HearsNothing' /\ SendsNothing' /\ NoPosts' /\ NoEvents' /\ rxneie' /\ heard' = <<>>
    BY <1>a, <2>2 DEF HearsNothing, SendsNothing, NoPosts, NoEvents, Sending, Current
  <2>8. Idle' \/ Answering'
    <3>1. CASE Frame.adr = "broadcast"
      <4>1. mbPc' = "delay" /\ ~Unicast'
        BY <2>1, <2>3, <3>1 DEF Unicast
      <4> QED
        BY <2>5, <2>7, <4>1 DEF Idle
    <3>2. CASE Frame.adr = "own"
      <4>1. mbPc' = "send" /\ usLength' = Frame'.rlen /\ Unicast'
        BY <1>a, <2>1, <2>3, <3>2 DEF Unicast
      <4>2. AnswerIn(1, Frame.rlen)'
        BY <2>1, <2>3, <3>2 DEF AnswerIn
      <4> QED
        BY <2>5, <2>7, <4>1, <4>2 DEF Answering, Applied, SendsNothing
    <3> QED
      BY <2>4, <3>1, <3>2
  <2>9. PacedInv'
    BY <2>2, <2>6, <2>8 DEF PacedInv, PacedMaster, Phases
  <2>10. Transaction!Apply
    <3>1. answer' = answer
      BY <2>2 DEF answer, Answer, AnswerLength, Current
    <3>2. Transaction!ForSlave
      BY <1>a DEF ForSlave, Frame, Current, Transaction!ForSlave, Transaction!Current
    <3> QED
      BY <1>a, <2>1, <2>2, <3>1, <3>2 DEF Transaction!Apply, Transaction!Current, Current
  <2> QED
    BY <2>9, <2>10 DEF Progress, Transaction!Next
<1> QED
  BY <1>1, <1>2, <1>3, <1>4, <1>5, AcceptedGuards, Stopped
-----------------------------------------------------------------------------
(* The answer goes out.                                                                *)

\* While the answer is under way nothing happens on the bus.
LEMMA AppliedFacts ==
  ASSUME TypeInv, PacedInv, Applied
  PROVE  /\ PacedMaster /\ Paced /\ ~hung /\ Unapplied /\ ~Sending /\ ~RxPending /\ ~rxne /\ ~timerOn
         /\ timerPc = "none" /\ eRcvState = "IDLE" /\ Current > 0 /\ Current \in Int
         /\ Frame.rlen \in 1 .. SizeMax - 3 /\ Total = Frame.rlen + 3
         /\ SizeMax \in Nat /\ Total \in Nat /\ Total > 0 /\ Total <= SizeMax
         /\ ucRTUBuf \in [Slots -> Chars] /\ heard \in Seq(Chars)
  BY FrameFacts, T35Assumption
  DEF Applied, HearsNothing, Unicast, ForSlave, PacedInv, PacedMaster, RxPending, Total,
      TypeInv, TypeOK, BusTypeOK, CoreTypeOK, Current

LEMMA AppliedStays ==
  ASSUME Applied, UNCHANGED <<sent, nxt, applied, rxne, eRcvState, timerOn, timerPc>>
  PROVE  Applied' /\ Current' = Current /\ Frame' = Frame /\ Total' = Total
BY DEF Applied, Unicast, ForSlave, HearsNothing, Sending, Current, Frame, Total

LEMMA AnsweringStep ==
  ASSUME TypeInv, PacedInv, Answering, [Next]_vars
  PROVE  Progress
<1> USE DEF NoPosts, NoEvents, uartVars, busVars, timerVars, rxVars, txVars, pollVars, groupVars
<1>a. /\ Applied /\ heard = <<>> /\ pended = <<>> /\ xSlaveOsEventGroup = {} /\ ~tcie
      /\ serialPc = "wait" /\ ~xSerialEventGroup /\ mbPc \in {"send", "build", "driver", "start_tx"}
  BY DEF Answering
<1>b. /\ Paced /\ ~hung /\ ~Sending /\ ~RxPending /\ ~timerOn /\ timerPc = "none"
      /\ eRcvState = "IDLE" /\ ~Quiescent
  BY <1>a, AppliedFacts DEF Quiescent
<1>c. \/ MBSendCheck /\ mbPc = "send"
      \/ MBSendBuild /\ mbPc = "build"
      \/ MBSendDriver /\ mbPc = "driver"
      \/ MBSendStart /\ mbPc = "start_tx"
      \/ UNCHANGED vars
  BY <1>a, <1>b, Guards
<1>1. CASE MBSendCheck /\ mbPc = "send"
  <2>1. Applied' /\ Current' = Current /\ Frame' = Frame
    BY <1>1, <1>a, AppliedStays DEF MBSendCheck
  <2>2. AnswerIn(1, Frame.rlen)'
    BY <1>1, <2>1 DEF MBSendCheck, Answering, AnswerIn
  <2>3. Answering' /\ UNCHANGED <<sent, heard, applied, hung>>
    BY <1>1, <1>a, <1>b, <2>1, <2>2 DEF Answering, MBSendCheck
  <2> QED
    BY <2>3, Kept DEF Phases
<1>2. CASE MBSendBuild /\ mbPc = "build"
  <2>1. /\ Applied' /\ Current' = Current /\ Frame' = Frame /\ Total' = Total
    BY <1>2, <1>a, AppliedStays DEF MBSendBuild
  <2>2. /\ usLength = Frame.rlen /\ \A i \in 1 .. Frame.rlen : ucRTUBuf[i] = <<-Current, i>>
        /\ ~de /\ eSndState = "IDLE"
    BY <1>2 DEF Answering, AnswerIn
  <2>3. ucRTUBuf[1][1] = -Current
    BY <1>a, <2>2, AppliedFacts
  <2>4. AnswerIn(0, Total - 1)'
    <3> SUFFICES ASSUME NEW i \in 0 .. Total - 1 PROVE ucRTUBuf'[i] = <<-Current, i>>
      BY <2>1 DEF AnswerIn
    <3>1. i \in Slots /\ (i \in {0, usLength + 1, usLength + 2} \/ i \in 1 .. Frame.rlen)
      BY <1>a, <2>2, AppliedFacts DEF Slots
    <3>2. ucRTUBuf'[i] = IF i \in {0, usLength + 1, usLength + 2} THEN <<ucRTUBuf[1][1], i>> ELSE ucRTUBuf[i]
      BY <1>2, <3>1 DEF MBSendBuild
    <3> QED
      BY <2>2, <2>3, <3>1, <3>2
  <2>5. /\ mbPc' = "driver" /\ eSndState' = "XMIT" /\ pucSndBufferCur' = 0 /\ usSndBufferCount' = Total
        /\ UNCHANGED <<sent, heard, applied, hung, de, tcie, pended, xSlaveOsEventGroup, serialPc,
                       xSerialEventGroup>>
    BY <1>2, <1>a, <2>2, AppliedFacts DEF MBSendBuild
  <2>6. Answering'
    BY <1>a, <2>1, <2>2, <2>4, <2>5 DEF Answering
  <2> QED
    BY <2>5, <2>6, Kept DEF Phases
<1>3. CASE MBSendDriver /\ mbPc = "driver"
  <2>1. Applied' /\ Current' = Current /\ Frame' = Frame /\ Total' = Total
    BY <1>3, <1>a, AppliedStays DEF MBSendDriver
  <2>2. AnswerIn(0, Total - 1)'
    BY <1>3, <2>1 DEF MBSendDriver, Answering, AnswerIn
  <2>3. Answering' /\ UNCHANGED <<sent, heard, applied, hung>>
    BY <1>3, <1>a, <2>1, <2>2 DEF Answering, MBSendDriver
  <2> QED
    BY <2>3, Kept DEF Phases
<1>4. CASE MBSendStart /\ mbPc = "start_tx"
  <2>1. Applied' /\ Current' = Current /\ Frame' = Frame /\ Total' = Total
    BY <1>4, <1>a, AppliedStays DEF MBSendStart
  <2>2. AnswerIn(0, Total - 1)'
    BY <1>4, <2>1 DEF MBSendStart, Answering, AnswerIn
  <2>3. Heard(0)'
    BY <1>4, <1>a, EmptySeq DEF MBSendStart, Heard
  <2>4. Transmitting' /\ UNCHANGED <<sent, heard, applied, hung>>
    <3>1. /\ mbPc' = "delay" /\ ~rxneie' /\ de' /\ xSerialEventGroup' = TRUE
          /\ pucSndBufferCur' = 0 /\ usSndBufferCount' = Total /\ eSndState' = "XMIT"
          /\ ~tcie' /\ serialPc' = "wait" /\ pended' = <<>> /\ xSlaveOsEventGroup' = {}
          /\ UNCHANGED <<sent, heard, applied, hung>>
      BY <1>4, <1>a DEF Answering, MBSendStart
    <3>2. pucSndBufferCur' + usSndBufferCount' = Total'
      BY <1>a, <2>1, <3>1, AppliedFacts
    <3> QED
      BY <2>1, <2>2, <2>3, <3>1, <3>2 DEF Transmitting
  <2> QED
    BY <2>4, Kept DEF Phases
<1> QED
  BY <1>c, <1>1, <1>2, <1>3, <1>4, Stopped
LEMMA TransmittingGuards ==
  ASSUME TypeInv, PacedInv, Transmitting, [Next]_vars
  PROVE  \/ TcIsr /\ tcie
         \/ TimerDaemon /\ pended = <<SerialUpdate>>
         \/ SerialWake /\ serialPc = "wait" /\ xSerialEventGroup
         \/ SerialTransmit /\ serialPc = "fsm"
         \/ MBDelay /\ mbPc = "delay" /\ tcie
         \/ UNCHANGED vars
<1>a. /\ Paced /\ ~hung /\ ~Sending /\ ~RxPending /\ ~timerOn /\ timerPc = "none"
      /\ xSlaveOsEventGroup = {} /\ mbPc \in {"delay", "get"} /\ eSndState = "XMIT"
  BY AppliedFacts DEF Transmitting, NoEvents
<1>b. ~Quiescent
  BY <1>a DEF Quiescent
<1>c. /\ serialPc \in {"wait", "fsm"}
      /\ pended # <<>> => pended = <<SerialUpdate>>
      /\ (serialPc = "wait" /\ ~xSerialEventGroup /\ pended = <<>>) => tcie
  BY OnePosted DEF Transmitting, NoPosts
<1>d. MBTaskRuns => serialPc = "wait" /\ ~xSerialEventGroup /\ pended = <<>>
  BY DEF MBTaskRuns, TaskRuns
<1> QED
  BY <1>a, <1>b, <1>c, <1>d, Guards

LEMMA TransmittingStep ==
  ASSUME TypeInv, PacedInv, Transmitting, [Next]_vars
  PROVE  Progress
<1> USE DEF NoPosts, NoEvents, uartVars, busVars, timerVars, rxVars, txVars, pollVars
<1>a. /\ Applied /\ xSlaveOsEventGroup = {} /\ mbPc \in {"delay", "get"} /\ ~rxneie /\ de
      /\ eSndState = "XMIT" /\ AnswerIn(0, Total - 1) /\ pucSndBufferCur + usSndBufferCount = Total
  BY DEF Transmitting
<1>b. /\ Current > 0 /\ Current \in Int /\ Total \in Nat /\ Total > 0 /\ Total <= SizeMax
      /\ SizeMax \in Nat /\ heard \in Seq(Chars) /\ pucSndBufferCur \in Nat /\ usSndBufferCount \in Nat
      /\ PacedMaster /\ Unapplied /\ ~hung /\ eRcvState = "IDLE"
  BY <1>a, AppliedFacts DEF TypeInv, TypeOK, CoreTypeOK
<1>c. ASSUME UNCHANGED <<sent, nxt, applied, rxne, eRcvState, timerOn, timerPc, rxneie, de, eSndState,
                         ucRTUBuf, xSlaveOsEventGroup>>, mbPc' \in {"delay", "get"},
             pucSndBufferCur' + usSndBufferCount' = Total
      PROVE  /\ Applied' /\ xSlaveOsEventGroup' = {} /\ mbPc' \in {"delay", "get"} /\ ~rxneie' /\ de'
             /\ eSndState' = "XMIT" /\ AnswerIn(0, Total - 1)'
             /\ pucSndBufferCur' + usSndBufferCount' = Total'
             /\ Current' = Current /\ Frame' = Frame /\ Total' = Total
  <2>1. Applied' /\ Current' = Current /\ Frame' = Frame /\ Total' = Total
    BY <1>a, <1>c, AppliedStays
  <2>2. AnswerIn(0, Total - 1)'
    BY <1>a, <1>c, <2>1 DEF AnswerIn
  <2> QED
    BY <1>a, <1>c, <2>1, <2>2
<1>1. CASE TcIsr /\ tcie
  <2>1. /\ serialPc = "wait" /\ ~xSerialEventGroup /\ pended = <<>> /\ pucSndBufferCur > 0
        /\ tdr = <<-Current, pucSndBufferCur - 1>> /\ Heard(pucSndBufferCur - 1)
    BY <1>1 DEF Transmitting
  <2>2. /\ tcie' = FALSE /\ pended' = <<SerialUpdate>>
        /\ heard' = (IF Len(heard) < SizeMax THEN Append(heard, tdr) ELSE heard)
        /\ UNCHANGED <<sent, nxt, rxne, rxneie, tdr, de, timerVars, rxVars, txVars,
                       groupVars, pollVars, ucRTUBuf, timerPc, serialPc, mbPc, hung>>
    BY <1>1, <2>1, Posts DEF TcIsr, MaskTc
  <2>3. /\ Applied' /\ xSlaveOsEventGroup' = {} /\ mbPc' \in {"delay", "get"} /\ ~rxneie' /\ de'
        /\ eSndState' = "XMIT" /\ AnswerIn(0, Total - 1)'
        /\ pucSndBufferCur' + usSndBufferCount' = Total'
        /\ Current' = Current /\ Frame' = Frame /\ Total' = Total
    BY <1>a, <1>c, <2>2 DEF groupVars
  <2>4. Heard(pucSndBufferCur)'
    <3>1. /\ Len(heard) = pucSndBufferCur - 1 /\ Len(heard) < SizeMax
          /\ \A i \in 1 .. Len(heard) : heard[i] = <<-Current, i - 1>>
      BY <1>a, <1>b, <2>1 DEF Heard
    <3>2. heard' = Append(heard, tdr)
      BY <2>2, <3>1
    <3>3. /\ Len(heard') = Len(heard) + 1 /\ heard'[Len(heard) + 1] = tdr
          /\ \A i \in 1 .. Len(heard) : heard'[i] = heard[i]
      BY <1>b, <3>2
    <3>4. \A i \in 1 .. pucSndBufferCur : heard'[i] = <<-Current, i - 1>>
      BY <1>b, <2>1, <3>1, <3>3
    <3> QED
      BY <1>b, <2>2, <2>3, <3>1, <3>3, <3>4 DEF Heard
  <2>5. Transmitting'
    BY <2>1, <2>2, <2>3, <2>4 DEF Transmitting, groupVars
  <2>6. PacedInv'
    BY <1>b, <2>2, <2>3, <2>5 DEF PacedInv, Unapplied, PacedMaster, Phases
  <2>7. /\ answer = "none" \/ answer = "partial"
        /\ answer' = "partial" \/ answer' = "complete"
    <3>1. pucSndBufferCur - 1 \in Nat /\ pucSndBufferCur - 1 <= Total /\ pucSndBufferCur - 1 # Total
      BY <1>a, <1>b, <2>1
    <3>2. answer = "none" \/ answer = "partial"
      BY <1>b, <2>1, <3>1, AnswerHeard
    <3>3. heard' \in Seq(Chars) /\ sent' = sent
      BY <2>2, TypeInvNext DEF TypeInv, TypeOK, BusTypeOK
    <3>4. pucSndBufferCur \in Nat /\ pucSndBufferCur <= Total /\ pucSndBufferCur > 0
      BY <1>a, <1>b, <2>1, <2>3
    <3>5. /\ Len(heard') = pucSndBufferCur
          /\ \A i \in 1 .. pucSndBufferCur : heard'[i] = <<-Current, i - 1>>
      BY <2>2, <2>3, <2>4 DEF Heard
    <3>6. \/ pucSndBufferCur < Total /\ answer' = "partial"
          \/ pucSndBufferCur = Total /\ answer' = "complete"
      BY <1>b, <3>3, <3>4, <3>5, AnswerHeardNext
    <3> QED
      BY <3>2, <3>6
  <2>8. Transaction!BeginAnswer \/ Transaction!EndAnswer \/ UNCHANGED Transaction!vars
    <3>1. Transaction!Unicast /\ applied[Current] = 1
      BY <1>a DEF Applied, Unicast, ForSlave, Frame, Current,
         Transaction!Unicast, Transaction!ForSlave, Transaction!Current
    <3> QED
      BY <2>2, <2>7, <3>1 DEF Transaction!BeginAnswer, Transaction!EndAnswer, Transaction!vars,
         Transaction!Current, Current
  <2> QED
    BY <2>6, <2>8 DEF Progress, Transaction!Next
<1>2. CASE TimerDaemon /\ pended = <<SerialUpdate>>
  <2>1. /\ serialPc = "wait" /\ ~tcie /\ Heard(pucSndBufferCur)
    BY <1>2, OnePosted DEF Transmitting
  <2>2. /\ pended' = <<>> /\ xSerialEventGroup' = TRUE /\ xSlaveOsEventGroup' = xSlaveOsEventGroup
        /\ UNCHANGED <<busVars, uartVars, timerVars, rxVars, txVars, pollVars, ucRTUBuf,
                       timerPc, serialPc, mbPc, hung>>
    <3>1. SerialUpdate.group # "slave"
      BY DEF SerialUpdate
    <3> HIDE DEF uartVars, busVars, timerVars, rxVars, txVars, pollVars
    <3> QED
      BY <1>2, <3>1, Daemon
  <2>3. Transmitting' /\ UNCHANGED <<sent, heard, applied, hung>>
    <3>1. Heard(pucSndBufferCur)'
      BY <2>1, <2>2 DEF Heard, Current
    <3> QED
      BY <1>a, <1>c, <2>1, <2>2, <3>1 DEF Transmitting
  <2> QED
    BY <2>3, Kept DEF Phases
<1>3. CASE SerialWake /\ serialPc = "wait" /\ xSerialEventGroup
  <2>1. pended = <<>> /\ ~tcie /\ Heard(pucSndBufferCur)
    BY <1>3 DEF Transmitting
  <2>2. /\ serialPc' = "fsm" /\ xSerialEventGroup' = FALSE
        /\ UNCHANGED <<busVars, uartVars, timerVars, rxVars, txVars, xSlaveOsEventGroup, pollVars,
                       ucRTUBuf, pended, timerPc, mbPc, hung>>
    BY <1>3 DEF SerialWake
  <2>3. Transmitting' /\ UNCHANGED <<sent, heard, applied, hung>>
    <3>1. Heard(pucSndBufferCur)'
      BY <2>1, <2>2 DEF Heard, Current
    <3> QED
      BY <1>a, <1>c, <2>1, <2>2, <3>1 DEF Transmitting
  <2> QED
    BY <2>3, Kept DEF Phases
<1>4. CASE SerialTransmit /\ serialPc = "fsm"
  <2>1. pended = <<>> /\ ~tcie /\ ~xSerialEventGroup /\ Heard(pucSndBufferCur)
    BY <1>4 DEF Transmitting
  <2>2. UNCHANGED <<busVars, rxne, rdr, rxneie, timerVars, rxVars, eSndState, groupVars, pollVars,
                    ucRTUBuf, timerPc, mbPc, hung>>
    BY <1>4 DEF SerialTransmit
  <2>3. CASE usSndBufferCount # 0
    <3>1. /\ tdr' = ucRTUBuf[pucSndBufferCur] /\ tcie' = TRUE /\ de' = TRUE
          /\ pucSndBufferCur' = pucSndBufferCur + 1 /\ usSndBufferCount' = usSndBufferCount - 1
          /\ serialPc' = "wait" /\ pended' = pended
      BY <1>4, <1>a, <1>b, <2>3 DEF SerialTransmit, SendCharacter
    <3>2. ucRTUBuf[pucSndBufferCur] = <<-Current, pucSndBufferCur>>
      <4>1. pucSndBufferCur \in 0 .. Total - 1
        BY <1>a, <1>b, <2>3
      <4> QED
        BY <1>a, <4>1 DEF AnswerIn
    <3>3. /\ Applied' /\ xSlaveOsEventGroup' = {} /\ mbPc' \in {"delay", "get"} /\ ~rxneie' /\ de'
          /\ eSndState' = "XMIT" /\ AnswerIn(0, Total - 1)'
          /\ pucSndBufferCur' + usSndBufferCount' = Total'
          /\ Current' = Current /\ Frame' = Frame /\ Total' = Total
      <4>1. pucSndBufferCur' + usSndBufferCount' = Total
        BY <1>a, <1>b, <3>1
      <4>2. de' = de
        BY <1>a, <1>4, <2>2, <3>1 DEF FlagTypeOK, TypeInv, TypeOK
      <4> QED
        BY <1>a, <1>c, <2>2, <4>1, <4>2 DEF groupVars
    <3>4. /\ pucSndBufferCur' > 0 /\ tdr' = <<-Current', pucSndBufferCur' - 1>>
          /\ Heard(pucSndBufferCur - 1)'
      BY <1>b, <2>1, <2>2, <3>1, <3>2, <3>3 DEF Heard
    <3>5. Transmitting'
      BY <2>1, <2>2, <3>1, <3>3, <3>4 DEF Transmitting, groupVars
    <3> QED
      BY <2>2, <3>5, Kept DEF Phases
  <2>4. CASE usSndBufferCount = 0
    <3>1. /\ pended' = <<SentEvent>> /\ serialPc' = "enable"
          /\ UNCHANGED <<tdr, tcie, de, pucSndBufferCur, usSndBufferCount>>
      BY <1>4, <1>a, <1>b, <2>1, <2>4, Posts DEF SerialTransmit
    <3>2. Applied' /\ Current' = Current /\ Total' = Total
      BY <1>a, <2>2, AppliedStays
    <3>3. Heard(Total)'
      BY <1>a, <1>b, <2>1, <2>2, <2>4, <3>2 DEF Heard
    <3>4. Finishing'
      BY <1>a, <2>1, <2>2, <3>1, <3>2, <3>3 DEF Finishing, groupVars
    <3> QED
      BY <2>2, <3>4, Kept DEF Phases
  <2> QED
    BY <2>3, <2>4
<1>5. CASE MBDelay /\ mbPc = "delay" /\ tcie
  <2>1. /\ serialPc = "wait" /\ ~xSerialEventGroup /\ pended = <<>> /\ pucSndBufferCur > 0
        /\ tdr = <<-Current, pucSndBufferCur - 1>> /\ Heard(pucSndBufferCur - 1)
    BY <1>5 DEF Transmitting
  <2>2. /\ mbPc' = "get"
        /\ UNCHANGED <<busVars, uartVars, timerVars, rxVars, txVars, groupVars, pollVars,
                       ucRTUBuf, pended, timerPc, serialPc, hung>>
    BY <1>5 DEF MBDelay
  <2>3. Transmitting' /\ UNCHANGED <<sent, heard, applied, hung>>
    <3>1. Heard(pucSndBufferCur - 1)'
      BY <2>1, <2>2 DEF Heard, Current
    <3> QED
      BY <1>a, <1>c, <1>5, <2>1, <2>2, <3>1 DEF Transmitting, groupVars
  <2> QED
    BY <2>3, Kept DEF Phases
<1> QED
  BY <1>1, <1>2, <1>3, <1>4, <1>5, TransmittingGuards, Stopped

LEMMA FinishingStep ==
  ASSUME TypeInv, PacedInv, Finishing, [Next]_vars
  PROVE  Progress
<1> USE DEF NoPosts, NoEvents, uartVars, busVars, timerVars, rxVars, txVars, pollVars
<1>a. /\ Applied /\ Heard(Total) /\ mbPc \in {"delay", "get"} /\ ~tcie /\ ~xSerialEventGroup
      /\ serialPc \in {"enable", "idle", "wait"}
      /\ pended # <<>> => /\ pended = <<SentEvent>> /\ serialPc = "enable"
                          /\ xSlaveOsEventGroup = {}
      /\ pended = <<>> => xSlaveOsEventGroup = {0, 1}
  BY OnePosted DEF Finishing
<1>b. /\ Paced /\ ~hung /\ ~Sending /\ ~RxPending /\ ~timerOn /\ timerPc = "none"
  BY <1>a, AppliedFacts
<1>c. ~Quiescent
  BY <1>a DEF Quiescent
<1>d. \/ TimerDaemon /\ pended = <<SentEvent>> /\ serialPc = "enable" /\ xSlaveOsEventGroup = {}
      \/ SerialEnable /\ serialPc = "enable" /\ pended = <<>>
      \/ SerialIdle /\ serialPc = "idle" /\ pended = <<>>
      \/ MBDelay /\ mbPc = "delay" /\ serialPc = "wait" /\ pended = <<>>
      \/ MBEventGet /\ mbPc = "get" /\ serialPc = "wait" /\ pended = <<>>
      \/ UNCHANGED vars
  <2>1. TaskRuns => pended = <<>>
    BY DEF TaskRuns
  <2>2. MBTaskRuns => serialPc = "wait" /\ pended = <<>>
    BY DEF MBTaskRuns, TaskRuns
  <2> QED
    BY <1>a, <1>b, <1>c, <2>1, <2>2, Guards
<1>e. ASSUME UNCHANGED <<sent, nxt, heard, applied, rxne, eRcvState, timerOn, timerPc>>
      PROVE  Applied' /\ Heard(Total)' /\ Current' = Current /\ Frame' = Frame
  <2>1. Applied' /\ Current' = Current /\ Frame' = Frame /\ Total' = Total
    BY <1>a, <1>e, AppliedStays
  <2> QED
    BY <1>a, <1>e, <2>1 DEF Heard
<1>1. CASE TimerDaemon /\ pended = <<SentEvent>> /\ serialPc = "enable" /\ xSlaveOsEventGroup = {}
  <2>1. /\ pended' = <<>> /\ xSlaveOsEventGroup' = {0, 1} /\ xSerialEventGroup' = xSerialEventGroup
        /\ UNCHANGED <<busVars, uartVars, timerVars, rxVars, txVars, pollVars, ucRTUBuf,
                       timerPc, serialPc, mbPc, hung>>
    <3>1. SentEvent.group = "slave" /\ SentEvent.bits = {0, 1}
      BY DEF SentEvent
    <3> HIDE DEF uartVars, busVars, timerVars, rxVars, txVars, pollVars
    <3> QED
      BY <1>1, <3>1, Daemon
  <2>2. Finishing' /\ UNCHANGED <<sent, heard, applied, hung>>
    BY <1>1, <1>a, <1>e, <2>1 DEF Finishing
  <2> QED
    BY <2>2, Kept DEF Phases
<1>2. CASE SerialEnable /\ serialPc = "enable" /\ pended = <<>>
  <2>1. /\ rxneie' = TRUE /\ de' = FALSE /\ xSerialEventGroup' = FALSE /\ serialPc' = "idle"
        /\ UNCHANGED <<busVars, rxne, rdr, tcie, tdr, timerVars, rxVars, txVars, xSlaveOsEventGroup,
                       pollVars, ucRTUBuf, pended, timerPc, mbPc, hung>>
    BY <1>2 DEF SerialEnable, ReceiveEnable
  <2>2. Finishing' /\ UNCHANGED <<sent, heard, applied, hung>>
    BY <1>2, <1>a, <1>e, <2>1 DEF Finishing
  <2> QED
    BY <2>2, Kept DEF Phases
<1>3. CASE SerialIdle /\ serialPc = "idle" /\ pended = <<>>
  <2>0. rxneie /\ ~de
    BY <1>3 DEF Finishing
  <2>1. /\ eSndState' = "IDLE" /\ serialPc' = "wait"
        /\ UNCHANGED <<busVars, uartVars, timerVars, rxVars, pucSndBufferCur, usSndBufferCount,
                       groupVars, pollVars, ucRTUBuf, pended, timerPc, mbPc, hung>>
    BY <1>3 DEF SerialIdle
  <2>2. Finishing' /\ UNCHANGED <<sent, heard, applied, hung>>
    BY <1>3, <1>a, <1>e, <2>0, <2>1 DEF Finishing, groupVars
  <2> QED
    BY <2>2, Kept DEF Phases
<1>4. CASE MBDelay /\ mbPc = "delay" /\ serialPc = "wait" /\ pended = <<>>
  <2>0. rxneie /\ ~de /\ eSndState = "IDLE"
    BY <1>4, OnePosted DEF Finishing
  <2>1. /\ mbPc' = "get"
        /\ UNCHANGED <<busVars, uartVars, timerVars, rxVars, txVars, groupVars, pollVars,
                       ucRTUBuf, pended, timerPc, serialPc, hung>>
    BY <1>4 DEF MBDelay
  <2>2. Finishing' /\ UNCHANGED <<sent, heard, applied, hung>>
    BY <1>4, <1>a, <1>e, <2>0, <2>1 DEF Finishing, groupVars
  <2> QED
    BY <2>2, Kept DEF Phases
<1>5. CASE MBEventGet /\ mbPc = "get" /\ serialPc = "wait" /\ pended = <<>>
  <2>0. rxneie /\ ~de /\ eSndState = "IDLE" /\ xSlaveOsEventGroup = {0, 1}
    BY <1>5, OnePosted DEF Finishing
  <2>1. {0, 1} # {0} /\ {0, 1} # {1}
    <3>1. 0 \in {0, 1} /\ 1 \in {0, 1} /\ 0 \notin {1} /\ 1 \notin {0}
      OBVIOUS
    <3> QED
      BY <3>1, Zenon
  <2>2. /\ mbPc' = "delay" /\ xSlaveOsEventGroup' = {}
        /\ UNCHANGED <<busVars, uartVars, timerVars, rxVars, txVars, xSerialEventGroup, pollVars,
                       ucRTUBuf, pended, timerPc, serialPc, hung>>
    BY <1>5, <2>0, <2>1, EventValues DEF MBEventGet
  <2>3. Applied' /\ Heard(Total)'
    BY <1>e, <2>2
  <2>4. Idle' /\ UNCHANGED <<sent, heard, applied, hung>>
    BY <1>5, <1>a, <2>0, <2>2, <2>3 DEF Idle, Applied, HearsNothing, SendsNothing
  <2> QED
    BY <2>4, Kept DEF Phases
<1> QED
  BY <1>d, <1>1, <1>2, <1>3, <1>4, <1>5, Stopped

-----------------------------------------------------------------------------
(* The theorems.                                                                       *)

LEMMA PacedInvInit == PacedMaster /\ Init => PacedInv /\ Transaction!Init
<1> SUFFICES ASSUME PacedMaster, Init PROVE PacedInv /\ Transaction!Init
  OBVIOUS
<1>1. Booting
  BY DEF Init, SlaveInit, Booting, SendsNothing, NoEvents, NoPosts
<1>2. Unapplied
  BY EmptySeq DEF Init, Unapplied, Current
<1>3. answer = "none" /\ ~hung
  BY DEF Init, SlaveInit, answer
<1> QED
  BY <1>1, <1>2, <1>3 DEF PacedInv, Phases, Init, Transaction!Init

LEMMA PacedInvNext ==
  TypeInv /\ PacedInv /\ [Next]_vars => PacedInv' /\ [Transaction!Next]_(Transaction!vars)
BY BootingStep, IdleStep, ReceivingStep, EndedStep, CheckingStep, AcceptedStep, AnsweringStep,
   TransmittingStep, FinishingStep DEF PacedInv, Phases, Progress

LEMMA PacedInvAlways == PacedMaster /\ Spec => []PacedInv
BY PacedInvInit, PacedInvNext, TypeInvAlways, PTL DEF Spec

\* With a paced master a handler only ever sees the frame that was checked: neither the
\* receiver nor the transmitter touches ucRTUBuf between eMBRTUReceive and the handler.
THEOREM ExecutesWholeFramePaced == PacedMaster /\ Spec => []ExecutesWholeFrame
<1>1. TypeInv /\ PacedInv => ExecutesWholeFrame
  <2> SUFFICES ASSUME TypeInv, PacedInv, mbPc \in {"execute", "handler"}
               PROVE  /\ Current > 0 /\ ~Sending
                      /\ sent[Current].ok /\ sent[Current].adr # "other"
                      /\ \A i \in 0 .. sent[Current].len - 1 : ucRTUBuf[i] = <<Current, i>>
                      /\ usLength = sent[Current].len - 3
    BY DEF ExecutesWholeFrame
  <2>1. Accepted
    BY DEF PacedInv, Phases, Booting, Idle, Receiving, Ended, Checking, Answering, Transmitting, Finishing
  <2> QED
    BY <2>1 DEF Accepted, Whole, HearsNothing, ForSlave, Has, Frame
<1> QED
  BY <1>1, PacedInvAlways, TypeInvAlways, PTL DEF Spec

\* With a paced master xMBRTUTransmitFSM is never called while a character is being sent.
THEOREM NoTransmitOverrunPaced == PacedMaster /\ Spec => []NoTransmitOverrun
<1>1. PacedInv => NoTransmitOverrun
  BY DEF PacedInv, Phases, Booting, Idle, Receiving, Ended, Checking, Accepted, Answering, Transmitting,
     Finishing, SendsNothing, Whole, Untouched, NoTransmitOverrun
<1> QED
  BY <1>1, PacedInvAlways, PTL

\* With a paced master none of the asserts of mbrtu.c fails: the controller is not reset
\* by its watchdog and neither task stops.
THEOREM AssertsHoldPaced == PacedMaster /\ Spec => []AssertsHold
<1>1. PacedInv => AssertsHold
  BY DEF PacedInv, Phases, Booting, Idle, Receiving, Ended, Checking, Accepted, Answering, Transmitting,
     Finishing, SendsNothing, Whole, Untouched, AssertsHold
<1> QED
  BY <1>1, PacedInvAlways, PTL

\* With a paced master the slave implements the steps of a transaction: every sound
\* request takes effect exactly once, before its one answer, and every other is ignored.
THEOREM TransactionSteps ==
  PacedMaster /\ Spec => Transaction!Init /\ [][Transaction!Next]_(Transaction!vars)
<1>1. TypeInv /\ PacedInv /\ [Next]_vars => [Transaction!Next]_(Transaction!vars)
  BY PacedInvNext
<1> QED
  BY <1>1, PacedInvInit, PacedInvAlways, TypeInvAlways, PTL DEF Spec

=============================================================================
