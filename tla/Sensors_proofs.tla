--------------------------- MODULE Sensors_proofs ---------------------------
(* Types and freshness of the pressures, for any number of sensors, any time-outs  *)
(* and any number of faults.                                                         *)
EXTENDS Sensors, TLAPS

LEMMA TypeInit == Init => TypeOK
<1> SUFFICES ASSUME Init PROVE TypeOK
  OBVIOUS
<1>1. /\ SENS_FSM \in [Channel -> SensorStates] /\ fsm \in [Channel -> I2CStates]
      /\ data \in [Channel -> {"new", "old"}] /\ present \in [Channel -> BOOLEAN]
  BY DEF Init, SensorStates, I2CStates
<1>2. bus \in [Channel -> BOOLEAN]
  BY Zenon DEF Init
<1>3. i2cdata \in [Channel -> [Byte -> Origin]] /\ sample \in [Channel -> [Byte -> Origin]]
  BY DEF Init, Origin
<1>4. converting \in [Channel -> 0 .. ConversionTime] /\ 0 \in 0 .. RoundTime + 1 /\ 0 \in 0 .. MaxFaults
  BY TimeAssumption DEF Init
<1> QED
  BY <1>1, <1>2, <1>3, <1>4 DEF Init, TypeOK

LEMMA OperatorTypes ==
  ASSUME TypeOK, NEW c \in Channel
  PROVE  /\ After(c) \in I2CStates
         /\ NextSensorState(c) \in SensorStates
         /\ BytesRead(c) \in [Byte -> Origin]
         /\ [b \in Byte |-> Aged(i2cdata[c][b])] \in [Byte -> Origin]
         /\ Aged(data[c]) \in {"new", "old"}
         /\ Restarted(c) \in SensorStates
         /\ Released(c) \in BOOLEAN
         /\ Complete(c) \in BOOLEAN
<1>1. After(c) \in I2CStates
  BY DEF After, I2CStates
<1>2. NextSensorState(c) \in SensorStates
  BY DEF NextSensorState, SensorStates
<1>3. Received(c) \in Origin
  BY DEF TypeOK, Received, Origin
<1>4. BytesRead(c) \in [Byte -> Origin]
  BY <1>3 DEF TypeOK, BytesRead
<1>5. [b \in Byte |-> Aged(i2cdata[c][b])] \in [Byte -> Origin]
  BY DEF TypeOK, Aged, Origin
<1>6. Aged(data[c]) \in {"new", "old"}
  BY DEF TypeOK, Aged
<1> QED
  BY <1>1, <1>2, <1>4, <1>5, <1>6 DEF Restarted, Released, Complete, SensorStates

LEMMA TypePoll == TypeOK /\ Poll => TypeOK'
<1> SUFFICES ASSUME TypeOK, Poll PROVE TypeOK'
  OBVIOUS
<1> USE DEF TypeOK
<1>1. SENS_FSM' \in [Channel -> SensorStates]
  BY OperatorTypes DEF Poll, SensorStates
<1>2. fsm' \in [Channel -> I2CStates]
  BY OperatorTypes DEF Poll, I2CStates
<1>3. bus' \in [Channel -> BOOLEAN]
  <2>1. \A c \in Channel : Released(c) \in BOOLEAN
    BY OperatorTypes
  <2>3. \A c \in Channel : bus[c] \in BOOLEAN
    OBVIOUS
  <2>4. \A c \in Channel : (~Complete(c)) \in BOOLEAN
    BY Zenon
  <2>2. PICK S \in SUBSET CanMove :
           bus' = [c \in Channel |-> IF StartTimedOut(c) THEN Released(c)
                      ELSE IF c \in S /\ ~StartTimedOut(c) THEN ~Complete(c) ELSE bus[c]]
    BY DEF Poll
  <2> QED
    BY <2>1, <2>2, <2>3, <2>4, Zenon
<1>4. i2cdata' \in [Channel -> [Byte -> Origin]] /\ sample' \in [Channel -> [Byte -> Origin]]
  BY OperatorTypes DEF Poll
<1>5. converting' \in [Channel -> 0 .. ConversionTime]
  BY TimeAssumption DEF Poll
<1>6. pc' \in {"loop", "delay", "check", "round"} /\ polled' \in BOOLEAN
  BY DEF Poll
<1> QED
  BY <1>1, <1>2, <1>3, <1>4, <1>5, <1>6 DEF Poll

LEMMA TypeOthers == TypeOK /\ (Loop \/ RoundTimedOut \/ NewRound \/ Sensor) => TypeOK'
<1> SUFFICES ASSUME TypeOK, Loop \/ RoundTimedOut \/ NewRound \/ Sensor PROVE TypeOK'
  OBVIOUS
<1>1. CASE Loop
  BY <1>1 DEF TypeOK, Loop, master, device
<1>2. CASE RoundTimedOut
  BY <1>2 DEF TypeOK, RoundTimedOut, device, I2CStates
<1>3. CASE NewRound
  BY <1>3, OperatorTypes, TimeAssumption DEF TypeOK, NewRound, Origin
<1>4. CASE Sensor
  <2> PICK c \in Channel : Unplug(c) \/ Plug(c)
    BY <1>4 DEF Sensor
  <2>1. CASE Unplug(c)
    BY <2>1, TimeAssumption DEF TypeOK, Unplug, task, master
  <2>2. CASE Plug(c)
    BY <2>2 DEF TypeOK, Plug, task, master
  <2> QED
    BY <2>1, <2>2
<1> QED
  BY <1>1, <1>2, <1>3, <1>4

LEMMA TypeTick == TypeOK /\ Tick => TypeOK'
<1> SUFFICES ASSUME TypeOK, Tick PROVE TypeOK'
  OBVIOUS
<1>1. sensor_time_out' \in 0 .. RoundTime + 1
  BY TimeAssumption DEF TypeOK, Tick
<1>2. converting' \in [Channel -> 0 .. ConversionTime]
  BY TimeAssumption DEF TypeOK, Tick
<1>3. data' \in [Channel -> {"new", "old"}]
  BY DEF TypeOK, Tick
<1>4. faults' \in 0 .. MaxFaults
  BY TimeAssumption DEF TypeOK, Tick
<1>5. pc' \in {"loop", "delay", "check", "round"} /\ polled' \in BOOLEAN
  BY DEF TypeOK, Tick
<1> QED
  BY <1>1, <1>2, <1>3, <1>4, <1>5 DEF TypeOK, Tick, master

LEMMA TypeStep == TypeOK /\ [Next]_vars => TypeOK'
<1> SUFFICES ASSUME TypeOK, [Next]_vars PROVE TypeOK'
  OBVIOUS
<1>1. CASE UNCHANGED vars
  BY <1>1 DEF TypeOK, vars, task, master, device
<1> QED
  BY <1>1, TypePoll, TypeOthers, TypeTick DEF Next, I2CTask

(* Every variable stays in its range. *)
THEOREM TypeCorrect == Spec => []TypeOK
<1> QED
  BY TypeInit, TypeStep, PTL DEF Spec

-----------------------------------------------------------------------------
(* The transactions and the buses after the time-outs. *)

LEMMA InStepPoll == TypeOK /\ InStep /\ Poll => InStep'
<1> SUFFICES ASSUME TypeOK, InStep, Poll, NEW c \in Channel
             PROVE  (/\ bus[c] <=> fsm[c] # "GET_BUSY"
                     /\ Idle(c) \/ pc = "round" => fsm[c] = "GET_BUSY"
                     /\ fsm[c] = "EVT_8_2" => Setting(c)
                     /\ fsm[c] \in {"CHECK_ACK_R", "EVT_6_1"} => ~Setting(c))'
  BY DEF InStep
<1> DEFINE Stays == /\ SENS_FSM'[c] = SENS_FSM[c] /\ bus'[c] = bus[c]
                    /\ fsm'[c] = fsm[c]
           GivenUp == SENS_FSM'[c] = "IDLE" /\ fsm'[c] = "GET_BUSY" /\ ~bus'[c]
           Moves == /\ SENS_FSM'[c] = IF Complete(c) THEN NextSensorState(c) ELSE SENS_FSM[c]
                    /\ fsm'[c] = After(c) /\ (bus'[c] <=> ~Complete(c))
                    /\ ~Idle(c)
<1>1. PICK S \in SUBSET CanMove :
        /\ SENS_FSM' = [d \in Channel |->
              IF StartTimedOut(d) THEN "IDLE"
              ELSE IF d \in S /\ ~StartTimedOut(d) /\ Complete(d) THEN NextSensorState(d)
              ELSE SENS_FSM[d]]
        /\ fsm' = [d \in Channel |->
              IF StartTimedOut(d) \/ Idle(d) THEN "GET_BUSY"
              ELSE IF d \in S /\ ~StartTimedOut(d) THEN After(d) ELSE fsm[d]]
        /\ bus' = [d \in Channel |->
              IF StartTimedOut(d) THEN Released(d)
              ELSE IF d \in S /\ ~StartTimedOut(d) THEN ~Complete(d) ELSE bus[d]]
  BY DEF Poll
<1>2. /\ bus[c] <=> fsm[c] # "GET_BUSY"
      /\ Idle(c) => fsm[c] = "GET_BUSY"
      /\ fsm[c] = "EVT_8_2" => Setting(c)
      /\ fsm[c] \in {"CHECK_ACK_R", "EVT_6_1"} => ~Setting(c)
      /\ pc' = "loop"
  BY DEF InStep, Poll
<1>3. CASE StartTimedOut(c)
  <2>1. GivenUp
    BY <1>1, <1>3, Zenon DEF Released
  <2> QED
    BY <1>2, <2>1 DEF Setting
<1>4. CASE ~StartTimedOut(c) /\ c \notin S
  <2>1. Stays
    BY <1>1, <1>2, <1>4, Zenon
  <2> QED
    BY <1>2, <2>1 DEF Idle, Setting
<1>5. CASE ~StartTimedOut(c) /\ c \in S
  <2>1. Moves
    BY <1>1, <1>5, Zenon DEF CanMove
  <2>2. fsm[c] \in I2CStates
    BY DEF TypeOK
  <2> QED
    BY <1>2, <2>1, <2>2 DEF After, Complete, I2CStates, Setting, Idle, NextSensorState
<1> QED
  BY <1>3, <1>4, <1>5

LEMMA InStepOthers == TypeOK /\ InStep /\ (Loop \/ RoundTimedOut \/ NewRound \/ Tick \/ Sensor) => InStep'
<1> SUFFICES ASSUME TypeOK, InStep, Loop \/ RoundTimedOut \/ NewRound \/ Tick \/ Sensor
             PROVE  InStep'
  OBVIOUS
<1>1. CASE Loop
  BY <1>1 DEF InStep, Loop, Idle, Setting, master
<1>2. CASE RoundTimedOut
  <2>1. \A c \in Channel : /\ fsm'[c] = IF Idle(c) THEN fsm[c] ELSE "GET_BUSY"
                           /\ bus'[c] <=> (Idle(c) /\ bus[c])
    BY <1>2, Zenon DEF RoundTimedOut
  <2> QED
    BY <1>2, <2>1 DEF InStep, RoundTimedOut, Idle, Setting
<1>3. CASE NewRound
  BY <1>3 DEF InStep, NewRound, Idle, Setting, Restarted
<1>4. CASE Tick
  BY <1>4 DEF InStep, Tick, Idle, Setting, master
<1>5. CASE Sensor
  BY <1>5 DEF InStep, Sensor, Unplug, Plug, Idle, Setting, task, master
<1> QED
  BY <1>1, <1>2, <1>3, <1>4, <1>5

(* Wherever a time-out broke a transaction off, the next begins at its beginning. *)
THEOREM InStepAlways == Spec => []InStep
<1>1. Init => InStep
  BY DEF Init, InStep, Idle, Setting
<1>2. TypeOK /\ InStep /\ [Next]_vars => InStep'
  <2> SUFFICES ASSUME TypeOK, InStep, [Next]_vars PROVE InStep'
    OBVIOUS
  <2>1. CASE UNCHANGED vars
    BY <2>1 DEF InStep, Idle, Setting, vars, task, master
  <2>2. CASE Next
    BY <2>2, InStepPoll, InStepOthers DEF Next, I2CTask
  <2> QED
    BY <2>1, <2>2
<1> QED
  BY <1>1, <1>2, TypeCorrect, PTL DEF Spec

-----------------------------------------------------------------------------
(* Freshness.  While a pressure is read, the bytes that have come are not old, and a   *)
(* sensor that is there holds the conversion of this round.                             *)

Reading(c) == SENS_FSM[c] \in {"GET_PERS_1", "GET_PERS_2", "GET_PERS_3"}

BytesFresh(c) ==
  /\ SENS_FSM[c] = "GET_PERS_2" => i2cdata[c][1] # "old"
  /\ SENS_FSM[c] = "GET_PERS_3" => i2cdata[c][1] # "old" /\ i2cdata[c][2] # "old"

DataFresh(c) ==
  pc # "round" /\ present[c] =>
    /\ SENS_FSM[c] = "GET_STATUS" => converting[c] > 0 \/ data[c] = "new"
    /\ Reading(c) => data[c] = "new"

Fresh == SampleWhole /\ \A c \in Channel : BytesFresh(c) /\ DataFresh(c)

Inv == TypeOK /\ Fresh

LEMMA FreshInit == Init => Fresh
BY DEF Init, Fresh, SampleWhole, BytesFresh, DataFresh, Reading, Byte

\* The bytes after one more has been read.
LEMMA ReadFresh ==
  ASSUME Inv, pc # "round", NEW c \in Channel, Reading(c)
  PROVE  /\ SENS_FSM[c] = "GET_PERS_1" => BytesRead(c)[1] # "old"
         /\ SENS_FSM[c] = "GET_PERS_2" => BytesRead(c)[1] # "old" /\ BytesRead(c)[2] # "old"
         /\ SENS_FSM[c] = "GET_PERS_3" => \A b \in Byte : BytesRead(c)[b] # "old"
<1>1. Received(c) # "old"
  BY DEF Inv, Fresh, DataFresh, Received
<1>2. BytesFresh(c)
  BY DEF Inv, Fresh
<1> QED
  BY <1>1, <1>2 DEF BytesRead, BytesFresh, Reading, Byte

LEMMA FreshPoll == Inv /\ Poll => Fresh'
<1> SUFFICES ASSUME Inv, Poll, NEW c \in Channel
             PROVE  (\A b \in Byte : sample[c][b] # "old")' /\ BytesFresh(c)' /\ DataFresh(c)'
  BY DEF Fresh, SampleWhole
<1> DEFINE Ends == /\ SENS_FSM'[c] = NextSensorState(c)
                   /\ i2cdata'[c] = BytesRead(c)
                   /\ sample'[c] = IF SENS_FSM[c] = "GET_PERS_3" THEN BytesRead(c) ELSE sample[c]
                   /\ converting'[c] = IF Setting(c) /\ present[c] THEN ConversionTime
                                                                   ELSE converting[c]
           Stays == /\ SENS_FSM'[c] \in {SENS_FSM[c], "IDLE"}
                    /\ i2cdata'[c] = i2cdata[c] /\ sample'[c] = sample[c]
                    /\ converting'[c] = converting[c]
<1>1. Ends \/ Stays
  BY DEF Poll
<1>2. pc # "round" /\ pc' # "round" /\ present' = present /\ data' = data
  BY DEF Poll
<1>3. BytesFresh(c) /\ DataFresh(c) /\ \A b \in Byte : sample[c][b] # "old"
  BY DEF Inv, Fresh, SampleWhole
<1>4. CASE Stays
  <2> USE <1>4, <1>2, <1>3
  <2>1. (\A b \in Byte : sample[c][b] # "old")'
    OBVIOUS
  <2>2. BytesFresh(c)'
    BY DEF BytesFresh
  <2>3. DataFresh(c)'
    BY DEF DataFresh, Reading
  <2> QED
    BY <2>1, <2>2, <2>3
<1>5. CASE Ends
  <2>1. (\A b \in Byte : sample[c][b] # "old")'
    BY <1>2, <1>3, <1>5, ReadFresh DEF Reading
  <2>2. BytesFresh(c)'
    BY <1>2, <1>5, ReadFresh DEF BytesFresh, Reading, NextSensorState
  <2>3. DataFresh(c)'
    <3>1. present[c] /\ SENS_FSM'[c] = "GET_STATUS" => converting'[c] > 0 \/ data[c] = "new"
      <4>1. SENS_FSM'[c] = "GET_STATUS" => SENS_FSM[c] \in {"START_CONVERSION", "GET_STATUS"}
        BY <1>5 DEF NextSensorState
      <4>2. ConversionTime > 0
        BY TimeAssumption
      <4> QED
        BY <1>2, <1>3, <1>5, <4>1, <4>2 DEF DataFresh, Setting
    <3>2. present[c] /\ Reading(c)' => data[c] = "new"
      <4>1. CASE SENS_FSM[c] = "GET_STATUS"
        BY <1>2, <1>3, <1>5, <4>1 DEF DataFresh, Reading, NextSensorState, Converted
      <4>2. CASE SENS_FSM[c] # "GET_STATUS"
        <5>1. Reading(c)' => Reading(c)
          BY <1>5, <4>2 DEF Reading, NextSensorState
        <5> QED
          BY <1>2, <1>3, <5>1 DEF DataFresh
      <4> QED
        BY <4>1, <4>2
    <3> QED
      BY <1>2, <3>1, <3>2 DEF DataFresh
  <2> QED
    BY <2>1, <2>2, <2>3
<1> QED
  BY <1>1, <1>4, <1>5

LEMMA FreshTick == Inv /\ Tick => Fresh'
<1> SUFFICES ASSUME Inv, Tick, NEW c \in Channel
             PROVE  (\A b \in Byte : sample[c][b] # "old")' /\ BytesFresh(c)' /\ DataFresh(c)'
  BY DEF Fresh, SampleWhole
<1>1. BytesFresh(c) /\ DataFresh(c) /\ \A b \in Byte : sample[c][b] # "old"
  BY DEF Inv, Fresh, SampleWhole
<1>2. UNCHANGED <<SENS_FSM, i2cdata, sample, present>>
  BY DEF Tick, master
<1>3. /\ converting'[c] = IF converting[c] > 0 THEN converting[c] - 1 ELSE 0
      /\ data'[c] = IF converting[c] = 1 /\ ~Setting(c) THEN "new" ELSE data[c]
      /\ pc' # "round" => pc # "round"
  BY DEF Tick
<1>4. converting[c] \in 0 .. ConversionTime
  BY DEF Inv, TypeOK
<1>5. DataFresh(c)'
  <2>1. SENS_FSM[c] = "GET_STATUS" => ~Setting(c)
    BY DEF Setting
  <2> QED
    BY <1>1, <1>2, <1>3, <1>4, <2>1, TimeAssumption DEF DataFresh, Reading
<1> QED
  BY <1>1, <1>2, <1>5 DEF BytesFresh

LEMMA FreshOthers == Inv /\ (Loop \/ RoundTimedOut \/ NewRound \/ Sensor) => Fresh'
<1> SUFFICES ASSUME Inv, Loop \/ RoundTimedOut \/ NewRound \/ Sensor, NEW c \in Channel
             PROVE  (\A b \in Byte : sample[c][b] # "old")' /\ BytesFresh(c)' /\ DataFresh(c)'
  BY DEF Fresh, SampleWhole
<1>1. BytesFresh(c) /\ DataFresh(c) /\ \A b \in Byte : sample[c][b] # "old"
  BY DEF Inv, Fresh, SampleWhole
<1>2. CASE Loop
  BY <1>1, <1>2 DEF Loop, master, device, BytesFresh, DataFresh, Reading
<1>3. CASE RoundTimedOut
  BY <1>1, <1>3 DEF RoundTimedOut, device, BytesFresh, DataFresh, Reading
<1>4. CASE NewRound
  <2>1. SENS_FSM'[c] = "START_CONVERSION" /\ \A b \in Byte : sample'[c][b] = "new"
    BY <1>4 DEF NewRound, Restarted
  <2> QED
    BY <2>1 DEF BytesFresh, DataFresh, Reading
<1>5. CASE Sensor
  <2> PICK d \in Channel : Unplug(d) \/ Plug(d)
    BY <1>5 DEF Sensor
  <2>1. CASE Unplug(d)
    <3>1. CASE c = d
      BY <1>1, <2>1, <3>1 DEF Unplug, task, master, BytesFresh, DataFresh, Inv, TypeOK
    <3>2. CASE c # d
      BY <1>1, <2>1, <3>2 DEF Unplug, task, master, BytesFresh, DataFresh, Reading, Inv, TypeOK
    <3> QED
      BY <3>1, <3>2
  <2>2. CASE Plug(d)
    BY <1>1, <2>2 DEF Plug, task, master, BytesFresh, DataFresh
  <2> QED
    BY <2>1, <2>2
<1> QED
  BY <1>2, <1>3, <1>4, <1>5

(* No pressure is put together from bytes of two conversions. *)
THEOREM SamplesCorrect == Spec => []SampleWhole
<1>1. Init => Inv
  BY TypeInit, FreshInit DEF Inv
<1>2. Inv /\ [Next]_vars => Inv'
  <2> SUFFICES ASSUME Inv, [Next]_vars PROVE Inv'
    OBVIOUS
  <2>1. TypeOK'
    BY TypeStep DEF Inv
  <2>2. CASE UNCHANGED vars
    BY <2>1, <2>2 DEF Inv, Fresh, SampleWhole, BytesFresh, DataFresh, Reading,
                      vars, task, master, device
  <2>3. CASE Next
    BY <2>1, <2>3, FreshPoll, FreshTick, FreshOthers DEF Inv, Next, I2CTask
  <2> QED
    BY <2>2, <2>3
<1>3. Inv => SampleWhole
  BY DEF Inv, Fresh
<1> QED
  BY <1>1, <1>2, <1>3, PTL DEF Spec
=============================================================================
