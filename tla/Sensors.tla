------------------------------ MODULE Sensors ------------------------------
(***************************************************************************)
(* The two pressure sensors (src/User/ADC.c): I2C_task polls both, each on *)
(* a bus of its own, with a time-out for a sensor that does not take the   *)
(* command and one for the round.  The task polls without a pause until    *)
(* both are done, and every task of a lower priority (Modbus, menu,        *)
(* keyboard) waits meanwhile.                                              *)
(*                                                                         *)
(* Sensors come and go; tasks of a higher priority may hold the polling up.*)
(* Of the flags that the bus raises in a transaction those are kept that a *)
(* sensor has a part in; the others follow within the transaction.         *)
(***************************************************************************)
EXTENDS Naturals

CONSTANTS
    Channel,            \* the sensors (0 and 1)
    StartTimeOut,       \* ticks for the command (5)
    RoundTime,          \* ticks of a round (25)
    ConversionTime,     \* ticks that a sensor needs for a conversion
    MaxFaults           \* bound: times that a sensor goes or the task is held up

ASSUME TimeAssumption ==
    /\ StartTimeOut \in Nat /\ RoundTime \in Nat /\ ConversionTime \in Nat \ {0}
    /\ MaxFaults \in Nat

SensorStates == {"START_CONVERSION", "GET_STATUS", "GET_PERS_1", "GET_PERS_2", "GET_PERS_3",
                 "GET_TEMP_1", "GET_TEMP_2", "IDLE"}
I2CStates == {"GET_BUSY", "EVT_6", "EVT_8_2", "CHECK_ACK_R", "EVT_6_1"}

VARIABLES
    pc,             \* I2C_task: "loop", "delay", "check", "round"
    sensor_time_out, \* ticks since the round began
    polled,         \* the task has come round since the last tick
    SENS_FSM, fsm,  \* by channel: vSensFSM, and the transaction it is in
    i2cdata,        \* by channel: of which conversion each byte of a pressure is
    sample,         \* by channel: the bytes of the last pressure put into the buffer
    bus,            \* by channel: between START and STOP
    present,        \* by channel: the sensor is there
    converting,     \* by channel: ticks that the sensor's conversion still takes
    data,           \* by channel: of which conversion the sensor's registers are
    faults

task   == <<pc, sensor_time_out, polled>>
master == <<SENS_FSM, fsm, i2cdata, sample, bus>>
device == <<present, converting, data>>
vars   == <<task, master, device, faults>>

(* Of this round, of an earlier one, or read from a bus that nobody drove. *)
Origin == {"new", "old", "noise"}
Byte   == {1, 2, 3}

-----------------------------------------------------------------------------
(* SetI2CDataFSM and GetI2CDataFSM: what follows a state of the transaction *)

Idle(c) == SENS_FSM[c] = "IDLE"
Setting(c) == SENS_FSM[c] = "START_CONVERSION"

After(c) ==
    CASE fsm[c] = "GET_BUSY"    -> "EVT_6"
      [] fsm[c] = "EVT_6"       -> IF Setting(c) THEN "EVT_8_2" ELSE "CHECK_ACK_R"
      [] fsm[c] = "CHECK_ACK_R" -> "EVT_6_1"
      [] OTHER                  -> "GET_BUSY"

(* The last byte is out or in.  A sensor that is not there does not acknowledge its   *)
(* address; nobody looks whether it takes or gives the byte.                           *)
Complete(c) == fsm[c] \in {"EVT_8_2", "EVT_6_1"}
Ready(c) ==
    CASE fsm[c] = "GET_BUSY" -> ~bus[c]
      [] fsm[c] \in {"EVT_6", "CHECK_ACK_R"} -> bus[c] /\ present[c]
      [] OTHER -> bus[c]

Received(c) == IF present[c] THEN data[c] ELSE "noise"
(* An undriven bus reads as ones: the status is busy. *)
Converted(c) == present[c] /\ converting[c] = 0

(* vSensFSM: the state after a transaction is complete. *)
NextSensorState(c) ==
    CASE SENS_FSM[c] = "START_CONVERSION" -> "GET_STATUS"
      [] SENS_FSM[c] = "GET_STATUS" -> IF Converted(c) THEN "GET_PERS_1" ELSE "GET_STATUS"
      [] SENS_FSM[c] = "GET_PERS_1" -> "GET_PERS_2"
      [] SENS_FSM[c] = "GET_PERS_2" -> "GET_PERS_3"
      [] SENS_FSM[c] = "GET_PERS_3" -> "GET_TEMP_1"
      [] SENS_FSM[c] = "GET_TEMP_1" -> "GET_TEMP_2"
      [] OTHER -> "IDLE"

BytesRead(c) ==
    LET at == CASE SENS_FSM[c] = "GET_PERS_1" -> 1
                [] SENS_FSM[c] = "GET_PERS_2" -> 2
                [] SENS_FSM[c] = "GET_PERS_3" -> 3
                [] OTHER -> 0
    IN  [b \in Byte |-> IF b = at THEN Received(c) ELSE i2cdata[c][b]]

(* A channel that waits for its conversion asks for the status again and again. *)
Waits(c) == SENS_FSM[c] = "GET_STATUS" /\ ~Converted(c)
Moving == {c \in Channel : ~Idle(c) /\ Ready(c) /\ ~Waits(c)}
CanMove == {c \in Channel : ~Idle(c) /\ Ready(c)}

-----------------------------------------------------------------------------
(* I2C_task *)

Loop ==
    /\ pc = "loop"
    /\ pc' = IF \A c \in Channel : Idle(c) THEN "delay" ELSE "check"
    /\ UNCHANGED <<sensor_time_out, polled, master, device, faults>>

\* Mutant: only the time of the round is looked at.
StartTimedOut_Never(c) == FALSE

(* 5 < sensor_time_out: a sensor that has not taken the command is given up. *)
StartTimedOut(c) == sensor_time_out > StartTimeOut /\ Setting(c)

\* Mutant: no STOP for a sensor that has not taken the command.
Released_NotAtStart(c) == bus[c]
\* A channel that is given up leaves the bus.
Released(c) == FALSE

(* vSensFSM for both channels; which of them find their flag raised is left open, as  *)
(* long as one does that could.                                                        *)
Poll ==
    /\ pc = "check" /\ sensor_time_out <= RoundTime
    /\ \E S \in SUBSET CanMove :
        /\ Moving # {} => S \cap Moving # {}
        /\ LET moves(c) == c \in S /\ ~StartTimedOut(c)
               ends(c)  == moves(c) /\ Complete(c)
           IN  /\ SENS_FSM' = [c \in Channel |->
                      IF StartTimedOut(c) THEN "IDLE"
                      ELSE IF ends(c) THEN NextSensorState(c) ELSE SENS_FSM[c]]
               /\ fsm' = [c \in Channel |->
                      IF StartTimedOut(c) \/ Idle(c) THEN "GET_BUSY"
                      ELSE IF moves(c) THEN After(c) ELSE fsm[c]]
               /\ bus' = [c \in Channel |->
                      IF StartTimedOut(c) THEN Released(c)
                      ELSE IF moves(c) THEN ~Complete(c) ELSE bus[c]]
               /\ i2cdata' = [c \in Channel |-> IF ends(c) THEN BytesRead(c) ELSE i2cdata[c]]
               /\ sample' = [c \in Channel |->
                      IF ends(c) /\ SENS_FSM[c] = "GET_PERS_3" THEN BytesRead(c) ELSE sample[c]]
               /\ converting' = [c \in Channel |->
                      IF ends(c) /\ Setting(c) /\ present[c] THEN ConversionTime ELSE converting[c]]
    /\ pc' = "loop" /\ polled' = TRUE
    /\ UNCHANGED <<sensor_time_out, present, data, faults>>

\* Mutant: the transaction that is broken off keeps its state.
RoundTimedOut_KeepsState ==
    /\ pc = "check" /\ sensor_time_out > RoundTime
    /\ bus' = [c \in Channel |-> IF Idle(c) THEN bus[c] ELSE FALSE]
    /\ pc' = "round"
    /\ UNCHANGED <<sensor_time_out, polled, SENS_FSM, fsm, i2cdata, sample, device, faults>>

(* sensor_time_out > 25: what has not come is given up. *)
RoundTimedOut ==
    /\ pc = "check" /\ sensor_time_out > RoundTime
    /\ fsm' = [c \in Channel |-> IF Idle(c) THEN fsm[c] ELSE "GET_BUSY"]
    /\ bus' = [c \in Channel |-> IF Idle(c) THEN bus[c] ELSE FALSE]
    /\ pc' = "round"
    /\ UNCHANGED <<sensor_time_out, polled, SENS_FSM, i2cdata, sample, device, faults>>

\* Mutant: a sensor that was given up is asked on where it was left.
Restarted_Never(c) == IF Idle(c) THEN "START_CONVERSION" ELSE SENS_FSM[c]
Restarted(c) == "START_CONVERSION"

(* What has been read and converted so far is of an earlier round now. *)
Aged(origin) == IF origin = "new" THEN "old" ELSE origin

(* CalibrateZero is the matter of UserProcess; then the next round. *)
NewRound ==
    /\ pc = "round"
    /\ sensor_time_out' = 0
    /\ SENS_FSM' = [c \in Channel |-> Restarted(c)]
    /\ i2cdata' = [c \in Channel |-> [b \in Byte |-> Aged(i2cdata[c][b])]]
    /\ data' = [c \in Channel |-> Aged(data[c])]
    /\ sample' = [c \in Channel |-> [b \in Byte |-> "new"]]
    /\ pc' = "loop"
    /\ UNCHANGED <<polled, fsm, bus, present, converting, faults>>

-----------------------------------------------------------------------------
(* The sensors and the time *)

(* A tick is long for the bus and for the task: it passes when all that is left is to  *)
(* wait for a conversion or a time-out, or a task of a higher priority holds this one up. *)
Tick ==
    /\ \/ Moving = {} /\ (polled \/ pc = "delay") /\ faults' = faults
       \/ pc # "delay" /\ faults < MaxFaults /\ faults' = faults + 1
    /\ polled' = FALSE
    /\ sensor_time_out' = IF sensor_time_out <= RoundTime THEN sensor_time_out + 1
                                                          ELSE sensor_time_out
    /\ converting' = [c \in Channel |-> IF converting[c] > 0 THEN converting[c] - 1 ELSE 0]
    /\ data' = [c \in Channel |-> IF converting[c] = 1 /\ ~Setting(c) THEN "new" ELSE data[c]]
    /\ pc' = IF pc = "delay" THEN "check" ELSE pc
    /\ UNCHANGED <<master, present>>

Unplug(c) ==
    /\ present[c] /\ faults < MaxFaults
    /\ faults' = faults + 1
    /\ present' = [present EXCEPT ![c] = FALSE]
    /\ converting' = [converting EXCEPT ![c] = 0]
    /\ data' = [data EXCEPT ![c] = "old"]
    /\ UNCHANGED <<task, master>>

(* Not sooner than in a later round. *)
Plug(c) ==
    /\ pc = "round" /\ ~present[c]
    /\ present' = [present EXCEPT ![c] = TRUE]
    /\ UNCHANGED <<task, master, converting, data, faults>>

-----------------------------------------------------------------------------
Init ==
    /\ pc = "round" /\ sensor_time_out = 0 /\ polled = FALSE
    /\ SENS_FSM = [c \in Channel |-> "START_CONVERSION"]
    /\ fsm = [c \in Channel |-> "GET_BUSY"]
    /\ i2cdata = [c \in Channel |-> [b \in Byte |-> "old"]]
    /\ sample = [c \in Channel |-> [b \in Byte |-> "new"]]
    /\ bus = [c \in Channel |-> FALSE]
    /\ present \in [Channel -> BOOLEAN]
    /\ converting = [c \in Channel |-> 0]
    /\ data = [c \in Channel |-> "old"]
    /\ faults = 0

I2CTask == Loop \/ Poll \/ RoundTimedOut \/ NewRound
Sensor  == \E c \in Channel : Unplug(c) \/ Plug(c)
Next    == I2CTask \/ Tick \/ Sensor

Spec == Init /\ [][Next]_vars

(* The task runs when it is not held up, and the time passes. *)
FairSpec == Spec /\ WF_vars(I2CTask) /\ WF_vars(Tick)

-----------------------------------------------------------------------------
(* Type invariant: every variable in its range. *)
TypeOK ==
    /\ pc \in {"loop", "delay", "check", "round"}
    /\ sensor_time_out \in 0 .. RoundTime + 1 /\ polled \in BOOLEAN
    /\ SENS_FSM \in [Channel -> SensorStates] /\ fsm \in [Channel -> I2CStates]
    /\ i2cdata \in [Channel -> [Byte -> Origin]] /\ sample \in [Channel -> [Byte -> Origin]]
    /\ bus \in [Channel -> BOOLEAN] /\ present \in [Channel -> BOOLEAN]
    /\ converting \in [Channel -> 0 .. ConversionTime] /\ data \in [Channel -> {"new", "old"}]
    /\ faults \in 0 .. MaxFaults

(* Wherever a time-out broke a transaction off, the next begins at its beginning: the  *)
(* state of a transaction goes with what it is for (a command that is carried on from  *)
(* the middle of a reading has no case in SetI2CDataFSM and never ends), and a bus is  *)
(* occupied while a transaction lasts and no longer (ADC.c:379-485, 565-567, 646-681).  *)
InStep ==
    \A c \in Channel :
        /\ bus[c] <=> fsm[c] # "GET_BUSY"
        /\ Idle(c) \/ pc = "round" => fsm[c] = "GET_BUSY"
        /\ fsm[c] = "EVT_8_2" => Setting(c)
        /\ fsm[c] \in {"CHECK_ACK_R", "EVT_6_1"} => ~Setting(c)

(* A pressure is put together from bytes of the conversion that was asked for in its  *)
(* own round, wherever the round before it broke off (ADC.c:494-548, 638-640).         *)
SampleWhole ==
    \A c \in Channel : \A b \in Byte : sample[c][b] # "old"

(* Once the sensors stay there or away, the task gives the processor up in every       *)
(* round: Modbus, the menu and the keyboard go on without a sensor (ADC.c:642-684).    *)
LowerTasksRun == []<>(pc = "delay")

(* A sensor that stays there is read again and again, after any interruption and       *)
(* whatever becomes of the other one.                                                   *)
Recovers ==
    \A c \in Channel : <>[]present[c] => []<>(SENS_FSM[c] = "GET_TEMP_1")
=============================================================================
