----------------------------- MODULE UserProcess -----------------------------
(***************************************************************************)
(* The control of the fan: the task of user_process.c, which makes one     *)
(* pass every ten ticks, the zero calibration in the I2C task (ADC.c), and *)
(* the Modbus and menu tasks, which command it (mb_task.c, menu.c).        *)
(*                                                                         *)
(* The user task outranks the I2C task and that one the other two, so they *)
(* step only while it sleeps or waits for the EEPROM in the middle of a    *)
(* pass; none of the variables they share is protected.                    *)
(***************************************************************************)
EXTENDS Integers

CONSTANTS
  Mains,              \* the values getACVoltage returns
  LOW_VOLTAGE_ON, LOW_VOLTAGE_OFF, HIGH_VOLTAGE_OFF, HIGH_VOLTAGE_ON,
  PowerLost,          \* below it the mains are being lost (20), and
  PowerBack,          \* above it they are back (40)
  LowLimit,           \* low readings until the alarm (100)
  TimerLimit,         \* values of low_voltage_alarm_timer, an u8 (256)
  FanStartLimit,      \* FAN_START_TIMEOUT in passes
  MasterLimit,        \* MOD_BUS_TIMEOUT in passes
  PidPeriod,          \* passes per step of the controller (10)
  CALIB_COUNT,        \* samples of a calibration (10)
  Clogging, Deviation,\* what the sensors may say of the filter and of the set point
  WorkModes,          \* work modes in use: 0 normal, 1 set-up, 2 manual
  Controls,           \* control types in use: "din", "modbus"
  Points, Settings,   \* values of MODE (0, 1) and of SETTING1 and SETTING2 in use
  MaxRequests         \* bound: what the Modbus and menu tasks are asked in all

Errors == {"filter", "setting", "low", "high"}
None   == "none"

ASSUME VoltageAssumption ==
  /\ Mains \subseteq Nat
  /\ {LOW_VOLTAGE_ON, LOW_VOLTAGE_OFF, HIGH_VOLTAGE_OFF, HIGH_VOLTAGE_ON} \subseteq Nat
  /\ PowerLost \in Nat /\ PowerBack \in Nat
  /\ PowerLost <= PowerBack
  /\ LOW_VOLTAGE_ON < LOW_VOLTAGE_OFF /\ LOW_VOLTAGE_OFF < HIGH_VOLTAGE_OFF
  /\ HIGH_VOLTAGE_OFF < HIGH_VOLTAGE_ON
ASSUME LimitAssumption ==
  /\ LowLimit \in Nat /\ TimerLimit \in Nat /\ LowLimit + 1 < TimerLimit
  /\ FanStartLimit \in Nat /\ MasterLimit \in Nat \ {0} /\ PidPeriod \in Nat \ {0}
  /\ CALIB_COUNT \in Nat \ {0} /\ MaxRequests \in Nat
ASSUME InputAssumption ==
  /\ Clogging \subseteq BOOLEAN /\ Deviation \subseteq {"none", "some", "much"}
  /\ WorkModes \subseteq 0 .. 2 /\ 0 \in WorkModes
  /\ Controls \subseteq {"din", "modbus"}
  /\ Points \subseteq {0, 1} /\ 0 \in Points /\ Settings \subseteq Nat

VARIABLES
  \* user_process.c
  pass,            \* where the task is in its pass
  task_fsm, error_state, low_voltage_alarm_timer, power_off_flag, start_timeout,
  HEPA_CONTROL_ON, pid_counter,
  ac_voltage, c_type, start,              \* what this pass has read
  mb_time_out, setting_change_flag, set_point_old, setpoint,
  OUT_1, DAC2, OUT_3,                     \* relay and speed of the fan, relay of the alarm
  \* data_model.c, mb_task.c
  SYSTEM_START, CONTROL_TYPE, MODE, setting, WORK_MODE,
  mbPc, state, change,                    \* the Modbus or menu task between two stores
  \* ADC.c
  i2cPc, calibration_zero_flag, calibration_zero_count, cla_zero_end,
  \* history
  record,          \* the error being written to the journal
  recorded,        \* the errors written since the process was idle, or the mains were good
  lowPasses,       \* consecutive passes that read a low voltage
  ordered,         \* the last command that was stored, "stop" where the time-out ended it
  since,           \* the passes that checked the master since a command last came
  followed,        \* one of them came after the command was stored
  requests

fsmVars   == <<task_fsm, error_state, start_timeout>>
alarmVars == <<low_voltage_alarm_timer, power_off_flag>>
workVars  == <<HEPA_CONTROL_ON, pid_counter>>
readVars  == <<ac_voltage, c_type, start>>
pointVars == <<setting_change_flag, set_point_old, setpoint>>
outVars   == <<OUT_1, DAC2, OUT_3>>
dataVars  == <<CONTROL_TYPE, setting, WORK_MODE>>
mbVars    == <<mbPc, state, change, requests>>
zeroVars  == <<i2cPc, calibration_zero_flag, calibration_zero_count, cla_zero_end>>
logVars   == <<record, recorded>>
orderVars == <<ordered, since, followed>>
vars == <<pass, fsmVars, alarmVars, workVars, readVars, mb_time_out, pointVars, outVars,
          SYSTEM_START, MODE, dataVars, mbVars, zeroVars, logVars, lowPasses, orderVars>>

Fsm     == {"IDLE", "WORK_TIME_OUT", "ZERO_CALIB", "WORK", "ALARM"}
Steps   == {"voltage", "power", "setting", "filter", "errors", "drive"}
\* The waits for the EEPROM in the middle of a pass.
Waits   == {"voltageRecord", "powerSave", "filterRecord", "settingRecord"}

-----------------------------------------------------------------------------
Init ==
  /\ pass = "sleep" /\ task_fsm = "IDLE" /\ error_state = {} /\ start_timeout = 0
  /\ low_voltage_alarm_timer = 0 /\ power_off_flag = FALSE
  /\ HEPA_CONTROL_ON = FALSE /\ pid_counter = 0
  /\ ac_voltage = 0 /\ c_type \in Controls /\ start = FALSE
  /\ mb_time_out = 0 /\ setting_change_flag = FALSE /\ set_point_old = 2 /\ setpoint = 0
  /\ OUT_1 = FALSE /\ DAC2 = FALSE /\ OUT_3 = FALSE
  /\ SYSTEM_START = FALSE /\ CONTROL_TYPE = c_type /\ MODE = 0 /\ WORK_MODE = 0
  /\ setting \in [{0, 1} -> Settings]
  /\ mbPc = "ready" /\ state = FALSE /\ change = <<0, 0>> /\ requests = 0
  /\ i2cPc = "cycle" /\ calibration_zero_flag = FALSE /\ calibration_zero_count = 0
  /\ cla_zero_end = FALSE
  /\ record = None /\ recorded = {} /\ lowPasses = 0
  /\ ordered = None /\ since = 0 /\ followed = FALSE

-----------------------------------------------------------------------------
(* A pass of user_process_task, in the order of the code.                    *)

\* vADDRecord: the task waits for the EEPROM.
Record(k, wait) == record' = k /\ recorded' = recorded \cup {k} /\ pass' = wait

\* vTaskDelay(10) ends; in the manual mode the pass does nothing else.  Any number of
\* passes may come between two stores of another task: the I2C task, above it too, polls
\* its sensors for longer than the ten ticks.
Wake ==
  /\ pass = "sleep" /\ WORK_MODE # 2
  /\ pass' = "voltage" /\ c_type' = CONTROL_TYPE
  /\ \E v \in Mains : ac_voltage' = v
  /\ UNCHANGED <<fsmVars, alarmVars, workVars, start, mb_time_out, pointVars, outVars,
                 SYSTEM_START, MODE, dataVars, mbVars, zeroVars, logVars, lowPasses, orderVars>>

\* The pass ends, and what it has read is forgotten.
Sleep == pass' = "sleep" /\ ac_voltage' = 0 /\ start' = FALSE /\ UNCHANGED c_type

High == ac_voltage >= HIGH_VOLTAGE_ON
Low  == ~High /\ ac_voltage <= LOW_VOLTAGE_ON
Good == ac_voltage \in LOW_VOLTAGE_OFF .. HIGH_VOLTAGE_OFF

CountLow == low_voltage_alarm_timer' = (low_voltage_alarm_timer + 1) % TimerLimit

CheckVoltage ==
  /\ pass = "voltage"
  /\ \/ /\ High /\ task_fsm # "ALARM"
        /\ error_state' = error_state \cup {"high"} /\ Record("high", "voltageRecord")
        /\ UNCHANGED low_voltage_alarm_timer
     \/ /\ Low /\ task_fsm # "ALARM" /\ ~power_off_flag
        /\ CountLow
        /\ IF low_voltage_alarm_timer' > LowLimit
             THEN error_state' = error_state \cup {"low"} /\ Record("low", "voltageRecord")
             ELSE pass' = "power" /\ UNCHANGED <<error_state, logVars>>
     \/ /\ ~(High /\ task_fsm # "ALARM")
        /\ ~(Low /\ task_fsm # "ALARM" /\ ~power_off_flag)
        /\ pass' = "power"
        /\ recorded' = IF Good THEN recorded \ {"low", "high"} ELSE recorded
        /\ UNCHANGED <<error_state, low_voltage_alarm_timer, record>>
  /\ lowPasses' = IF ~Low \/ power_off_flag THEN 0
                  ELSE IF lowPasses > LowLimit + 1 THEN lowPasses ELSE lowPasses + 1
  /\ UNCHANGED <<task_fsm, start_timeout, power_off_flag, workVars, readVars, mb_time_out,
                 pointVars, outVars, SYSTEM_START, MODE, dataVars, mbVars, zeroVars, orderVars>>

VoltageRecorded ==
  /\ pass = "voltageRecord"
  /\ task_fsm' = "ALARM" /\ record' = None /\ pass' = "power"
  /\ UNCHANGED <<error_state, start_timeout, alarmVars, workVars, readVars, mb_time_out,
                 pointVars, outVars, SYSTEM_START, MODE, dataVars, mbVars, zeroVars, recorded,
                 lowPasses, orderVars>>

\* SaveBeforePowerOff waits for the EEPROM too.
CheckPower ==
  /\ pass = "power"
  /\ pass' = IF ac_voltage < PowerLost /\ ~power_off_flag THEN "powerSave" ELSE "setting"
  /\ power_off_flag' = (power_off_flag /\ ac_voltage <= PowerBack)
  /\ UNCHANGED <<fsmVars, low_voltage_alarm_timer, workVars, readVars, mb_time_out, pointVars,
                 outVars, SYSTEM_START, MODE, dataVars, mbVars, zeroVars, logVars, lowPasses,
                 orderVars>>

PowerSaved ==
  /\ pass = "powerSave"
  /\ power_off_flag' = TRUE /\ pass' = "setting"
  /\ UNCHANGED <<fsmVars, low_voltage_alarm_timer, workVars, readVars, mb_time_out, pointVars,
                 outVars, SYSTEM_START, MODE, dataVars, mbVars, zeroVars, logVars, lowPasses,
                 orderVars>>

\* The part of USER_SETTING_CHECK about the silence of the master.
CheckMaster ==
  IF c_type = "din"
    THEN mb_time_out' = 0 /\ UNCHANGED SYSTEM_START
    ELSE /\ mb_time_out' = IF mb_time_out < MasterLimit THEN mb_time_out + 1 ELSE mb_time_out
         /\ SYSTEM_START' = (SYSTEM_START /\ mb_time_out' < MasterLimit)

\* The part about the set point: a change of MODE or of the settings is taken over.
CheckPoint ==
  IF MODE' # set_point_old \/ setting_change_flag
    THEN setting_change_flag' = FALSE /\ set_point_old' = MODE' /\ setpoint' = setting[MODE']
    ELSE UNCHANGED pointVars

\* With "din" the inputs 1 and 3 take the place of SYSTEM_START and MODE.
CheckSetting ==
  /\ pass = "setting" /\ pass' = "filter"
  /\ CheckMaster
  /\ \E in1 \in BOOLEAN, in3 \in Points :
       /\ start' = IF c_type = "din" THEN in1 ELSE SYSTEM_START'
       /\ MODE' = IF c_type = "din" THEN in3 ELSE MODE
  /\ task_fsm' = CASE start' /\ task_fsm = "IDLE" -> "WORK_TIME_OUT"
                   [] ~start' /\ task_fsm # "ALARM" -> "IDLE"
                   [] OTHER -> task_fsm
  /\ CheckPoint
  /\ IF c_type = "din" THEN ordered' = None /\ since' = 0 /\ UNCHANGED followed
     ELSE /\ since' = IF since < MasterLimit THEN since + 1 ELSE since
          /\ followed' = TRUE /\ UNCHANGED ordered
  /\ UNCHANGED <<error_state, start_timeout, alarmVars, workVars, ac_voltage, c_type, outVars,
                 dataVars, mbVars, zeroVars, logVars, lowPasses>>

\* USER_FilterState: the sensor tells only while the fan works in mode 0, else
\* RESURSE does, which is never set to more than 0.
FilterWarning == task_fsm = "WORK" /\ MODE = 0

CheckFilter ==
  /\ pass = "filter"
  /\ \E clogged \in Clogging :
       IF /\ clogged /\ FilterWarning
          /\ HEPA_CONTROL_ON /\ "filter" \notin error_state
         THEN Record("filter", "filterRecord")
         ELSE pass' = "errors" /\ UNCHANGED logVars
  /\ UNCHANGED <<fsmVars, alarmVars, workVars, readVars, mb_time_out, pointVars, outVars,
                 SYSTEM_START, MODE, dataVars, mbVars, zeroVars, lowPasses, orderVars>>

\* Mutant: the bit of the error is forgotten.
FilterRecorded_NoBit ==
  /\ pass = "filterRecord" /\ pass' = "errors" /\ record' = None
  /\ UNCHANGED <<fsmVars, alarmVars, workVars, readVars, mb_time_out, pointVars, outVars,
                 SYSTEM_START, MODE, dataVars, mbVars, zeroVars, recorded, lowPasses, orderVars>>

FilterRecorded ==
  /\ pass = "filterRecord" /\ pass' = "errors"
  /\ error_state' = error_state \cup {"filter"} /\ record' = None
  /\ UNCHANGED <<task_fsm, start_timeout, alarmVars, workVars, readVars, mb_time_out, pointVars,
                 outVars, SYSTEM_START, MODE, dataVars, mbVars, zeroVars, recorded, lowPasses,
                 orderVars>>

\* The relay of the alarm; outside of the normal mode the process turns idle.
ShowErrors ==
  /\ pass = "errors" /\ pass' = "drive"
  /\ task_fsm' = IF WORK_MODE # 0 THEN "IDLE" ELSE task_fsm
  /\ OUT_3' = /\ error_state \ {"setting"} # {}
              /\ WORK_MODE = 0 \/ task_fsm = "IDLE"
  /\ lowPasses' = IF WORK_MODE # 0 THEN 0 ELSE lowPasses
  /\ UNCHANGED <<error_state, start_timeout, alarmVars, workVars, readVars, mb_time_out,
                 pointVars, OUT_1, DAC2, SYSTEM_START, MODE, dataVars, mbVars, zeroVars, logVars,
                 orderVars>>

\* Mutant: a calibration is not started where one has ended before.
CalibrateZeroStart_Once == calibration_zero_flag' = ~cla_zero_end /\ cla_zero_end' = FALSE

\* CalibrateZeroStart.
CalibrateZeroStart == calibration_zero_flag' = TRUE /\ cla_zero_end' = FALSE

DriveIdle ==
  /\ pass = "drive" /\ task_fsm = "IDLE" /\ Sleep
  /\ OUT_1' = FALSE /\ DAC2' = FALSE
  /\ start_timeout' = 0 /\ error_state' = {} /\ recorded' = {}
  /\ UNCHANGED <<task_fsm, alarmVars, workVars, mb_time_out, pointVars, OUT_3,
                 SYSTEM_START, MODE, dataVars, mbVars, zeroVars, record, lowPasses, orderVars>>

DriveTimeOut ==
  /\ pass = "drive" /\ task_fsm = "WORK_TIME_OUT" /\ Sleep
  /\ start_timeout' = IF start_timeout > FanStartLimit THEN start_timeout
                      ELSE start_timeout + 1
  /\ IF start_timeout' > FanStartLimit
       THEN /\ task_fsm' = "ZERO_CALIB" /\ CalibrateZeroStart
            /\ UNCHANGED <<i2cPc, calibration_zero_count>>
       ELSE UNCHANGED <<task_fsm, zeroVars>>
  /\ UNCHANGED <<error_state, alarmVars, workVars, mb_time_out, pointVars, outVars,
                 SYSTEM_START, MODE, dataVars, mbVars, logVars, lowPasses, orderVars>>

DriveZeroCalib ==
  /\ pass = "drive" /\ task_fsm = "ZERO_CALIB" /\ Sleep
  /\ task_fsm' = IF cla_zero_end THEN "WORK" ELSE task_fsm
  /\ UNCHANGED <<error_state, start_timeout, alarmVars, workVars, mb_time_out,
                 pointVars, outVars, SYSTEM_START, MODE, dataVars, mbVars, zeroVars, logVars,
                 lowPasses, orderVars>>

\* Every PidPeriod-th pass of the work state the controller sets the speed.
DriveWork ==
  /\ pass = "drive" /\ task_fsm = "WORK"
  /\ pid_counter' = (pid_counter + 1) % PidPeriod
  /\ \/ /\ pid_counter' # 0
        /\ OUT_1' = TRUE /\ Sleep
        /\ UNCHANGED <<HEPA_CONTROL_ON, DAC2, logVars>>
     \/ /\ pid_counter' = 0 /\ DAC2' = TRUE
        /\ \E d \in Deviation :
             /\ HEPA_CONTROL_ON' = (HEPA_CONTROL_ON \/ d # "none")
             /\ IF d = "much" /\ "setting" \notin error_state
                  THEN Record("setting", "settingRecord") /\ UNCHANGED <<OUT_1, readVars>>
                  ELSE OUT_1' = TRUE /\ Sleep /\ UNCHANGED logVars
  /\ UNCHANGED <<fsmVars, alarmVars, mb_time_out, pointVars, OUT_3, SYSTEM_START, MODE,
                 dataVars, mbVars, zeroVars, lowPasses, orderVars>>

SettingRecorded ==
  /\ pass = "settingRecord" /\ Sleep
  /\ error_state' = error_state \cup {"setting"} /\ record' = None /\ OUT_1' = TRUE
  /\ UNCHANGED <<task_fsm, start_timeout, alarmVars, workVars, mb_time_out, pointVars,
                 DAC2, OUT_3, SYSTEM_START, MODE, dataVars, mbVars, zeroVars, recorded, lowPasses,
                 orderVars>>

\* Mutant: the speed is left as it was.
DriveAlarm_KeepsSpeed ==
  /\ pass = "drive" /\ task_fsm = "ALARM" /\ Sleep
  /\ task_fsm' = IF Good THEN "IDLE" ELSE task_fsm
  /\ OUT_1' = FALSE
  /\ UNCHANGED <<error_state, start_timeout, alarmVars, workVars, mb_time_out,
                 pointVars, DAC2, OUT_3, SYSTEM_START, MODE, dataVars, mbVars, zeroVars, logVars,
                 lowPasses, orderVars>>

DriveAlarm ==
  /\ pass = "drive" /\ task_fsm = "ALARM" /\ Sleep
  /\ task_fsm' = IF Good THEN "IDLE" ELSE task_fsm
  /\ OUT_1' = FALSE /\ DAC2' = FALSE
  /\ UNCHANGED <<error_state, start_timeout, alarmVars, workVars, mb_time_out,
                 pointVars, OUT_3, SYSTEM_START, MODE, dataVars, mbVars, zeroVars, logVars,
                 lowPasses, orderVars>>

UserTask == \/ Wake \/ CheckVoltage \/ VoltageRecorded \/ CheckPower \/ PowerSaved
            \/ CheckSetting \/ CheckFilter \/ FilterRecorded \/ ShowErrors
            \/ DriveIdle \/ DriveTimeOut \/ DriveZeroCalib \/ DriveWork \/ SettingRecorded
            \/ DriveAlarm

-----------------------------------------------------------------------------
(* The tasks below the user task.                                            *)

UserWaits == pass = "sleep" \/ pass \in Waits

userVars == <<pass, fsmVars, alarmVars, workVars, readVars, pointVars, OUT_3, logVars,
              lowPasses>>

\* Mutant: one sample too many.
CalibrateZero_TooMany ==
  /\ UserWaits /\ i2cPc = "cycle" /\ calibration_zero_flag
  /\ IF calibration_zero_count <= CALIB_COUNT
       THEN /\ calibration_zero_count' = calibration_zero_count + 1
            /\ UNCHANGED <<i2cPc, calibration_zero_flag>>
       ELSE calibration_zero_flag' = FALSE /\ calibration_zero_count' = 0 /\ i2cPc' = "save"
  /\ UNCHANGED <<userVars, mb_time_out, OUT_1, DAC2, SYSTEM_START, MODE, dataVars, mbVars,
                 cla_zero_end, orderVars>>

\* CalibrateZero, once per round of the sensors: a sample, or the end of the
\* calibration, with the offsets saved to the EEPROM before cla_zero_end is set.
CalibrateZero ==
  /\ UserWaits /\ i2cPc = "cycle" /\ calibration_zero_flag
  /\ IF calibration_zero_count < CALIB_COUNT
       THEN /\ calibration_zero_count' = calibration_zero_count + 1
            /\ UNCHANGED <<i2cPc, calibration_zero_flag>>
       ELSE calibration_zero_flag' = FALSE /\ calibration_zero_count' = 0 /\ i2cPc' = "save"
  /\ UNCHANGED <<userVars, mb_time_out, OUT_1, DAC2, SYSTEM_START, MODE, dataVars, mbVars,
                 cla_zero_end, orderVars>>

ZeroSaved ==
  /\ UserWaits /\ i2cPc = "save"
  /\ i2cPc' = "cycle" /\ cla_zero_end' = TRUE
  /\ UNCHANGED <<userVars, mb_time_out, OUT_1, DAC2, SYSTEM_START, MODE, dataVars, mbVars,
                 calibration_zero_flag, calibration_zero_count, orderVars>>

Asked == /\ UserWaits /\ mbPc = "ready" /\ requests < MaxRequests
         /\ requests' = requests + 1

\* The master has been silent for the time-out, and the process has seen it.
Expired == since = MasterLimit /\ followed

\* History: a command has come, and starts the time-out anew.
Heard == since' = 0 /\ ordered' = (IF Expired THEN "stop" ELSE ordered) /\ UNCHANGED followed

\* Mutant: the time of the master's silence is not reset.
Command_NoReset(b) ==
  /\ Asked
  /\ mbPc' = "command" /\ state' = b /\ Heard
  /\ UNCHANGED <<userVars, mb_time_out, OUT_1, DAC2, SYSTEM_START, MODE, dataVars, change,
                 zeroVars>>

\* USER_SetControlState: two stores, between which the user task may pass.
Command(b) ==
  /\ Asked
  /\ mb_time_out' = 0 /\ mbPc' = "command" /\ state' = b /\ Heard
  /\ UNCHANGED <<userVars, OUT_1, DAC2, SYSTEM_START, MODE, dataVars, change, zeroVars>>

StoreCommand ==
  /\ UserWaits /\ mbPc = "command"
  /\ SYSTEM_START' = state /\ mbPc' = "ready"
  /\ ordered' = (IF state THEN "start" ELSE "stop") /\ followed' = FALSE
  /\ UNCHANGED <<userVars, mb_time_out, OUT_1, DAC2, MODE, dataVars, state, change, requests,
                 zeroVars, since>>

\* saveReg16 of SETTING1 or SETTING2: the flag first, then the value.
SaveSetting(p, v) ==
  /\ Asked
  /\ setting_change_flag' = TRUE /\ mbPc' = "store" /\ change' = <<p, v>>
  /\ UNCHANGED <<pass, fsmVars, alarmVars, workVars, readVars, mb_time_out, set_point_old,
                 setpoint, outVars, SYSTEM_START, MODE, dataVars, state, zeroVars, logVars,
                 lowPasses, orderVars>>

StoreSetting ==
  /\ UserWaits /\ mbPc = "store"
  /\ setting' = [setting EXCEPT ![change[1]] = change[2]]
  /\ mbPc' = "ready"
  /\ UNCHANGED <<userVars, mb_time_out, OUT_1, DAC2, SYSTEM_START, MODE, CONTROL_TYPE, WORK_MODE,
                 state, change, requests, zeroVars, orderVars>>

\* MODE is written by the master (mode register), the control type by either.
SetPoint(p) ==
  /\ Asked /\ MODE' = p
  /\ UNCHANGED <<userVars, mb_time_out, OUT_1, DAC2, SYSTEM_START, dataVars, mbPc, state, change,
                 zeroVars, orderVars>>

SetControl(c) ==
  /\ Asked /\ CONTROL_TYPE' = c
  /\ UNCHANGED <<userVars, mb_time_out, OUT_1, DAC2, SYSTEM_START, MODE, setting, WORK_MODE, mbPc,
                 state, change, zeroVars, orderVars>>

SetWorkMode(m) ==
  /\ Asked /\ WORK_MODE' = m
  /\ UNCHANGED <<userVars, mb_time_out, OUT_1, DAC2, SYSTEM_START, MODE, CONTROL_TYPE, setting,
                 mbPc, state, change, zeroVars, orderVars>>

\* A coil is written in any work mode, an analog output in the manual one.
WriteCoil(b) ==
  /\ Asked /\ OUT_1' = b
  /\ UNCHANGED <<userVars, mb_time_out, DAC2, SYSTEM_START, MODE, dataVars, mbPc, state, change,
                 zeroVars, orderVars>>

WriteSpeed(b) ==
  /\ Asked /\ WORK_MODE = 2 /\ DAC2' = b
  /\ UNCHANGED <<userVars, mb_time_out, OUT_1, SYSTEM_START, MODE, dataVars, mbPc, state, change,
                 zeroVars, orderVars>>

\* A calibration by hand, refused unless the process is idle.
AskZero ==
  /\ Asked /\ task_fsm = "IDLE" /\ CalibrateZeroStart
  /\ UNCHANGED <<userVars, mb_time_out, OUT_1, DAC2, SYSTEM_START, MODE, dataVars, mbPc, state,
                 change, i2cPc, calibration_zero_count, orderVars>>

MBTask == \/ \E b \in BOOLEAN : Command(b) \/ WriteCoil(b) \/ WriteSpeed(b)
          \/ StoreCommand \/ StoreSetting \/ AskZero
          \/ \E p \in Points, v \in Settings : SaveSetting(p, v)
          \/ \E p \in Points : SetPoint(p)
          \/ \E c \in Controls : SetControl(c)
          \/ \E m \in WorkModes : SetWorkMode(m)

Next == UserTask \/ CalibrateZero \/ ZeroSaved \/ MBTask

\* A pass takes a fraction of the ten ticks to the next one, so the tasks below get
\* their turn again and again.
Fairness == /\ WF_vars(UserTask)
            /\ SF_vars(CalibrateZero) /\ SF_vars(ZeroSaved)
            /\ SF_vars(StoreCommand) /\ SF_vars(StoreSetting)

Spec     == Init /\ [][Next]_vars
FairSpec == Spec /\ Fairness

-----------------------------------------------------------------------------
ProcessTypeOK ==
  /\ pass \in Steps \cup Waits \cup {"sleep"} /\ task_fsm \in Fsm /\ error_state \subseteq Errors
  /\ start_timeout \in 0 .. FanStartLimit + 1
  /\ low_voltage_alarm_timer \in 0 .. TimerLimit - 1 /\ pid_counter \in 0 .. PidPeriod - 1
  /\ mb_time_out \in 0 .. MasterLimit
  /\ ac_voltage \in Mains \cup {0} /\ c_type \in Controls
  /\ set_point_old \in 0 .. 2 /\ setpoint \in Nat

SharedTypeOK ==
  /\ CONTROL_TYPE \in Controls /\ MODE \in {0, 1} /\ WORK_MODE \in 0 .. 2
  /\ setting \in [{0, 1} -> Nat] /\ mbPc \in {"ready", "command", "store"}
  /\ change \in {0, 1} \X Nat
  /\ i2cPc \in {"cycle", "save"} /\ calibration_zero_count \in 0 .. CALIB_COUNT

HistoryTypeOK ==
  /\ record \in Errors \cup {None} /\ recorded \subseteq Errors
  /\ lowPasses \in 0 .. LowLimit + 2
  /\ ordered \in {None, "start", "stop"} /\ since \in 0 .. MasterLimit
  /\ requests \in 0 .. MaxRequests

FlagTypeOK ==
  /\ power_off_flag \in BOOLEAN /\ HEPA_CONTROL_ON \in BOOLEAN /\ start \in BOOLEAN
  /\ setting_change_flag \in BOOLEAN /\ OUT_1 \in BOOLEAN /\ DAC2 \in BOOLEAN /\ OUT_3 \in BOOLEAN
  /\ SYSTEM_START \in BOOLEAN /\ state \in BOOLEAN /\ followed \in BOOLEAN
  /\ calibration_zero_flag \in BOOLEAN /\ cla_zero_end \in BOOLEAN

\* Every variable stays in its range; in particular a calibration never takes more
\* samples than calib_data holds (ADC.c:591), whenever it is started anew.
TypeOK == ProcessTypeOK /\ SharedTypeOK /\ HistoryTypeOK /\ FlagTypeOK

\* A pass that has read too high a voltage, or no order to run, or that is one low
\* voltage too many ends with the fan's relay and speed off, whatever the process was
\* doing and whatever the other tasks did meanwhile (user_process.c:229-251, 348-353).
\* One reading more than the limit is needed where the counter, an u8, wraps.
OffWhenItMust ==
  [][pass # "sleep" /\ pass' = "sleep" /\ (High \/ ~start \/ lowPasses > LowLimit + 1)
     => ~OUT_1' /\ ~DAC2']_vars

\* A command of the master stands until the time-out counted from its arrival has run out,
\* and ends in the pass that sees it run out: no time-out that was running out as it came
\* ends it, none that has ended it is forgotten when the next command comes, however many
\* passes fall between the two stores of a command (user_process.c:52-56, 97-106).
OrderHolds ==
  /\ ordered = "start" /\ ~Expired => SYSTEM_START
  /\ ordered = "stop" \/ Expired => ~SYSTEM_START

\* An error is not written to the journal a second time before the process has been
\* idle or, for those of the mains, the voltage has been good again: one fault does not
\* fill the ring of fifty records (user_process.c:232-250, 267-271, 333-337).
RecordedOnce ==
  [][record' # None /\ record' # record => record' \notin recorded]_vars

\* A start is not held up in the calibration: it ends, unless the work mode is manual
\* (user_process.c:308-319, ADC.c:592-622).
CalibrationEnds ==
  task_fsm = "ZERO_CALIB" ~> (task_fsm # "ZERO_CALIB" \/ WORK_MODE = 2)

\* Once the process has seen that a setting changed, it works with what the setting is
\* (user_process.c:25, 120-126).  Not so when it preempts saveReg16 between flag and store.
SettingApplied ==
  pass = "sleep" /\ mbPc # "store" /\ ~setting_change_flag /\ set_point_old = MODE
    => setpoint = setting[MODE]

=============================================================================
