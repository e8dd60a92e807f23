-------------------------- MODULE UserProcess_proofs --------------------------
(***************************************************************************)
(* What holds of the control of the fan for every limit, every voltage and *)
(* every number of requests.                                               *)
(***************************************************************************)
EXTENDS UserProcess, TLAPS

After  == {"power", "powerSave", "setting", "filter", "filterRecord", "errors", "drive",
           "settingRecord"}
Decided == {"filter", "filterRecord", "errors", "drive", "settingRecord"}

\* A pass that has found a fault of the mains is in the alarm state, or idle where the
\* work mode makes it so.
Alarmed == task_fsm = "ALARM" \/ (pass = "drive" /\ task_fsm = "IDLE")

\* While the process is not in the alarm state the counter of low voltages has kept up
\* with the passes that read one; what a pass has read decides where it may be.
DriveInv ==
  /\ lowPasses > 0 /\ task_fsm # "ALARM" /\ pass # "voltageRecord"
       => lowPasses - 1 <= low_voltage_alarm_timer /\ low_voltage_alarm_timer <= LowLimit
  /\ pass \in After /\ High => Alarmed
  /\ pass \in Decided /\ ~start => task_fsm \in {"IDLE", "ALARM"}
  /\ pass \in After /\ Good => lowPasses = 0
  /\ pass = "voltageRecord" => ~Good
  /\ pass = "settingRecord" => task_fsm = "WORK"

\* The master's time-out is what has passed since a command last came.
OrderInv == mb_time_out = since

\* What has been written to the journal is remembered where the next writing is decided.
JournalInv ==
  /\ "filter" \in recorded /\ pass # "filterRecord" => "filter" \in error_state
  /\ "setting" \in recorded /\ pass # "settingRecord" => "setting" \in error_state
  /\ "low" \in recorded \/ "high" \in recorded => Alarmed \/ pass = "voltageRecord"
  /\ pass \in After /\ Good => "low" \notin recorded /\ "high" \notin recorded

IInv == TypeOK /\ OrderHolds /\ OrderInv /\ DriveInv /\ JournalInv

LEMMA Constants ==
  /\ \A v \in Mains \cup {0} : v \in Nat
  /\ LOW_VOLTAGE_ON \in Nat /\ LOW_VOLTAGE_OFF \in Nat
  /\ HIGH_VOLTAGE_OFF \in Nat /\ HIGH_VOLTAGE_ON \in Nat
  /\ LOW_VOLTAGE_ON < LOW_VOLTAGE_OFF /\ HIGH_VOLTAGE_OFF < HIGH_VOLTAGE_ON
  /\ LowLimit \in Nat /\ TimerLimit \in Nat /\ LowLimit + 1 < TimerLimit
  /\ FanStartLimit \in Nat /\ MasterLimit \in Nat /\ MasterLimit > 0
  /\ PidPeriod \in Nat /\ PidPeriod > 0 /\ CALIB_COUNT \in Nat /\ CALIB_COUNT > 0
  /\ MaxRequests \in Nat
  /\ \A m \in WorkModes : m \in 0 .. 2
  /\ \A p \in Points : p \in {0, 1}
  /\ \A v \in Settings : v \in Nat
BY VoltageAssumption, LimitAssumption, InputAssumption

\* The counters that wrap.
LEMMA Wraps ==
  ASSUME NEW n \in Nat, NEW k \in Nat, k > 0
  PROVE  (n + 1) % k \in 0 .. k - 1 /\ (n + 1 < k => (n + 1) % k = n + 1)
OBVIOUS

LEMMA TypeInit == Init => TypeOK
<1> SUFFICES ASSUME Init PROVE TypeOK
  OBVIOUS
<1>1. ProcessTypeOK
  BY Constants DEF Init, ProcessTypeOK, Fsm, Steps, Waits, Errors
<1>2. SharedTypeOK
  <2>1. setting \in [{0, 1} -> Nat]
    BY Constants DEF Init
  <2> QED
    BY <2>1, Constants DEF Init, SharedTypeOK
<1>3. HistoryTypeOK
  BY Constants DEF Init, HistoryTypeOK, Errors, None
<1>4. FlagTypeOK
  BY Zenon DEF Init, FlagTypeOK
<1> QED
  BY <1>1, <1>2, <1>3, <1>4 DEF TypeOK


\* The ranges of the task's own variables, of those it shares, of the histories and of
\* the flags, one lemma for each.
LEMMA ProcessTypeNext == TypeOK /\ [Next]_vars => ProcessTypeOK'
<1> SUFFICES ASSUME TypeOK, [Next]_vars PROVE ProcessTypeOK'
  OBVIOUS
<1> USE DEF fsmVars, alarmVars, workVars, readVars, pointVars, outVars, dataVars, mbVars,
            zeroVars, logVars, orderVars, userVars
<1> USE DEF ProcessTypeOK, SharedTypeOK, Fsm, Steps, Waits, Errors
<1>a. ProcessTypeOK /\ SharedTypeOK
  BY DEF TypeOK
<1>1. CASE Wake
  BY <1>a, <1>1, Constants DEF Wake
<1>2. CASE CheckVoltage
  <2>1. low_voltage_alarm_timer' \in 0 .. TimerLimit - 1
    <3>1. low_voltage_alarm_timer' = low_voltage_alarm_timer \/ CountLow
      BY <1>2 DEF CheckVoltage
    <3> QED
      BY <1>a, <3>1, Constants, Wraps DEF CountLow
  <2>2. error_state' \subseteq Errors /\ pass' \in {"voltageRecord", "power"}
    BY <1>a, <1>2 DEF CheckVoltage, Record
  <2>3. UNCHANGED <<task_fsm, start_timeout, pid_counter, mb_time_out, ac_voltage, c_type,
                    set_point_old, setpoint>>
    BY <1>2 DEF CheckVoltage
  <2> QED
    BY <1>a, <2>1, <2>2, <2>3
<1>3. CASE VoltageRecorded
  BY <1>a, <1>3, Constants DEF VoltageRecorded
<1>4. CASE CheckPower
  BY <1>a, <1>4, Constants DEF CheckPower
<1>5. CASE PowerSaved
  BY <1>a, <1>5, Constants DEF PowerSaved
<1>6. CASE CheckSetting
  BY <1>a, <1>6, Constants DEF CheckSetting, CheckMaster, CheckPoint
<1>7. CASE CheckFilter
  BY <1>a, <1>7, Constants DEF CheckFilter, Record
<1>8. CASE FilterRecorded
  BY <1>a, <1>8, Constants DEF FilterRecorded
<1>9. CASE ShowErrors
  BY <1>a, <1>9, Constants DEF ShowErrors
<1>10. CASE DriveIdle
  BY <1>a, <1>10, Constants DEF DriveIdle, Sleep
<1>11. CASE DriveTimeOut
  BY <1>a, <1>11, Constants DEF DriveTimeOut, Sleep, CalibrateZeroStart
<1>12. CASE DriveZeroCalib
  BY <1>a, <1>12, Constants DEF DriveZeroCalib, Sleep
<1>13. CASE DriveWork
  BY <1>a, <1>13, Constants, Wraps DEF DriveWork, Sleep, Record
<1>14. CASE SettingRecorded
  BY <1>a, <1>14, Constants DEF SettingRecorded, Sleep
<1>15. CASE DriveAlarm
  BY <1>a, <1>15, Constants DEF DriveAlarm, Sleep
<1>16. CASE CalibrateZero
  BY <1>a, <1>16, Constants DEF CalibrateZero
<1>17. CASE ZeroSaved
  BY <1>a, <1>17, Constants DEF ZeroSaved
<1>18. ASSUME NEW b \in BOOLEAN, Command(b) PROVE ProcessTypeOK'
  BY <1>a, <1>18, Constants DEF Command, Asked, Heard
<1>19. ASSUME NEW b \in BOOLEAN, WriteCoil(b) PROVE ProcessTypeOK'
  BY <1>a, <1>19, Constants DEF WriteCoil, Asked
<1>20. ASSUME NEW b \in BOOLEAN, WriteSpeed(b) PROVE ProcessTypeOK'
  BY <1>a, <1>20, Constants DEF WriteSpeed, Asked
<1>21. CASE StoreCommand
  BY <1>a, <1>21, Constants DEF StoreCommand
<1>22. CASE StoreSetting
  BY <1>a, <1>22, Constants DEF StoreSetting
<1>23. CASE AskZero
  BY <1>a, <1>23, Constants DEF AskZero, Asked, CalibrateZeroStart
<1>24. ASSUME NEW p \in Points, NEW v \in Settings, SaveSetting(p, v) PROVE ProcessTypeOK'
  BY <1>a, <1>24, Constants DEF SaveSetting, Asked
<1>25. ASSUME NEW p \in Points, SetPoint(p) PROVE ProcessTypeOK'
  BY <1>a, <1>25, Constants DEF SetPoint, Asked
<1>26. ASSUME NEW c \in Controls, SetControl(c) PROVE ProcessTypeOK'
  BY <1>a, <1>26, Constants DEF SetControl, Asked
<1>27. ASSUME NEW m \in WorkModes, SetWorkMode(m) PROVE ProcessTypeOK'
  BY <1>a, <1>27, Constants DEF SetWorkMode, Asked
<1>28. CASE UNCHANGED vars
  BY <1>a, <1>28, Constants DEF vars
<1> QED
  BY <1>1, <1>2, <1>3, <1>4, <1>5, <1>6, <1>7, <1>8, <1>9, <1>10, <1>11, <1>12, <1>13, <1>14,
     <1>15, <1>16, <1>17, <1>18, <1>19, <1>20, <1>21, <1>22, <1>23, <1>24, <1>25, <1>26, <1>27,
     <1>28 DEF Next, UserTask, MBTask

LEMMA SharedTypeNext == TypeOK /\ [Next]_vars => SharedTypeOK'
<1> SUFFICES ASSUME TypeOK, [Next]_vars PROVE SharedTypeOK'
  OBVIOUS
<1> USE DEF fsmVars, alarmVars, workVars, readVars, pointVars, outVars, dataVars, mbVars,
            zeroVars, logVars, orderVars, userVars
<1> USE DEF SharedTypeOK
<1>a. SharedTypeOK
  BY DEF TypeOK
<1>1. CASE Wake
  BY <1>a, <1>1, Constants DEF Wake
<1>2. CASE CheckVoltage
  BY <1>a, <1>2, Constants DEF CheckVoltage, Record, CountLow
<1>3. CASE VoltageRecorded
  BY <1>a, <1>3, Constants DEF VoltageRecorded
<1>4. CASE CheckPower
  BY <1>a, <1>4, Constants DEF CheckPower
<1>5. CASE PowerSaved
  BY <1>a, <1>5, Constants DEF PowerSaved
<1>6. CASE CheckSetting
  BY <1>a, <1>6, Constants DEF CheckSetting, CheckMaster, CheckPoint
<1>7. CASE CheckFilter
  BY <1>a, <1>7, Constants DEF CheckFilter, Record
<1>8. CASE FilterRecorded
  BY <1>a, <1>8, Constants DEF FilterRecorded
<1>9. CASE ShowErrors
  BY <1>a, <1>9, Constants DEF ShowErrors
<1>10. CASE DriveIdle
  BY <1>a, <1>10, Constants DEF DriveIdle, Sleep
<1>11. CASE DriveTimeOut
  BY <1>a, <1>11, Constants DEF DriveTimeOut, Sleep, CalibrateZeroStart
<1>12. CASE DriveZeroCalib
  BY <1>a, <1>12, Constants DEF DriveZeroCalib, Sleep
<1>13. CASE DriveWork
  BY <1>a, <1>13, Constants DEF DriveWork, Sleep, Record
<1>14. CASE SettingRecorded
  BY <1>a, <1>14, Constants DEF SettingRecorded, Sleep
<1>15. CASE DriveAlarm
  BY <1>a, <1>15, Constants DEF DriveAlarm, Sleep
<1>16. CASE CalibrateZero
  <2>1. calibration_zero_count' \in 0 .. CALIB_COUNT /\ i2cPc' \in {"cycle", "save"}
    <3>1. \/ /\ calibration_zero_count < CALIB_COUNT /\ UNCHANGED i2cPc
             /\ calibration_zero_count' = calibration_zero_count + 1
          \/ calibration_zero_count' = 0 /\ i2cPc' = "save"
      BY <1>16, Zenon DEF CalibrateZero
    <3> QED
      BY <1>a, <3>1, Constants
  <2>2. UNCHANGED <<CONTROL_TYPE, MODE, WORK_MODE, setting, mbPc, change>>
    BY <1>16 DEF CalibrateZero
  <2> QED
    BY <1>a, <2>1, <2>2
<1>17. CASE ZeroSaved
  BY <1>a, <1>17, Constants DEF ZeroSaved
<1>18. ASSUME NEW b \in BOOLEAN, Command(b) PROVE SharedTypeOK'
  BY <1>a, <1>18, Constants DEF Command, Asked, Heard
<1>19. ASSUME NEW b \in BOOLEAN, WriteCoil(b) PROVE SharedTypeOK'
  BY <1>a, <1>19, Constants DEF WriteCoil, Asked
<1>20. ASSUME NEW b \in BOOLEAN, WriteSpeed(b) PROVE SharedTypeOK'
  BY <1>a, <1>20, Constants DEF WriteSpeed, Asked
<1>21. CASE StoreCommand
  BY <1>a, <1>21, Constants DEF StoreCommand
<1>22. CASE StoreSetting
  BY <1>a, <1>22, Constants DEF StoreSetting
<1>23. CASE AskZero
  BY <1>a, <1>23, Constants DEF AskZero, Asked, CalibrateZeroStart
<1>24. ASSUME NEW p \in Points, NEW v \in Settings, SaveSetting(p, v) PROVE SharedTypeOK'
  BY <1>a, <1>24, Constants DEF SaveSetting, Asked
<1>25. ASSUME NEW p \in Points, SetPoint(p) PROVE SharedTypeOK'
  BY <1>a, <1>25, Constants DEF SetPoint, Asked
<1>26. ASSUME NEW c \in Controls, SetControl(c) PROVE SharedTypeOK'
  BY <1>a, <1>26, Constants DEF SetControl, Asked
<1>27. ASSUME NEW m \in WorkModes, SetWorkMode(m) PROVE SharedTypeOK'
  BY <1>a, <1>27, Constants DEF SetWorkMode, Asked
<1>28. CASE UNCHANGED vars
  BY <1>a, <1>28, Constants DEF vars
<1> QED
  BY <1>1, <1>2, <1>3, <1>4, <1>5, <1>6, <1>7, <1>8, <1>9, <1>10, <1>11, <1>12, <1>13, <1>14,
     <1>15, <1>16, <1>17, <1>18, <1>19, <1>20, <1>21, <1>22, <1>23, <1>24, <1>25, <1>26, <1>27,
     <1>28 DEF Next, UserTask, MBTask

LEMMA HistoryTypeNext == TypeOK /\ [Next]_vars => HistoryTypeOK'
<1> SUFFICES ASSUME TypeOK, [Next]_vars PROVE HistoryTypeOK'
  OBVIOUS
<1> USE DEF fsmVars, alarmVars, workVars, readVars, pointVars, outVars, dataVars, mbVars,
            zeroVars, logVars, orderVars, userVars
<1> USE DEF HistoryTypeOK, Errors, None
<1>a. HistoryTypeOK
  BY DEF TypeOK
<1>1. CASE Wake
  BY <1>a, <1>1, Constants DEF Wake
<1>2. CASE CheckVoltage
  <2>1. record' \in Errors \cup {None} /\ recorded' \subseteq Errors
    BY <1>a, <1>2 DEF CheckVoltage, Record
  <2>2. lowPasses' \in 0 .. LowLimit + 2
    BY <1>a, <1>2, Constants DEF CheckVoltage
  <2>3. UNCHANGED <<ordered, since, requests>>
    BY <1>2 DEF CheckVoltage
  <2> QED
    BY <1>a, <2>1, <2>2, <2>3
<1>3. CASE VoltageRecorded
  BY <1>a, <1>3, Constants DEF VoltageRecorded
<1>4. CASE CheckPower
  BY <1>a, <1>4, Constants DEF CheckPower
<1>5. CASE PowerSaved
  BY <1>a, <1>5, Constants DEF PowerSaved
<1>6. CASE CheckSetting
  BY <1>a, <1>6, Constants DEF CheckSetting, CheckMaster, CheckPoint
<1>7. CASE CheckFilter
  BY <1>a, <1>7, Constants DEF CheckFilter, Record
<1>8. CASE FilterRecorded
  BY <1>a, <1>8, Constants DEF FilterRecorded
<1>9. CASE ShowErrors
  BY <1>a, <1>9, Constants DEF ShowErrors
<1>10. CASE DriveIdle
  BY <1>a, <1>10, Constants DEF DriveIdle, Sleep
<1>11. CASE DriveTimeOut
  BY <1>a, <1>11, Constants DEF DriveTimeOut, Sleep, CalibrateZeroStart
<1>12. CASE DriveZeroCalib
  BY <1>a, <1>12, Constants DEF DriveZeroCalib, Sleep
<1>13. CASE DriveWork
  BY <1>a, <1>13, Constants DEF DriveWork, Sleep, Record
<1>14. CASE SettingRecorded
  BY <1>a, <1>14, Constants DEF SettingRecorded, Sleep
<1>15. CASE DriveAlarm
  BY <1>a, <1>15, Constants DEF DriveAlarm, Sleep
<1>16. CASE CalibrateZero
  BY <1>a, <1>16, Constants DEF CalibrateZero
<1>17. CASE ZeroSaved
  BY <1>a, <1>17, Constants DEF ZeroSaved
<1>18. ASSUME NEW b \in BOOLEAN, Command(b) PROVE HistoryTypeOK'
  BY <1>a, <1>18, Constants DEF Command, Asked, Heard
<1>19. ASSUME NEW b \in BOOLEAN, WriteCoil(b) PROVE HistoryTypeOK'
  BY <1>a, <1>19, Constants DEF WriteCoil, Asked
<1>20. ASSUME NEW b \in BOOLEAN, WriteSpeed(b) PROVE HistoryTypeOK'
  BY <1>a, <1>20, Constants DEF WriteSpeed, Asked
<1>21. CASE StoreCommand
  BY <1>a, <1>21, Constants DEF StoreCommand
<1>22. CASE StoreSetting
  BY <1>a, <1>22, Constants DEF StoreSetting
<1>23. CASE AskZero
  BY <1>a, <1>23, Constants DEF AskZero, Asked, CalibrateZeroStart
<1>24. ASSUME NEW p \in Points, NEW v \in Settings, SaveSetting(p, v) PROVE HistoryTypeOK'
  BY <1>a, <1>24, Constants DEF SaveSetting, Asked
<1>25. ASSUME NEW p \in Points, SetPoint(p) PROVE HistoryTypeOK'
  BY <1>a, <1>25, Constants DEF SetPoint, Asked
<1>26. ASSUME NEW c \in Controls, SetControl(c) PROVE HistoryTypeOK'
  BY <1>a, <1>26, Constants DEF SetControl, Asked
<1>27. ASSUME NEW m \in WorkModes, SetWorkMode(m) PROVE HistoryTypeOK'
  BY <1>a, <1>27, Constants DEF SetWorkMode, Asked
<1>28. CASE UNCHANGED vars
  BY <1>a, <1>28, Constants DEF vars
<1> QED
  BY <1>1, <1>2, <1>3, <1>4, <1>5, <1>6, <1>7, <1>8, <1>9, <1>10, <1>11, <1>12, <1>13, <1>14,
     <1>15, <1>16, <1>17, <1>18, <1>19, <1>20, <1>21, <1>22, <1>23, <1>24, <1>25, <1>26, <1>27,
     <1>28 DEF Next, UserTask, MBTask

LEMMA FlagTypeNext == TypeOK /\ [Next]_vars => FlagTypeOK'
<1> SUFFICES ASSUME TypeOK, [Next]_vars PROVE FlagTypeOK'
  OBVIOUS
<1> USE DEF fsmVars, alarmVars, workVars, readVars, pointVars, outVars, dataVars, mbVars,
            zeroVars, logVars, orderVars, userVars
<1> USE DEF FlagTypeOK
<1>a. FlagTypeOK
  BY DEF TypeOK
<1>1. CASE Wake
  BY <1>a, <1>1, Zenon DEF Wake
<1>2. CASE CheckVoltage
  BY <1>a, <1>2, Zenon DEF CheckVoltage, Record, CountLow
<1>3. CASE VoltageRecorded
  BY <1>a, <1>3, Zenon DEF VoltageRecorded
<1>4. CASE CheckPower
  BY <1>a, <1>4, Zenon DEF CheckPower
<1>5. CASE PowerSaved
  BY <1>a, <1>5, Zenon DEF PowerSaved
<1>6. CASE CheckSetting
  BY <1>a, <1>6, Zenon DEF CheckSetting, CheckMaster, CheckPoint
<1>7. CASE CheckFilter
  BY <1>a, <1>7, Zenon DEF CheckFilter, Record
<1>8. CASE FilterRecorded
  BY <1>a, <1>8, Zenon DEF FilterRecorded
<1>9. CASE ShowErrors
  BY <1>a, <1>9, Zenon DEF ShowErrors
<1>10. CASE DriveIdle
  BY <1>a, <1>10, Zenon DEF DriveIdle, Sleep
<1>11. CASE DriveTimeOut
  BY <1>a, <1>11, Zenon DEF DriveTimeOut, Sleep, CalibrateZeroStart
<1>12. CASE DriveZeroCalib
  BY <1>a, <1>12, Zenon DEF DriveZeroCalib, Sleep
<1>13. CASE DriveWork
  BY <1>a, <1>13, Zenon DEF DriveWork, Sleep, Record
<1>14. CASE SettingRecorded
  BY <1>a, <1>14, Zenon DEF SettingRecorded, Sleep
<1>15. CASE DriveAlarm
  BY <1>a, <1>15, Zenon DEF DriveAlarm, Sleep
<1>16. CASE CalibrateZero
  BY <1>a, <1>16, Zenon DEF CalibrateZero
<1>17. CASE ZeroSaved
  BY <1>a, <1>17, Zenon DEF ZeroSaved
<1>18. ASSUME NEW b \in BOOLEAN, Command(b) PROVE FlagTypeOK'
  BY <1>a, <1>18, Zenon DEF Command, Asked, Heard
<1>19. ASSUME NEW b \in BOOLEAN, WriteCoil(b) PROVE FlagTypeOK'
  BY <1>a, <1>19, Zenon DEF WriteCoil, Asked
<1>20. ASSUME NEW b \in BOOLEAN, WriteSpeed(b) PROVE FlagTypeOK'
  BY <1>a, <1>20, Zenon DEF WriteSpeed, Asked
<1>21. CASE StoreCommand
  BY <1>a, <1>21, Zenon DEF StoreCommand
<1>22. CASE StoreSetting
  BY <1>a, <1>22, Zenon DEF StoreSetting
<1>23. CASE AskZero
  BY <1>a, <1>23, Zenon DEF AskZero, Asked, CalibrateZeroStart
<1>24. ASSUME NEW p \in Points, NEW v \in Settings, SaveSetting(p, v) PROVE FlagTypeOK'
  BY <1>a, <1>24, Zenon DEF SaveSetting, Asked
<1>25. ASSUME NEW p \in Points, SetPoint(p) PROVE FlagTypeOK'
  BY <1>a, <1>25, Zenon DEF SetPoint, Asked
<1>26. ASSUME NEW c \in Controls, SetControl(c) PROVE FlagTypeOK'
  BY <1>a, <1>26, Zenon DEF SetControl, Asked
<1>27. ASSUME NEW m \in WorkModes, SetWorkMode(m) PROVE FlagTypeOK'
  BY <1>a, <1>27, Zenon DEF SetWorkMode, Asked
<1>28. CASE UNCHANGED vars
  BY <1>a, <1>28, Zenon DEF vars
<1> QED
  BY <1>1, <1>2, <1>3, <1>4, <1>5, <1>6, <1>7, <1>8, <1>9, <1>10, <1>11, <1>12, <1>13, <1>14,
     <1>15, <1>16, <1>17, <1>18, <1>19, <1>20, <1>21, <1>22, <1>23, <1>24, <1>25, <1>26, <1>27,
     <1>28 DEF Next, UserTask, MBTask

LEMMA TypeNext == TypeOK /\ [Next]_vars => TypeOK'
BY ProcessTypeNext, SharedTypeNext, HistoryTypeNext, FlagTypeNext DEF TypeOK

(* Every variable stays in its range, for every value of the constants; a            *)
(* calibration never writes behind the end of calib_data (ADC.c:591-600).            *)
THEOREM TypeCorrect == Spec => []TypeOK
<1>1. Init => TypeOK
  BY TypeInit
<1>2. TypeOK /\ [Next]_vars => TypeOK'
  BY TypeNext
<1> QED
  BY <1>1, <1>2, PTL DEF Spec


\* The three parts of the invariant, one lemma for each.
LEMMA OrderNext == TypeOK /\ OrderHolds /\ OrderInv /\ [Next]_vars => (OrderHolds /\ OrderInv)'
<1> SUFFICES ASSUME TypeOK /\ OrderHolds /\ OrderInv, [Next]_vars PROVE (OrderHolds /\ OrderInv)'
  OBVIOUS
<1> USE DEF fsmVars, alarmVars, workVars, readVars, pointVars, outVars, dataVars, mbVars,
            zeroVars, logVars, orderVars, userVars
<1> USE DEF OrderHolds, Expired, OrderInv, Waits, None
<1>a. /\ mb_time_out \in Nat /\ mb_time_out <= MasterLimit
      /\ since \in Nat /\ since <= MasterLimit
      /\ ordered \in {None, "start", "stop"}
      /\ followed \in BOOLEAN /\ SYSTEM_START \in BOOLEAN
  BY Constants DEF TypeOK, ProcessTypeOK, HistoryTypeOK, FlagTypeOK
<1>1. CASE Wake
  BY <1>a, <1>1, Constants DEF Wake
<1>2. CASE CheckVoltage
  BY <1>a, <1>2, Constants DEF CheckVoltage, Record, CountLow
<1>3. CASE VoltageRecorded
  BY <1>a, <1>3, Constants DEF VoltageRecorded
<1>4. CASE CheckPower
  BY <1>a, <1>4, Constants DEF CheckPower
<1>5. CASE PowerSaved
  BY <1>a, <1>5, Constants DEF PowerSaved
<1>6. CASE CheckSetting
  <2>1. /\ c_type # "din" => /\ ordered' = ordered /\ followed' = TRUE
                             /\ since' = IF since < MasterLimit THEN since + 1 ELSE since
        /\ c_type = "din" => ordered' = None /\ since' = 0
    BY <1>6 DEF CheckSetting
  <2>2. CASE c_type = "din"
    <3>1. mb_time_out' = 0
      BY <1>6, <2>2 DEF CheckSetting, CheckMaster
    <3> QED
      BY <1>a, <2>1, <2>2, <3>1, Constants
  <2>3. CASE c_type # "din"
    <3>1. mb_time_out' = IF mb_time_out < MasterLimit THEN mb_time_out + 1 ELSE mb_time_out
      BY <1>6, <2>3 DEF CheckSetting, CheckMaster
    <3>2. /\ SYSTEM_START /\ mb_time_out' < MasterLimit => SYSTEM_START'
          /\ SYSTEM_START' => SYSTEM_START /\ mb_time_out' < MasterLimit
      BY <1>6, <2>3, Zenon DEF CheckSetting, CheckMaster
    <3> QED
      BY <1>a, <2>1, <2>3, <3>1, <3>2, Constants
  <2> QED
    BY <2>2, <2>3
<1>7. CASE CheckFilter
  BY <1>a, <1>7, Constants DEF CheckFilter, Record
<1>8. CASE FilterRecorded
  BY <1>a, <1>8, Constants DEF FilterRecorded
<1>9. CASE ShowErrors
  BY <1>a, <1>9, Constants DEF ShowErrors
<1>10. CASE DriveIdle
  BY <1>a, <1>10, Constants DEF DriveIdle, Sleep
<1>11. CASE DriveTimeOut
  BY <1>a, <1>11, Constants DEF DriveTimeOut, Sleep, CalibrateZeroStart
<1>12. CASE DriveZeroCalib
  BY <1>a, <1>12, Constants DEF DriveZeroCalib, Sleep
<1>13. CASE DriveWork
  BY <1>a, <1>13, Constants DEF DriveWork, Sleep, Record
<1>14. CASE SettingRecorded
  BY <1>a, <1>14, Constants DEF SettingRecorded, Sleep
<1>15. CASE DriveAlarm
  BY <1>a, <1>15, Constants DEF DriveAlarm, Sleep
<1>16. CASE CalibrateZero
  BY <1>a, <1>16, Constants DEF CalibrateZero
<1>17. CASE ZeroSaved
  BY <1>a, <1>17, Constants DEF ZeroSaved
<1>18. ASSUME NEW b \in BOOLEAN, Command(b) PROVE (OrderHolds /\ OrderInv)'
  <2>1. mb_time_out' = 0 /\ since' = 0 /\ ~Expired'
    BY <1>18, Constants DEF Command, Heard
  <2>2. SYSTEM_START' = SYSTEM_START /\ ordered' = IF Expired THEN "stop" ELSE ordered
    BY <1>18 DEF Command, Heard
  <2> QED
    BY <1>a, <2>1, <2>2
<1>19. ASSUME NEW b \in BOOLEAN, WriteCoil(b) PROVE (OrderHolds /\ OrderInv)'
  BY <1>a, <1>19, Constants DEF WriteCoil, Asked
<1>20. ASSUME NEW b \in BOOLEAN, WriteSpeed(b) PROVE (OrderHolds /\ OrderInv)'
  BY <1>a, <1>20, Constants DEF WriteSpeed, Asked
<1>21. CASE StoreCommand
  BY <1>a, <1>21, Constants DEF StoreCommand
<1>22. CASE StoreSetting
  BY <1>a, <1>22, Constants DEF StoreSetting
<1>23. CASE AskZero
  BY <1>a, <1>23, Constants DEF AskZero, Asked, CalibrateZeroStart
<1>24. ASSUME NEW p \in Points, NEW v \in Settings, SaveSetting(p, v)
       PROVE  (OrderHolds /\ OrderInv)'
  BY <1>a, <1>24, Constants DEF SaveSetting, Asked
<1>25. ASSUME NEW p \in Points, SetPoint(p) PROVE (OrderHolds /\ OrderInv)'
  BY <1>a, <1>25, Constants DEF SetPoint, Asked
<1>26. ASSUME NEW c \in Controls, SetControl(c) PROVE (OrderHolds /\ OrderInv)'
  BY <1>a, <1>26, Constants DEF SetControl, Asked
<1>27. ASSUME NEW m \in WorkModes, SetWorkMode(m) PROVE (OrderHolds /\ OrderInv)'
  BY <1>a, <1>27, Constants DEF SetWorkMode, Asked
<1>28. CASE UNCHANGED vars
  BY <1>a, <1>28, Constants DEF vars
<1> QED
  BY <1>1, <1>2, <1>3, <1>4, <1>5, <1>6, <1>7, <1>8, <1>9, <1>10, <1>11, <1>12, <1>13, <1>14,
     <1>15, <1>16, <1>17, <1>18, <1>19, <1>20, <1>21, <1>22, <1>23, <1>24, <1>25, <1>26, <1>27,
     <1>28 DEF Next, UserTask, MBTask

LEMMA DriveNext == TypeOK /\ DriveInv /\ [Next]_vars => DriveInv'
<1> SUFFICES ASSUME TypeOK /\ DriveInv, [Next]_vars PROVE DriveInv'
  OBVIOUS
<1> USE DEF fsmVars, alarmVars, workVars, readVars, pointVars, outVars, dataVars, mbVars,
            zeroVars, logVars, orderVars, userVars
<1> USE DEF DriveInv, Alarmed, After, Decided, Waits, High, Low, Good
<1>a. /\ lowPasses \in 0 .. LowLimit + 2 /\ low_voltage_alarm_timer \in 0 .. TimerLimit - 1
      /\ ac_voltage \in Nat /\ task_fsm \in Fsm
  BY Constants DEF TypeOK, ProcessTypeOK, HistoryTypeOK
<1>1. CASE Wake
  BY <1>a, <1>1, Constants DEF Wake
<1>2. CASE CheckVoltage
  BY <1>a, <1>2, Constants DEF CheckVoltage, Record, CountLow
<1>3. CASE VoltageRecorded
  BY <1>a, <1>3, Constants DEF VoltageRecorded
<1>4. CASE CheckPower
  BY <1>a, <1>4, Constants DEF CheckPower
<1>5. CASE PowerSaved
  BY <1>a, <1>5, Constants DEF PowerSaved
<1>6. CASE CheckSetting
  BY <1>a, <1>6, Constants DEF CheckSetting, CheckMaster, CheckPoint
<1>7. CASE CheckFilter
  BY <1>a, <1>7, Constants DEF CheckFilter, Record
<1>8. CASE FilterRecorded
  BY <1>a, <1>8, Constants DEF FilterRecorded
<1>9. CASE ShowErrors
  BY <1>a, <1>9, Constants DEF ShowErrors
<1>10. CASE DriveIdle
  BY <1>a, <1>10, Constants DEF DriveIdle, Sleep
<1>11. CASE DriveTimeOut
  BY <1>a, <1>11, Constants DEF DriveTimeOut, Sleep, CalibrateZeroStart
<1>12. CASE DriveZeroCalib
  BY <1>a, <1>12, Constants DEF DriveZeroCalib, Sleep
<1>13. CASE DriveWork
  BY <1>a, <1>13, Constants DEF DriveWork, Sleep, Record
<1>14. CASE SettingRecorded
  BY <1>a, <1>14, Constants DEF SettingRecorded, Sleep
<1>15. CASE DriveAlarm
  BY <1>a, <1>15, Constants DEF DriveAlarm, Sleep
<1>16. CASE CalibrateZero
  BY <1>a, <1>16, Constants DEF CalibrateZero
<1>17. CASE ZeroSaved
  BY <1>a, <1>17, Constants DEF ZeroSaved
<1>18. ASSUME NEW b \in BOOLEAN, Command(b) PROVE DriveInv'
  BY <1>a, <1>18, Constants DEF Command, Asked, Heard
<1>19. ASSUME NEW b \in BOOLEAN, WriteCoil(b) PROVE DriveInv'
  BY <1>a, <1>19, Constants DEF WriteCoil, Asked
<1>20. ASSUME NEW b \in BOOLEAN, WriteSpeed(b) PROVE DriveInv'
  BY <1>a, <1>20, Constants DEF WriteSpeed, Asked
<1>21. CASE StoreCommand
  BY <1>a, <1>21, Constants DEF StoreCommand
<1>22. CASE StoreSetting
  BY <1>a, <1>22, Constants DEF StoreSetting
<1>23. CASE AskZero
  BY <1>a, <1>23, Constants DEF AskZero, Asked, CalibrateZeroStart
<1>24. ASSUME NEW p \in Points, NEW v \in Settings, SaveSetting(p, v) PROVE DriveInv'
  BY <1>a, <1>24, Constants DEF SaveSetting, Asked
<1>25. ASSUME NEW p \in Points, SetPoint(p) PROVE DriveInv'
  BY <1>a, <1>25, Constants DEF SetPoint, Asked
<1>26. ASSUME NEW c \in Controls, SetControl(c) PROVE DriveInv'
  BY <1>a, <1>26, Constants DEF SetControl, Asked
<1>27. ASSUME NEW m \in WorkModes, SetWorkMode(m) PROVE DriveInv'
  BY <1>a, <1>27, Constants DEF SetWorkMode, Asked
<1>28. CASE UNCHANGED vars
  BY <1>a, <1>28, Constants DEF vars
<1> QED
  BY <1>1, <1>2, <1>3, <1>4, <1>5, <1>6, <1>7, <1>8, <1>9, <1>10, <1>11, <1>12, <1>13, <1>14,
     <1>15, <1>16, <1>17, <1>18, <1>19, <1>20, <1>21, <1>22, <1>23, <1>24, <1>25, <1>26, <1>27,
     <1>28 DEF Next, UserTask, MBTask

LEMMA JournalNext == TypeOK /\ DriveInv /\ JournalInv /\ [Next]_vars => JournalInv'
<1> SUFFICES ASSUME TypeOK /\ DriveInv /\ JournalInv, [Next]_vars PROVE JournalInv'
  OBVIOUS
<1> USE DEF fsmVars, alarmVars, workVars, readVars, pointVars, outVars, dataVars, mbVars,
            zeroVars, logVars, orderVars, userVars
<1> USE DEF JournalInv, Alarmed, After, Waits, High, Low, Good, Errors
<1>a. /\ ac_voltage \in Nat /\ task_fsm \in Fsm
      /\ recorded \subseteq Errors /\ error_state \subseteq Errors
      /\ (pass = "voltageRecord" => ~Good)
  BY Constants DEF TypeOK, ProcessTypeOK, HistoryTypeOK, DriveInv
<1>1. CASE Wake
  BY <1>a, <1>1, Constants DEF Wake
<1>2. CASE CheckVoltage
  BY <1>a, <1>2, Constants DEF CheckVoltage, Record, CountLow
<1>3. CASE VoltageRecorded
  BY <1>a, <1>3, Constants DEF VoltageRecorded
<1>4. CASE CheckPower
  BY <1>a, <1>4, Constants DEF CheckPower
<1>5. CASE PowerSaved
  BY <1>a, <1>5, Constants DEF PowerSaved
<1>6. CASE CheckSetting
  BY <1>a, <1>6, Constants DEF CheckSetting, CheckMaster, CheckPoint
<1>7. CASE CheckFilter
  BY <1>a, <1>7, Constants DEF CheckFilter, Record
<1>8. CASE FilterRecorded
  BY <1>a, <1>8, Constants DEF FilterRecorded
<1>9. CASE ShowErrors
  BY <1>a, <1>9, Constants DEF ShowErrors
<1>10. CASE DriveIdle
  BY <1>a, <1>10, Constants DEF DriveIdle, Sleep
<1>11. CASE DriveTimeOut
  BY <1>a, <1>11, Constants DEF DriveTimeOut, Sleep, CalibrateZeroStart
<1>12. CASE DriveZeroCalib
  BY <1>a, <1>12, Constants DEF DriveZeroCalib, Sleep
<1>13. CASE DriveWork
  BY <1>a, <1>13, Constants DEF DriveWork, Sleep, Record
<1>14. CASE SettingRecorded
  BY <1>a, <1>14, Constants DEF SettingRecorded, Sleep
<1>15. CASE DriveAlarm
  BY <1>a, <1>15, Constants DEF DriveAlarm, Sleep
<1>16. CASE CalibrateZero
  BY <1>a, <1>16, Constants DEF CalibrateZero
<1>17. CASE ZeroSaved
  BY <1>a, <1>17, Constants DEF ZeroSaved
<1>18. ASSUME NEW b \in BOOLEAN, Command(b) PROVE JournalInv'
  BY <1>a, <1>18, Constants DEF Command, Asked, Heard
<1>19. ASSUME NEW b \in BOOLEAN, WriteCoil(b) PROVE JournalInv'
  BY <1>a, <1>19, Constants DEF WriteCoil, Asked
<1>20. ASSUME NEW b \in BOOLEAN, WriteSpeed(b) PROVE JournalInv'
  BY <1>a, <1>20, Constants DEF WriteSpeed, Asked
<1>21. CASE StoreCommand
  BY <1>a, <1>21, Constants DEF StoreCommand
<1>22. CASE StoreSetting
  BY <1>a, <1>22, Constants DEF StoreSetting
<1>23. CASE AskZero
  BY <1>a, <1>23, Constants DEF AskZero, Asked, CalibrateZeroStart
<1>24. ASSUME NEW p \in Points, NEW v \in Settings, SaveSetting(p, v) PROVE JournalInv'
  BY <1>a, <1>24, Constants DEF SaveSetting, Asked
<1>25. ASSUME NEW p \in Points, SetPoint(p) PROVE JournalInv'
  BY <1>a, <1>25, Constants DEF SetPoint, Asked
<1>26. ASSUME NEW c \in Controls, SetControl(c) PROVE JournalInv'
  BY <1>a, <1>26, Constants DEF SetControl, Asked
<1>27. ASSUME NEW m \in WorkModes, SetWorkMode(m) PROVE JournalInv'
  BY <1>a, <1>27, Constants DEF SetWorkMode, Asked
<1>28. CASE UNCHANGED vars
  BY <1>a, <1>28, Constants DEF vars
<1> QED
  BY <1>1, <1>2, <1>3, <1>4, <1>5, <1>6, <1>7, <1>8, <1>9, <1>10, <1>11, <1>12, <1>13, <1>14,
     <1>15, <1>16, <1>17, <1>18, <1>19, <1>20, <1>21, <1>22, <1>23, <1>24, <1>25, <1>26, <1>27,
     <1>28 DEF Next, UserTask, MBTask


LEMMA Invariant == Spec => []IInv
<1>1. Init => IInv
  <2> SUFFICES ASSUME Init PROVE IInv
    OBVIOUS
  <2>1. TypeOK
    BY TypeInit
  <2>2. OrderHolds /\ OrderInv
    BY Constants DEF Init, OrderHolds, Expired, OrderInv, None
  <2>3. DriveInv
    BY DEF Init, DriveInv, After, Decided
  <2>4. JournalInv
    BY DEF Init, JournalInv, After
  <2> QED
    BY <2>1, <2>2, <2>3, <2>4 DEF IInv
<1>2. IInv /\ [Next]_vars => IInv'
  BY TypeNext, OrderNext, DriveNext, JournalNext DEF IInv
<1> QED
  BY <1>1, <1>2, PTL DEF Spec

(* A command of the master stands until the time-out counted from its arrival has run *)
(* out, and no longer, for every length of the time-out and however many passes fall  *)
(* between its two stores (user_process.c:52-56, 95-107).                             *)
THEOREM OrderHoldsAlways == Spec => []OrderHolds
<1>1. IInv => OrderHolds
  BY DEF IInv
<1> QED
  BY <1>1, Invariant, PTL

\* The actions that end a pass.
LEMMA PassEnds ==
  ASSUME [Next]_vars, pass # "sleep", pass' = "sleep"
  PROVE  DriveIdle \/ DriveTimeOut \/ DriveZeroCalib \/ DriveWork \/ SettingRecorded \/ DriveAlarm
<1> USE DEF userVars, fsmVars, readVars, Waits
<1>1. ~(Wake \/ CheckVoltage \/ VoltageRecorded \/ CheckPower \/ PowerSaved \/ CheckSetting
        \/ CheckFilter \/ FilterRecorded \/ ShowErrors)
  BY DEF Wake, CheckVoltage, VoltageRecorded, CheckPower, PowerSaved, CheckSetting, CheckFilter,
         FilterRecorded, ShowErrors, Record
<1>2. ~(CalibrateZero \/ ZeroSaved \/ MBTask)
  BY DEF CalibrateZero, ZeroSaved, MBTask, Command, WriteCoil, WriteSpeed, StoreCommand,
         StoreSetting, AskZero, SaveSetting, SetPoint, SetControl, SetWorkMode
<1>3. ~UNCHANGED vars
  BY DEF vars
<1> QED
  BY <1>1, <1>2, <1>3 DEF Next, UserTask

(* Every pass that has seen too high a voltage, no order to run, or one low voltage   *)
(* too many ends with the fan off, for every voltage and every limit, although the    *)
(* counter wraps (user_process.c:229-251, 348-353).                                   *)
THEOREM OffWhenItMustAlways == Spec => OffWhenItMust
<1>1. IInv /\ [Next]_vars
        => [pass # "sleep" /\ pass' = "sleep" /\ (High \/ ~start \/ lowPasses > LowLimit + 1)
              => ~OUT_1' /\ ~DAC2']_vars
  <2> SUFFICES ASSUME IInv, [Next]_vars, pass # "sleep", pass' = "sleep",
                      High \/ ~start \/ lowPasses > LowLimit + 1
               PROVE  ~OUT_1' /\ ~DAC2'
    OBVIOUS
  <2>1. \/ DriveIdle \/ DriveTimeOut \/ DriveZeroCalib \/ DriveWork \/ SettingRecorded
        \/ DriveAlarm
    BY PassEnds
  <2>2. pass \in {"drive", "settingRecord"}
    BY <2>1 DEF DriveIdle, DriveTimeOut, DriveZeroCalib, DriveWork, SettingRecorded, DriveAlarm
  <2>3. task_fsm \in {"IDLE", "ALARM"} /\ pass = "drive"
    <3>1. lowPasses \in Nat /\ low_voltage_alarm_timer \in Nat
      BY Constants DEF IInv, TypeOK, ProcessTypeOK, HistoryTypeOK
    <3>2. High \/ ~start => task_fsm \in {"IDLE", "ALARM"}
      BY <2>2 DEF IInv, DriveInv, Alarmed, After, Decided
    <3>3. lowPasses > LowLimit + 1 => task_fsm \in {"IDLE", "ALARM"}
      BY <2>2, <3>1, Constants DEF IInv, DriveInv
    <3>4. pass = "settingRecord" => task_fsm = "WORK"
      BY DEF IInv, DriveInv
    <3> QED
      BY <2>2, <3>2, <3>3, <3>4
  <2>4. DriveIdle \/ DriveAlarm
    BY <2>1, <2>3 DEF DriveTimeOut, DriveZeroCalib, DriveWork, SettingRecorded
  <2> QED
    BY <2>4, Zenon DEF DriveIdle, DriveAlarm
<1> QED
  BY <1>1, Invariant, PTL DEF Spec, OffWhenItMust

(* A fault is written to the journal once until the process has been idle or, for     *)
(* those of the mains, the voltage good, for every voltage and every limit            *)
(* (user_process.c:232-250, 267-271, 333-337).                                        *)
THEOREM RecordedOnceAlways == Spec => RecordedOnce
<1>1. IInv /\ [Next]_vars => [record' # None /\ record' # record => record' \notin recorded]_vars
  <2> SUFFICES ASSUME IInv, [Next]_vars, record' # None, record' # record
               PROVE  record' \notin recorded
    OBVIOUS
  <2> USE DEF userVars, logVars
  <2>a. JournalInv
    BY DEF IInv
  <2>1. CheckVoltage \/ CheckFilter \/ DriveWork
    <3>1. ~(Wake \/ VoltageRecorded \/ CheckPower \/ PowerSaved \/ CheckSetting
            \/ FilterRecorded \/ ShowErrors)
      BY DEF Wake, VoltageRecorded, CheckPower, PowerSaved, CheckSetting, FilterRecorded,
             ShowErrors
    <3>2. ~(DriveIdle \/ DriveTimeOut \/ DriveZeroCalib \/ SettingRecorded \/ DriveAlarm)
      BY DEF DriveIdle, DriveTimeOut, DriveZeroCalib, SettingRecorded, DriveAlarm
    <3>3. ~(CalibrateZero \/ ZeroSaved \/ MBTask)
      BY DEF CalibrateZero, ZeroSaved, MBTask, Command, WriteCoil, WriteSpeed, StoreCommand,
             StoreSetting, AskZero, SaveSetting, SetPoint, SetControl, SetWorkMode
    <3>4. ~UNCHANGED vars
      BY DEF vars
    <3> QED
      BY <3>1, <3>2, <3>3, <3>4 DEF Next, UserTask
  <2>2. CASE CheckVoltage
    <3>1. record' \in {"low", "high"} /\ pass = "voltage" /\ task_fsm # "ALARM"
      BY <2>2 DEF CheckVoltage, Record
    <3> QED
      BY <2>a, <3>1 DEF JournalInv, Alarmed
  <2>3. CASE CheckFilter
    <3>1. record' = "filter" /\ pass = "filter" /\ "filter" \notin error_state
      BY <2>3 DEF CheckFilter, Record
    <3> QED
      BY <2>a, <3>1 DEF JournalInv
  <2>4. CASE DriveWork
    <3>1. record' = "setting" /\ pass = "drive" /\ "setting" \notin error_state
      BY <2>4 DEF DriveWork, Record
    <3> QED
      BY <2>a, <3>1 DEF JournalInv
  <2> QED
    BY <2>1, <2>2, <2>3, <2>4
<1> QED
  BY <1>1, Invariant, PTL DEF Spec, RecordedOnce

=============================================================================
