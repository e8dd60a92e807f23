# Models of the ventilation controller

The repository is the firmware of a ventilation controller: a CH32V307 (RISC-V)
running FreeRTOS, with a Modbus slave (FreeModbus, over RS485 or over Ethernet),
a display with a keypad, analog and I2C sensors, settings and a journal in an SPI
EEPROM, and the process control of a fan.  This directory holds TLA+ models of
it, the TLC runs that check them and proofs for TLAPS.

## The system

### Parts, their state and their operations

| part | sources | state | operations |
|---|---|---|---|
| Modbus RTU slave | `modbus/mb.c`, `modbus/rtu/mbrtu.c`, `port/portserial.c`, `port/portevent.c`, `port/porttimer.c`, `HAL/hal_usart.c` | receiver and sender state, `ucRTUBuf`, the t3.5 timer, two event groups, the direction pin of the RS485 driver | receive and transmit interrupt, timer interrupt, Serial task, `eMBPoll` |
| Modbus TCP slave | `modbus/tcp/mbtcp.c`, `port/porttcp.c` | `aucTCPBuf`, `outTCPBuf`, `usTCPBufPos`, the sockets, the same event group | socket events, request, answer |
| function handlers | `modbus/functions/*.c` | none | parse a request, call the register callbacks, build the answer or an exception |
| register map | `User/mb_task.c` | `usRegHoldingBuf`, coils | register and coil callbacks |
| settings and journal | `User/data_model.c` | a RAM image of the settings, the ring of journal records with index and count | start-up, validated write, append a record, read the n-th record |
| EEPROM driver | `HW_LIB/EEPROM_25C.c`, `HAL/hal_spi_ch32.c` | the state of the transfer in progress | read, write by sectors, interrupt |
| ventilation control | `User/user_process.c`, `User/pid.c` | process state, timers, alarms, outputs | one step per period |
| sensors | `User/ADC.c`, `HW_LIB/hw_lib_adc.c`, `HW_LIB/filters.c`, `User/AC_ConvertLib.c` | rings of samples, I2C state machine, calibration offsets | ADC interrupt, I2C step, calibration |
| keyboard, inputs, outputs | `HW_LIB/hw_lib_keyboard.c`, `HW_LIB/hw_lib_din.c`, `User/din_dout_task.c` | debounce counters, the queue of key events | scan, debounce |
| display and menu | `User/led.c`, `User/menu.c`, `User/menu_data.c` | screen buffer, menu position, edit state | key, refresh |
| start-up and supervision | `User/main.c`, `User/init.c`, `User/system_init.c`, `User/rtc_task.c`, `HAL/hal_wdt_ch32.c` | which tasks are suspended, `TCP_STOP`, the watchdog | start-up sequence, feeding the watchdog |
| third-party | `FreeRTOS`, `NetLib`, `u8g2-master`, `Peripheral`, `Core`, `Startup` | | |

Priorities (`User/system_init.h:35-53`): timer daemon 14, Serial, WCHNET and user
process 8, LCD 7, ADC and I2C 6, Modbus and default task (menu) 5, keyboard 4.

### How the parts interact

* The interrupts talk to the tasks through two event groups.  The "FromISR" calls
  do not set a bit themselves: they queue the update for the timer daemon
  (`configTIMER_QUEUE_LENGTH` 4).
* The Modbus task calls the register map, which calls the settings, which call the
  EEPROM driver and wait for its interrupt.  So do the process task, the menu
  and the I2C task.
* RTU and TCP share `mb.c` and the event group of the stack; which of them runs is
  read from the settings once (`User/system_init.c:205-212`).
* The WCHNET task feeds the watchdog, whatever the protocol.

### What is hard here

Nested interrupts and tasks of several priorities work on unprotected variables
(`ENTER_CRITICAL_SECTION` is an empty macro, `port/port.h:68`); a request is checked in one
poll and read again in a later one; a bus master may send at any moment; a queue
of four; asserts that are compiled in and spin; restarts by the watchdog; writes
to an EEPROM that a power failure can cut.  `PROJECT.json` lists each of these
hazards at its line.

### What makes each part correct

* RTU slave: a sound request for this slave takes effect exactly once and gets one
  complete answer, nothing else does; receiver and transmitter never get stuck;
  no buffer overflows; no event is lost; the driver leaves the bus.
* TCP slave: every answer goes to the client whose request it answers; one
  client's bad data does not stop the others.
* Function handlers and register map: no access outside the tables, every limit
  exact, an exception for every request out of range.
* Settings and journal: after a power failure the settings are the old or the new
  ones and the journal has lost at most the record being written.
* EEPROM: transfers of different tasks do not mix, a timeout leaves no trace.
* Ventilation control: outputs off when stopped or in alarm, no stale timers.
* Sensors: a dead sensor stops nobody; calibration is of the sensor it is stored for.
* Keyboard: every press gives one make and one break code; nobody blocks for ever.
* Start-up: every task is resumed exactly once and after what it needs.

Which of these are modelled is the matter of the next section, which are not of the last.

## The modules

| module | part | checked by | proofs |
|---|---|---|---|
| `ModbusTransaction` | what a Modbus slave promises: a request is applied once, then answered | implemented by the next two | |
| `ModbusRTU`, `MCModbusRTU` | RTU slave | `rtu_paced`, `rtu_hasty`, `rtu_foreign` | `ModbusRTU_proofs` |
| `ModbusTCP`, `MCModbusTCP` | TCP slave | `tcp_patient`, `tcp_hasty`, `tcp_taken` | `ModbusTCP_proofs` |
| `ModbusFunctions` | function handlers and address checks, operators only | through `RegisterMap` | `RegisterMap_proofs` |
| `RegisterMap`, `MCRegisterMap` | holding registers and the limits of the mains, Modbus task and menu; uses `ModbusFunctions` | `registers` | `RegisterMap_proofs` |
| `Journal` | what the journal promises: a bounded list of whole records | implemented by the next one | |
| `DataModel` | settings and journal over an EEPROM, power loss | `data_power` | `DataModel_proofs`, `Journal_proofs` |
| `Eeprom` | the EEPROM driver and its callers | `eeprom_calls` | `Eeprom_proofs` |
| `UserProcess` | ventilation control and zero calibration | `process_faults`, `process_master` | `UserProcess_proofs` |
| `Sensors` | the I2C pressure sensors | `sensors` | `Sensors_proofs` |

The modules meet where the code does, and each takes of its neighbours what their own module
shows: `ModbusRTU` and `ModbusTCP` execute a request in one step (or two), `RegisterMap` has what it does and how
long it takes; `DataModel` takes a sector write as whole or failed and the calls as one after
the other, `Eeprom` says when that is so (`WholePieces`, proved); `UserProcess` and `RegisterMap` take a
saved setting as saved, `DataModel` says what a power loss leaves of it; `Sensors` leaves the
calibration at the end of a round to `UserProcess`.

The master's and the operator's faults are in the hasty runs; what holds only of
a careful one is stated with the care it takes (`Paced`, `Patient`, `careful`, `clean`).

## ModbusRTU

### State and actions

| variables | in the code |
|---|---|
| `eRcvState`, `eSndState`, `usRcvBufferPos`, `ucRTUBuf`, `pucSndBufferCur`, `usSndBufferCount` | the static variables of `mbrtu.c`; the pointer is an index |
| `ucRcvAddress`, `usLength` | static variables of `eMBPoll` |
| `rxne`, `rdr`, `rxneie`, `tcie`, `tdr`, `de` | UART4: flag and data register of the receiver, the two interrupt enables, the character being sent, the direction pin |
| `timerOn`, `elapsed` | TIM4: counting, and for how many character times |
| `pended`, `xSlaveOsEventGroup`, `xSerialEventGroup` | the timer daemon's queue and the event groups |
| `timerPc`, `serialPc`, `mbPc` | where the timer interrupt and the two tasks are |
| `sent`, `nxt`, `seen`, `heard`, `applied`, `exec` | the bus and its master, and history: how often each frame was executed, which frames a handler read |
| `hung` | an assert failed in an interrupt |

A character is a pair: of which frame, which position.  `CrcOk` says that the
buffer holds exactly one whole sound frame (or the slave's own answer, whose CRC
is right too); a CRC that is right by chance is left out.

| actions | in the code |
|---|---|
| `MasterBegin`, `MasterChar` | the environment: a master that sends frames of the kinds in `Kinds`, one character after the other |
| `RxIsr`, `TcIsr` | `HAL_UASRT_IRQ` with its callbacks: `xMBRTUReceiveFSM`, and the wake-up of the Serial task |
| `T35Expired`, `T35Disable`, `T35Idle` | `xMBRTUTimerT35Expired` in three steps, because the UART interrupt (priority byte 0x70) nests inside the timer interrupt (0x90) |
| `TimerDaemon` | one queued update of an event group |
| `SerialWake`, `SerialTransmit`, `SerialEnable`, `SerialIdle` | `StartUARTTask`, `xMBRTUTransmitFSM` |
| `MBStart`, `MBDelay`, `MBEventGet` | `eMBInit`/`eMBEnable`, the delay of `MBRTU_task`, `xMBPortEventGet` |
| `MBReceiveCheck`, `MBReceiveLatch` | `eMBRTUReceive`: the check, then the second reading of buffer and position |
| `MBExecute`, `MBHandler` | `EV_EXECUTE`: function code, then parameters, effect and answer in place |
| `MBSendCheck`, `MBSendBuild`, `MBSendDriver`, `MBSendStart` | `eMBRTUSend` and `vMBPortSerialEnable` |
| `WatchdogReset` | restart after an assert in an interrupt |

Guards carry the priorities: a task step needs `TaskRuns` (no interrupt pending,
the daemon has nothing to do), a step of the Modbus task also that the Serial task
waits.  Code between two steps of one task that touches no shared variable, or
variables no other activity can reach at that moment, is one step.

### Runs

| run | what it asks | bounds |
|---|---|---|
| `rtu_paced` | a master that waits until the slave is done (`Paced`): every frame is executed whole and alone, no character overruns another, the asserts hold, and the slave implements `ModbusTransaction`, liveness included | 3 frames of 5 kinds, so that every kind follows every other and the run includes the state left behind by two frames |
| `rtu_hasty` | a master that sends at any moment: what still holds | 2 frames of 3 kinds (3 frames give 17 million states and the same verdict); the second frame can begin at every step of the handling of the first, including during the answer |
| `rtu_foreign` | what a comment of `eMBPoll` says of frames for others, which the code does not keep | as `rtu_hasty` |

`SizeMax` 8 and `T35Chars` 5 or 6 keep the relation of the build's 256 and 162: the
period is shorter than the buffer, longer than an ordinary frame, and a frame may
be longer than the period.  The minimum frame has 4 characters as in the code.

What `rtu_paced` and `rtu_hasty` together show: with a master that waits, the
slave is right.  With one that does not (a second master, a retry that comes early,
traffic for other slaves within the 93 ms the timer takes instead of 2 ms), it can execute the wrong
frame, answer twice or stop until the watchdog restarts it, but it does not write
outside its buffers, does not get stuck in reception or transmission (unless the
assert of `xMBRTUTransmitFSM` stops the Serial task with the driver on: the
exception in `BusReleased`), and loses no event in the daemon's queue.

The violation is listed under `findings`.  Seen without a run of their own:

* `AssertsHold` fails with a master that is not paced (`HastyKinds`, `Paced` FALSE): a character whose interrupt
  nests inside the timer interrupt between `mbrtu.c:352` and `mbrtu.c:353` restarts the
  timer of a receiver that then turns idle, and the assert at `mbrtu.c:348` stops every
  task until the watchdog restarts the controller.  Longer variants go through the
  asserts at `mbrtu.c:230` and `mbrtu.c:291`.
* `FrameNotCut` fails with `LongKinds`, even with a paced master: "Reset the timer after every
  character received" (`mbrtu.c:265`) is not what `hal_timers.c:37` does, which only sets
  the enable bit of a timer that counts already; a frame of more than 162 characters is
  cut in two.

A frame that arrives during the handler lets the slave
 execute its own answer, which is still in `ucRTUBuf`, as a request; the comment
`mbrtu.c:193-196` wants the answer dropped when a new frame has come, but the
receiver is idle again once that frame has ended.

### Fairness

`FairSpec` has weak fairness of each interrupt, of the timer, of the daemon, of the
Serial task and of the Modbus task as a whole, of the restart, and of the next
character of a frame that has begun.  Interrupts and the timer are hardware; the
tasks are the only users of their priorities that never wait in RTU mode (the
WCHNET task only feeds the watchdog), and a weakly fair step is one that stays enabled, that is
when nothing of higher priority takes over for good.  No frame has to be sent.

### Proofs (`ModbusRTU_proofs`)

For all values of the constants that satisfy the three assumptions (kinds are well
formed, buffer and timer as `T35Assumption` says), and for a master that is not
paced as well as one that is:

* `TypeCorrect`: `TypeOK`, by `TypeInv`, which adds `AnswerFits` (the handler's answer
  leaves room for address and CRC; without it the count of characters to send is
  not bounded by the buffer).  One lemma per part of the type invariant.
* `BufferNeverFullAlways`, `ReceiverNotWedgedAlways`: by `ReceiveInv`.  The invariant
  counts: while the timer runs, the characters received and waiting are at
  most one more than the character times that have passed, and the timer interrupt comes after
  `T35Chars`; from its first step to its last at most the waiting character can be
  added.  Neither property is inductive without that count.
* `PostNeverLostAlways`: by `QueueInv`, a potential: the queue's length plus one for an
  armed transmit interrupt, one for a running timer and one for a waiting character
  (which may start the timer) never exceeds four.  The configured length is exact.
* `TransmissionNotStrandedAlways`: inductive with the types; each step that takes
  away one reason for the next call of `xMBRTUTransmitFSM` leaves another behind.

The second half of the module adds what needs a careful master.  `PacedMaster` says what care:
it begins a frame only when the slave is `Quiescent`, no frame takes longer than the
t3.5 timer, and a frame with a sound CRC has at least four characters.  From it, for any number
of frames of any kinds and any sizes of buffer and answer:

* `PacedInv` describes a transaction as nine phases (`Booting`, `Idle`, `Receiving`, `Ended`,
  `Checking`, `Accepted`, `Answering`, `Transmitting`, `Finishing`), each with what is then in the
  buffer, under way in the two event groups and the daemon's queue, and heard by the master; it follows
  a request through all five activities, which is what makes it inductive.  One lemma per
  phase shows which steps are possible there, and that each leads to the same or the next phase.
* `ExecutesWholeFramePaced`, `NoTransmitOverrunPaced`, `AssertsHoldPaced` follow from it.
* `TransactionSteps`: the slave implements the initial states and the steps of
  `ModbusTransaction`.  The mapping takes `MasterBegin` to `Request`, `MBHandler` to `Apply`, the
  interrupt `TcIsr` to `BeginAnswer`, `EndAnswer` or a stutter, and all other steps to stutters.

Each of the three assumptions is needed: without the first the counterexamples above come
back, without the second a frame is cut in two (`FrameNotCut`), and a
shorter sound frame would be one the abstract slave answers and the code ignores.

Only model-checked: `BusReleased` and the liveness part of `Implements`
(fairness is out of the prover's reach).

## ModbusTCP

### State and actions

| variables | in the code |
|---|---|
| `asked`, `current`, `unsent`, `answered`, `unasked`, `connects` | the clients, and history of what they got |
| `open`, `intstat`, `received`, `buffered` | the Ethernet library: connections, pending socket interrupts, received data, which sockets were given a receive buffer |
| `aucTCPBuf`, `usTCPBufPos`, `outTCPBuf`, `SocketIdClient` | the static variables of `porttcp.c`; the content of `outTCPBuf` is the request it answers |
| `netPc`, `socketid`, `stat` | the WCHNET task: where it is, and the arguments of `WCHNET_HandleSockInt` |
| `mbPc`, `ucMBFrame`, `answer`, `applied` | the Modbus task; whether `eMBPoll` has ever had a frame; whose answer stands in the buffer; history |
| `group` | the event group that both share; `DATA_READY` and `EV_FRAME_RECEIVED` are one bit, `DATA_SEND` and `EV_EXECUTE` the other |
| `dropped` | history: the requests whose clients the slave has dropped |

| actions | in the code |
|---|---|
| `Connect`, `Ask`, `SendRest`, `Disconnect` | clients and library, seen by the slave at its next tick; a request may come in two pieces |
| `Tick` | the end of `vTaskDelay(1)` of both tasks |
| `NetSocket`, `NetReceive`, `NetWait`, `NetSend`, `NetLink`, `NetDone` | `WCHNET_HandleGlobalInt` and `WCHNET_HandleSockInt` in the order of the code, cut where the task waits or wakes the other one |
| `MBEventGet`, `MBReceive`, `MBPost`, `MBExecute` | `eMBPoll` with `eMBTCPReceive` |
| `MBCopy`, `MBReady`, `MBWait` | `eMBTCPSend` and `xMBTCPPortSendResponse` |
| `WatchdogReset` | the WCHNET task feeds the watchdog; while it waits for an answer nobody prepares the watchdog restarts the controller |

The WCHNET task has the higher priority, so the Modbus task steps only while the other
one sleeps or waits (`MBRuns`).  Event posts go through the timer daemon, which outranks both
and whose queue they cannot fill, so that a post is one step.  Both bits at once read as `EV_FRAME_SENT`, with which
`eMBPoll` does nothing (`Dispatch`).

A piece that lies across the end of the library's ring is delivered in two (`porttcp.c:158-164`); that is a
request in two pieces, which `Ask` and `SendRest` give.  A send may fail for any reason, and the
connection is then released; that of a patient client takes the answer.

Offsets are scaled: a header of two fields (protocol identifier, length) before the
function code.  A buffer that does not begin with a header has an arbitrary length field
(`ClaimedLength` takes the two extremes).  The build has one connection
(`WCHNET_NUM_TCP`) next to the listening socket; `Socks` is a parameter because the
code loops over `MB_TCP_CLIENTS`.

### Runs

| run | what it asks | bounds |
|---|---|---|
| `tcp_patient` | clients that take turns and come back when the Modbus task waits again (`Patient`): each gets its own answer, the stack has taken a request before the answer goes out, the slave implements `ModbusTransaction` with its liveness | two connections, so that one client's request can follow the other's, and one more connect than that, so that a socket is reused; 3 requests: the state left by two |
| `tcp_hasty` | a client that asks, cuts off and disconnects at any moment, with frames that claim too little, are no more than a header or of another protocol: the buffer holds, and neither task waits for what nobody will do | one connection as in the build, reused once; 3 requests of 4 kinds (a request that claims too much is like one that is cut off), `BufSize` 5: what is left of one request and the next one overflow it |
| `tcp_taken` | what a comment of the socket handler says, which the code does not keep | one connection, sound requests only |

`tcp_patient` and `tcp_hasty` together say: the hand-over is right for clients that leave
the slave two ticks after an answer.  For a client that does not, the shared bit makes the slave
send the previous answer, and further requests may be executed twice or late, but the slave
comes back by itself; only a frame of another protocol makes it wait until the watchdog
restarts the controller.

Seen without a run: `DropIsLocal` fails for clients that are not patient (`SoundKinds`, one
connection).  `usTCPBufPos` is one position for all connections and only
`xMBTCPPortGetRequest` resets it; what a request that was never taken, or a client that went
away in the middle of one, has left is put before the next client's request, and that client is
dropped for it, against `porttcp.c:169` and `porttcp.c:222`.

### Fairness

Weak fairness of the tick (a timer), of the WCHNET task (priority 8, with nothing above
it that runs for long) and of the restart.  Strong fairness of the Modbus task,
which every tick interrupts: the other task sleeps for most of a tick.  Strong
fairness of `SendRest`: a client sends the rest of a request whenever it likes, the model only
lets it be seen while the WCHNET task sleeps.  No client has to ask or to connect.

### Proofs (`ModbusTCP_proofs`)

The first three hold for every number of sockets, every set of kinds that `KindsAssumption`
allows and every bound that `BoundsAssumption` allows, for patient clients and for any others:

* `TypeCorrect`: `TypeOK`, by `TypeInv`, which adds `AtSocket`: while a socket is being
  handled `socketid` is one, so that the answer has somewhere to go.  One lemma per part.
* `SendingHasAnswerAlways`: by `HandOver`, on the bits alone.  The property speaks of the
  last wait of the Modbus task; a step earlier that task stands between its wake-up and
  `xMBTCPPortSendResponse`, and it arrives there with `DATA_READY` set only if its
  event wait left the group empty.  So the invariant follows the group through
  every place of `eMBPoll`.
* `NoMutualWaitAlways`: by `TypeInv`, `HandOver`, `BufferNamed` and `RequestUnderway`.  What the
  WCHNET task waits for is on its way: the bit it posted is still set, or the Modbus task
  has taken it and goes through the request, or the buffer holds a frame of another
  protocol.  That last case is about characters that arrived earlier, maybe from two
  clients, so `BufferNamed` says that whatever is in the buffer was asked by someone, and
  `AskedGrows` that this remains true as clients ask.

`AnswerMatches`, `RequestTaken` and the refinement hold for patient clients only (run
`tcp_taken` shows that one hurried client breaks `RequestTaken`).  They are proved from
`PatientClients`: the clients take turns (`Patient`), and what they send is Modbus, claims its
own length, has more than a header and fits in aucTCPBuf.  From it, for any number of sockets
and connections and any such kinds:

* `PatientInv` describes a transaction as five phases (`Quiet`, `Asking`, `Announced`,
  `Taken`, `Executed`): which task is where, which bits are set, what is in the buffer and what
  the library still holds of the request.  Other clients may connect and disconnect in the
  first two.  One lemma per phase shows which steps are possible there and that each stays or
  leads on.  The hard step is `AskingReceive`: the length field is read from the buffer as soon
  as enough characters have come, whatever the pieces were, so the phase keeps the place of
  every character, in the buffer, in the library and still at the client.
* `AnswerMatchesPatient` and `RequestTakenPatient` follow from it.
* `TransactionSteps`: the slave implements the initial states and the steps of
  `ModbusTransaction`.  The mapping takes `Ask` to `Request`, `MBExecute` to `Apply`, `NetSend` to
  `BeginAnswer`, and all other steps to stutters.

Only model-checked: the liveness part of `Implements`.

## UserProcess

### State and actions

| variables | in the code |
|---|---|
| `task_fsm`, `error_state`, `start_timeout`, `low_voltage_alarm_timer`, `power_off_flag`, `HEPA_CONTROL_ON`, `pid_counter`, `mb_time_out`, `set_point_old`, `setpoint`, `setting_change_flag` | the variables of `user_process.c`; `error_state` is a set of errors |
| `ac_voltage`, `c_type`, `start` | what the pass has read; `ac_voltage` and `start` are forgotten when it ends |
| `OUT_1`, `DAC2`, `OUT_3` | relay of the fan, whether its speed is above zero, relay of the alarm |
| `SYSTEM_START`, `CONTROL_TYPE`, `MODE`, `setting`, `WORK_MODE` | the settings the task reads (`data_model.c`) and the work mode (`mb_task.c`) |
| `calibration_zero_flag`, `calibration_zero_count`, `cla_zero_end`, `i2cPc` | the zero calibration (`ADC.c`), and whether the I2C task is saving the offsets |
| `mbPc`, `state`, `change` | the Modbus or menu task between two stores that belong together |
| `record`, `recorded`, `lowPasses`, `ordered`, `since`, `followed`, `requests` | history, and the bound of the requests |

| actions | in the code |
|---|---|
| `Wake`, `CheckVoltage`, `VoltageRecorded`, `CheckPower`, `PowerSaved` | the pass up to `user_process.c:260`, cut where it waits for the EEPROM (`vADDRecord`, `SaveBeforePowerOff`) |
| `CheckSetting` | `USER_SETTING_CHECK`: `CheckMaster`, start and stop, `CheckPoint` |
| `CheckFilter`, `FilterRecorded`, `ShowErrors` | the filter, the alarm relay and the work mode |
| `DriveIdle`, `DriveTimeOut`, `DriveZeroCalib`, `DriveWork`, `SettingRecorded`, `DriveAlarm` | the cases of the switch |
| `CalibrateZero`, `ZeroSaved` | `CalibrateZero` in the I2C task, cut at its two writes to the EEPROM |
| `Command`, `StoreCommand`, `SaveSetting`, `StoreSetting` | `USER_SetControlState` and `saveReg16`: two stores each |
| `SetPoint`, `SetControl`, `SetWorkMode`, `WriteCoil`, `WriteSpeed`, `AskZero` | the other writes of the Modbus and menu tasks to what the user task uses |

The user task has priority 8, the I2C task 6, the Modbus and menu tasks 5, so these
step only while the user task sleeps or waits for the EEPROM (`UserWaits`).  Any number of passes
may come between two stores of one task: the I2C task polls above Modbus and menu for
up to a time-out (25 ticks, `ADC.c:640-684`), and a pass comes every ten.  The values of the discrete inputs, of the mains, of the filter
and of the controller's deviation are inputs, free in every pass.  `RESURSE` is never set
to more than 0 (`user_process.c:145-151`: the division is one of integers, and a
sensor above `FILTER_HIGH` returns 100 without storing it), so the filter's warning comes only from the
sensor.  `mb_time_out` stops at the limit, which it is only compared with.

Left out: the arithmetic of the controller and of the set point, DAC1 and DAC3, the lamp
(OUT_2), what a record contains, work mode 3 (a restart), and passes in the manual
work mode (2), which do nothing.  The limits are constants: a change of a limit by the
master while the process runs is not modelled.  A `MOD_BUS_TIMEOUT` of 0, with which the
process never starts, is excluded by `LimitAssumption`.

### Runs

| run | what it asks | bounds |
|---|---|---|
| `process_faults` | no pass that finds a fault or no order leaves the fan running, no fault is recorded twice | voltages 0 (lost), 3 (low), 4 (good), 6 (high); limit 0 of 2, so that the counter wraps at the next reading after the alarm, as 100 of 256 does later; limits of 0 or 1 pass elsewhere: a longer delay repeats a pass; 2 requests of all kinds, between any two steps |
| `process_master` | a command stands for the time-out counted from its arrival (`mb_time_out` set back) and is over at the pass after; the calibration ends | time-out of 3 passes, so that a command falls on its first, middle and last; 2 samples, so that a calibration is started anew in the middle of one; good and high voltages; two requests |

A command that is stored only after the time-out counted from its arrival has run out is in force until the next
pass that checks the master, which ends it: `OrderHolds` asks of a start that it be in force up to the
last pass of the time-out, and of any command that it be over with the first pass that finds the time-out run out and
the command stored (`Expired`).

`lowPasses` counts from 0 after a pass that did not read a low voltage; the alarm may need
one reading more than the code's limit, when the counter, which is never reset, was at its last
value.  `OffWhenItMust` allows for it.

Seen while modelling, without a run: `SettingApplied` fails (`Points` {0, 1}, `Settings` {1, 2}): `saveReg16` sets the
flag of a changed setting before it stores the setting (`data_model.c:93`), a pass in between
clears the flag and takes over the old value, and the new one is used only after
another change; a manual calibration that ends late is taken for the
one a start waits for, and a process that leaves the alarm with the start given keeps
its errors and skips the start delay (both under `hazards`); in the set-up mode a mains
fault is recorded in every pass, since the process turns idle in each; mains that stay
between 20 and 40 after a power loss keep `power_off_flag` set, which disables the alarm.

### Fairness

Weak fairness of the user task: it has the highest priority of those that work and its
waits for the EEPROM have a time-out.  Strong fairness of the steps of the I2C task and
of the second stores: the user task interrupts them for a fraction of every ten
ticks.  Nobody has to ask for anything.  `CalibrationEnds` excepts the manual work
mode, in which no pass is made.

### Proofs (`UserProcess_proofs`)

For all voltages and limits that the three assumptions allow, and any number of requests:

* `TypeCorrect`: `TypeOK` is inductive as it stands; one lemma per part, one step per action.
* `OffWhenItMustAlways`: by `DriveInv`.  The property speaks of the end of a pass, and only what
  the pass has read at its beginning decides it: `DriveInv` carries it through the
  waits, and says that outside of the alarm state the counter has kept up with
  the low readings (`lowPasses - 1 <= low_voltage_alarm_timer <= LowLimit`): the reset that the code leaves
  out is made up by the wrap, which costs one reading.
* `OrderHoldsAlways`: inductive with `OrderInv`, which says that `mb_time_out` is `since`, the passes that have checked
  the master since a command last came.  The steps that matter are the store of a command,
  which may find that time already run out, and the arrival of the next one, which may find
  the old one ended or, with its store still to be followed by a pass, in force.
* `RecordedOnceAlways`: by `JournalInv`: what has been recorded is remembered in `error_state` or in the
  state of the process, except while the record is being written.

Only model-checked: `CalibrationEnds` (liveness).

## ModbusFunctions and RegisterMap

### State and actions

`ModbusFunctions` has no state: each handler is an operator from the header of a request (function
code, address, count or value, byte count, the second block of function 23, and the length of the
PDU, which need not go with the rest) to an exception or the length of the answer.  Next to the
handlers stands what the application protocol says of the same request (`WellSized`, `Legal`), from the tables
this device has.

| variables of `RegisterMap` | in the code |
|---|---|
| `usRegHoldingBuf` | the four limits of the mains voltage in the table of the Modbus task |
| `setting` | the same limits in `DATA_MODEL_REGISTER` |
| `request`, `answer`, `mbPc`, `iRegIndex`, `usNRegs` | the Modbus task in a handler and in `eMBRegHoldingCB` |
| `start_edit_flag`, `edit_id`, `edit_data_buffer_byte` | the editor of the menu |
| `stale`, `careful` | history: see `LimitsOrdered` |

| actions | in the code |
|---|---|
| `Execute` | `eMBPoll` calls the handler: checks and exceptions, and for holding registers the callback begins |
| `WriteRegister` | one register of `MB_REG_WRITE`: into the table, `vSetRegData`, the setting saved.  A step each, because the task waits for the EEPROM in between and the menu has the same priority |
| `Written`, `ReadRegisters`, `Reply` | function 23 goes on to its reading; `MB_TASK_HOLDING_UDATE` and the registers into the answer; the answer |
| `StartEdit`, `Key`, `SaveEdit`, `LeaveEdit` | `vByteDataEdit` with the bounds that `vGetData` hands it at every key |

A value that is refused stays in the table (`mb_task.c:699`), and what is checked next is checked
against it; only a read brings the table up to date, and before the first one it is
zero.  A value is cut to a byte when it is stored (`data_model.c:103`: 300 is stored as 44).  The menu
checks a key against the settings of that moment and saves without a check (`menu.c:405`).
`CMD_DEC` compares an unsigned difference: below the minimum the buffer goes on down (`menu.c:423`).

### Run

`registers` has a request around every boundary for every function: the first and last address of every
table, the ones beside them and 65535, counts of 0, 1, the size of the table and the limits of
the handlers, byte counts that fit and do not, PDUs that are too short or too long, function
codes without a handler.  Two requests, three keys: a write between the first key and the saving,
and a write after a write.  `AccessInTable` is for the FMCH, with `reg_offset` 0 and 14
registers.  On the CDV and the BP the offset is 100 or 200, and `vSetRegData` (`mb_task.c:316`)
and `MB_TASK_HOLDING_UDATE` (`mb_task.c:614`) use the register's own number for tables of 151: the property is
false there.

`LimitsOrdered` says for whom the limits stay in order: for a master that has read the limits since anybody
changed one, and an operator who saves nothing entered before such a change (`careful`).  Without
`careful` TLC finds in a few steps an order that both checked and that is none.

Seen without a run: function 3 answers a request for 257 registers as one for a single
register, against the comment at `mbfuncholding.c:188` (proved, `CountHighByteLost`); functions 1, 2 and 4 refuse
the largest count of the protocol (`<` for `<=`; no table is that large); functions 15, 16 and
23 do not compare the length of the PDU with the byte count and read what an earlier frame left
behind it, and a function 23 that is too short is sent back as its own answer (`WellSized` keeps these
out of the property); function 15 gives every coil the whole first byte
(`mb_task.c:736-766`), and the coils that are read come unshifted; `ucSCoilBuf` and
`ucSDiscInBuf` have size 0 in the build (`mb_task.c:24-33`); `getRegID` returns 0 for a
coefficient of the CDV and the BP, so that saving it overwrites the valid code; `MB_PROTOCOL_TYPE`
refuses every value (`data_model.c:144` joins with `||`), `MB_RTU_ADDR` none (`data_model.c:132` with
`&&`).

### Proofs (`RegisterMap_proofs`)

For every offset, every number of device registers and every set of requests, bounded only by
their 16- and 8-bit fields:

* `HandlersByTheBook`: one lemma per function, over lemmas on 16-bit addresses (`usRegAddress` wraps, the callbacks
  of coils and inputs take the one off again) and on byte counts.
* `TypeCorrect`, `AnswersCorrect`, `AccessCorrect`: by `Inv`, which says where a callback is in its
  block: whatever has been written or read so far, what is left is a block the checks let
  through.  `AccessCorrect` assumes what the FMCH has (offset 0) and at most 50 registers, which is what
  151 slots leave.
* `LimitsCorrect`: by `LimitInv`.  The hard part is that four checks with four different neighbours,
  made against a table in the one task and against settings in the other, add up to one
  order; the invariant says that a careful master's table agrees with the settings where its
  check looks, and what bounds a careful operator's buffer.

## Journal and DataModel

### State and actions

| variables | in the code |
|---|---|
| `DATA_MODEL_REGISTER` | the registers in RAM; of the settings one of each kind: a single byte, two that belong together, one in two sectors, the hours and the resource of the filter, the two counters of the journal |
| `rom`, `slot` | registers and journal in the EEPROM; a slot has a head and a tail, which differ when a record that lies across two sectors was cut |
| `boot` | where `DataModel_Init` is |
| `todo` | the sectors that the call of `WriteEEPROM` in progress has still to write, with the bytes it took |
| `userPc`, `index`, `lowOp`, `saves`, `lowPc` | the two tasks that save |
| `unsaved`, `cut`, `sound`, `interfered`, `givenUp` | history: what the properties except |

| actions | in the code |
|---|---|
| `BootRead`, `BootReadFails`, `BootReread`, `BootRereadFails` | `DataModel_Init` with a valid image or a blank one, and either of its two readings when it fails; a reading that fails leaves the bytes it got (`Prefixes`: none, or those of the first sector) |
| `AddBegin`, `AddCommit`, `UserReturns` | `vADDRecord`: the record, then index and count in one write |
| `SaveBeforePowerOff`, `SaveResurse` | the hours and then the resource, when the mains go |
| `LowBegin`, `LowStore`, `LowSave`, `LowSaved` | `SaveReg8`, `saveReg16`, `saveRegFloat`, the pair of control type and protocol, the reset of the journal: store into RAM, then write, for each register |
| `Hour` | the clock's interrupt counts the hours in RAM |
| `WriteSector`, `WriteFails`, `PowerLoss` | one sector of `WriteEEPROM` succeeds, its transfer fails (no caller looks), or the power goes |
| `ShownSlot` | `vGetRecord`: which slot the menu shows as the n-th record |

### Run

`data_power`: a ring of 3, four records (so that it wraps and slot 0, which lies across two sectors, is
overwritten), two changes, resets, hours or savings at a power-off, two faults (a fault in the repair of a fault).  50 slots
behave like 3: the code knows an empty ring, a ring filling up, a full one, and the step
from last slot to first.

`Implements` is the refinement of `Journal`: at each moment the power may fail, what a restart will
find is a list of whole records, oldest first; a step appends one, or, in a full ring, first gives the oldest
up.  What is excepted is in the history variables: a ring is `sound` from a complete
initialisation or reset until a transfer fails or a record is added in the middle of
a reset; a ring that is not sound counts as empty until the next.

Seen without a run: `RecordsDiffer` fails as soon as the ring is full: then `vGetRecord` leaves its
local index at 0 and shows the oldest record under every number (`data_model.c:244-267`); `addr <= total` shows a
slot that was never written as the first record of an empty journal; a failed read shows
the uninitialised buffer.  A full ring whose oldest record is being overwritten shows half of each when
the power fails (`givenUp`).  A reset cut between its two saves, or one with a record
added between them, leaves index and count that do not go together until the next reset (`sound`).
After `INIT_ERROR`, which the start-up ignores, the registers are zero and the next record
truncates the journal.  A first start that is cut after its first sector leaves a valid code and
blank settings (`InitComplete` except `cut`); its blank index points outside of the ring, and what
`vADDRecord` does then is not modelled.  `SENSOR_COUNT` is one byte (`data_model.h:50`) but is saved as two
(`ADC.c:77`), over the low byte of `IP_PORT`: 502 becomes 256.

### Proofs (`DataModel_proofs`, `Journal_proofs`)

For a ring of any size (below the 65535 of a counter that was never written), any slots across a border of
sectors, any number of records, changes and faults (`SizeAssumption`).  Each layer is inductive
with the ones above it:

* `TypeInv` (`TypeCorrect`): the sectors to be written are of the registers' types, and of the seven shapes that a
  save can have (`SaveShape`) it has one.
* `OwnerInv`: whose write is in progress.  There is one `todo` for all; from where the two tasks are
  follows whose it is and which registers are in it, so that a step of one task is known to leave the
  other's registers alone.
* `RamInv` (`RamMatchesRomAlways`): a register in RAM differs from the EEPROM only if it is in a write in progress
  or its save is about to begin; the bytes in a write are the RAM's unless the save that
  changes them is about to begin.
* `PairInv` (`PairsWholeAlways`): how far the save of a pair has come: what is written, what is pending.
* `BlankInv` (`InitCompleteAlways`): where a blank value can be before the first initialisation has ended.
* `ResetInv`: how far a reset has come.  It is needed because a reset makes the ring unsound with its first save and
  sound again with its second, and a record may come between; if none did, both counters are
  zero in RAM and in the EEPROM at the end.
* `RingInv`: the records that count are whole and in the order of their numbers, a record in progress is in the one
  slot that does not count, the counters about to be written are the next ones, and RAM and EEPROM agree
  on them otherwise.  With each step it is shown what the step does to the log (`LogStep`).

`Implemented` is the refinement, by `RingInv` and two lemmas on sequences: advancing the counters is an
`Append` to the log (`LogMovesOn`), overwriting the next slot of a full ring a `Tail` (`LogWritten`).
`LogIsTyped` adds that every entry is a record and that there are no more of them than slots;
`ShownIsJournalAlways`, that the menu shows this log.

All properties of `data_power` are proved.

## Eeprom

### State and actions

| variables | in the code |
|---|---|
| `state`, `data_addres`, `pdata`, `data_size`, `data_index`, `NotifyTaskHandle` | the one structure `SPI_EEPROM` that all callers share |
| `sector_buffer`, `pData` | the driver's buffer and that of a caller who reads |
| `NSS`, `pipe` | chip select, and the bytes in the shift and the data register |
| `chip`, `WEL`, `busy`, `mem` | the chip (external): its transaction, write enable latch, write cycle, content |
| `op`, `number`, `done`, `at`, `exit_code`, `notified`, `result` | each task in its call: which statement, what it has done, its notification value |
| `calls`, `clean`, `disturbed` | history |

A call is its sequence of statements (`WriteEEPROM`, `ReadEEPROMData`, as sequences of names), one step
each, since the task of the other priority may come between any two while the caller waits.
`Transfer` is a byte with its interrupt (`ReadCallBack`), `CycleEnds` the end of the chip's write
cycle.  A byte takes 2 us, the interrupt less and a tick 1 ms: an interrupt is served before the next byte
ends, and a wait that has no transfer to wait for, or a status that stays busy, is what times out.

### Run

`eeprom_calls`: sectors of 2 bytes (64 in the chip), a chip of two sectors, a record of 2 bytes (7 in
`data_model.h:87`) across the border, a setting next to it in the same sector; two calls, of one task or of two, the second on whatever the
first left.  What is shown is what `DataModel` takes from the driver: a call that is alone
from an idle line on (`clean`) does what it reports, stores nothing outside of its buffer, and fails
only for a busy chip; and as long as nobody's calls met, nothing stray is in the chip.

Without `clean` TLC refutes each of them: a record that preempts a status wait of a setting's
write leaves the driver in the other's state, and returns `EEPROM_OK` for bytes that were
never written, writes one call's bytes to the other's address, or has the index of one transfer run past
the buffer of the other.  That is what the missing mutex at `EEPROM_25C.c:191` costs.  After a status
wait that timed out, chip select is high and the pull-up keeps answering "busy", so that the
interrupt asks again for ever and the next call does not start from an idle line.

### Proofs (`Eeprom_proofs`)

For any sizes of chip, sector and record, any addresses of record and setting and any number of calls.  The
assumptions are that the chip is a whole number of sectors, that record and setting lie in it, and
that a record is no longer than a sector (7 bytes and 64); a record may lie across one border or
none.

* `TypeCorrect`: `TypeOK`, in every interleaving of the two tasks, by `Types`.  It adds what the type of each
  byte on the line is, and that a call under way has bytes left to write, without which neither the index
  nor the address has a bound.
* `Places`, the lemma the rest goes through: the statements of a call are numbered 1 to 30, and a
  read joins a write at the 15th.  It is proved from the sequences of the model; `\o` is expanded
  nowhere else.
* `CallInv`: a clean call is `Alone`, and at its place p the assertion `At(t, p)` holds.  That is a proof
  outline of the driver: `LineAt` has chip select, the byte under way and the mode it has brought
  the chip into, `FieldsAt` the fields of the structure set so far, `ChipAt` that the chip is ready, writing is enabled and
  the buffer and the sectors before this one are right.  In the transfers the outline follows the interrupt:
  `WritesSector` and `ReadsCells` say, byte by byte, how far the driver's index, the chip's pointer and
  its latch have come together.  None of the four properties below is inductive
  without it, since each is about the end of a transfer of which every byte has to be accounted for.
  One lemma per statement (`AtMemcpy` ... `AtNextSector`) and one per kind of byte (`StatusByte`,
  `LateByte`, `UnprotectByte`, `WriteByte`, `ReadByte`) show that the call gets from each place to the next.
* `StoresInBufferAlways`, `OnlyBusyFailsAlways` and `OkMeansDoneAlways` follow from it; the last is an action
  property, and rests on `RisesStoring`, that the rising edge of chip select stores the latch at the cells of the
  call and at no other.
* `NothingStrayAlways` is inductive together with it: without disturbance each call is clean, and only the end of a
  sector's transaction changes the chip.
* `WholePiecesAlways` joins the driver to `DataModel`: without disturbance every step that changes the chip
  writes one piece of a call, up to the border of the sector, as a whole (`WriteSector` there), and a failed
  transfer changes nothing (`WriteFails`).  It is a property of the proof module; TLC finds it to hold on the instance of `eeprom_calls`.

All properties of `eeprom_calls` are proved.

## Sensors

### State and actions

| variables | in the code |
|---|---|
| `pc`, `sensor_time_out`, `polled` | `I2C_task`, the ticks of the round |
| `SENS_FSM`, `fsm` | `SENS1_FSM`, `SENS2_FSM`; `fsm`, `fsm1`: the transaction of each channel |
| `i2cdata`, `sample` | of which conversion the bytes are that have been read, and those of the last pressure |
| `bus` | START has been sent and STOP has not |
| `present`, `converting`, `data` | the sensor (external) |

| actions | in the code |
|---|---|
| `Loop`, `Poll`, `RoundTimedOut`, `NewRound` | the two loops of `I2C_task`; `Poll` is `vSensFSM` for both channels with the time-out for a sensor that has not taken the command |
| `Tick`, `Unplug`, `Plug` | time and sensors |

Of the flags of the bus those are kept that a sensor has a part in; the others follow inside of the
transaction.  A tick is long for the bus: it passes freely only when all that is left is
to wait; that a task of higher priority holds this one up counts as a fault.  A sensor that was away
comes back in a later round.

### Run

`sensors`: two sensors, four faults (each can go at any point, and the task be held up in
between), time-outs cut to 1 and 5 ticks and a conversion of 2, in the order of the build's 5, 25 and some ms.

The model assumes that a conversion ends.  A sensor that takes the command and keeps its busy
bit would keep `I2C_task` polling without a pause at priority 6 for good: Modbus and menu (5) and the keyboard (4)
never run, and the watchdog, which the WCHNET task feeds at priority 8, does not see it.

Seen without a run: the offsets of the calibration are exchanged at a restart (`ADC.c:615-616` saves that of
`DataBuffer[0]` as `SENSOR1_ZERO`, `ADC.c:633-634` loads it into `DataBuffer[1]`); a calibration takes the
last pressure of a sensor that has failed since; `GetConversionali2c` (`ADC.c:281-294`) reads the slot at `pIndex`
twice and the last slot only when it begins there; `vSetCount` accepts a setting for which
`sensor_timer` has no entry.

### Fairness

Weak fairness of the task as a whole (nothing above it runs for long; what does is a fault) and of the tick, a timer.
No sensor has to be there, come back, or stay.

### Proofs (`Sensors_proofs`)

For any number of sensors, any time-outs and any number of faults:

* `TypeCorrect`: `TypeOK` is inductive as it stands.
* `InStepAlways`: inductive with the types; the proof follows a channel through a poll (`Stays`, `GivenUp`, `Moves`).
* `SamplesCorrect`: by `Fresh`: while a pressure is being read, the bytes that have come are not of an
  earlier round, and a sensor that is there holds a conversion of this one.

Only model-checked: `LowerTasksRun`, `Recovers` (liveness).

## Not modelled

* Keyboard, inputs and outputs: counters and pins of one task.  What was seen: key events go to a queue of
  16 with an endless wait (`hw_lib_din.c:368`), so that the task that also debounces all inputs stops when
  nobody reads it; `xGetDins` takes a remainder (`%=~mask`, `hw_lib_din.c:432`) where it means to clear a bit.
* Display and menu: navigation, texts and drawing are output; of its editors one is in `RegisterMap`.
  A state set by ENTER during the start-up screen is overwritten when the screen ends (`system_init.c:150`).
* Start-up: a sequence that runs once.  `eMBInit` and `eMBTCPInit` are retried without a delay (`mb_task.c:824-855`),
  at a priority above the keyboard; an address of 0, which can be written, makes `eMBInit` fail for good.
* Conversions of the ADC, filters, averages, the controller (`pid.c`): arithmetic on samples, most of it in floating
  point, which TLA+ has no types for.  The mains voltage is cut to a byte (`ADC.c:158`): 256 V read as a few volts.
* Values of coils and inputs, and the bits that requests and answers carry (`mbutils.c:47-84`).
* FreeRTOS, the Ethernet library, the display library, the vendor's peripheral library and start-up code, which are
  nearly all of the repository's lines: third-party code, of which the models take priorities, event groups, notifications and
  the timer daemon's queue as the firmware uses them.
