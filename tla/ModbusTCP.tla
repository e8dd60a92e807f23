------------------------------ MODULE ModbusTCP ------------------------------
(***************************************************************************)
(* The Modbus TCP slave: the socket handler of the WCHNET task             *)
(* (port/porttcp.c), the Modbus task (mb.c with tcp/mbtcp.c) and the event *)
(* group in which the one hands requests and the other answers over.       *)
(*                                                                         *)
(* The group is that of the Modbus stack: DATA_READY is the bit of         *)
(* EV_FRAME_RECEIVED and DATA_SEND that of EV_EXECUTE, so each task can    *)
(* take what was meant for the other.  The WCHNET task outranks the Modbus *)
(* task, both sleep until the next tick with vTaskDelay(1), and the timer  *)
(* daemon, which performs the posts, outranks both.                        *)
(* The Ethernet library and the clients are the environment.               *)
(***************************************************************************)
EXTENDS Integers, Sequences

CONSTANTS
  Socks,        \* number of sockets for connections
  Kinds,        \* the kinds of requests, see KindType
  MaxRequests,  \* bound: how many requests all clients together send
  MaxConnects,  \* bound: how many connections they open
  BufSize,      \* MB_TCP_BUF_SIZE (263 in the build)
  Patient       \* TRUE: clients take turns, wait for the slave and send Modbus only

\* Offsets in a frame, scaled down: the protocol identifier, the length field,
\* the function code (2, 4 and 7 in the build).
MB_TCP_PID  == 0
MB_TCP_LEN  == 1
MB_TCP_FUNC == 2

\* A request: its length, the length its header claims (both with the header),
\* and whether its protocol identifier is that of Modbus.
KindType == [len : MB_TCP_FUNC .. BufSize + 1, claim : MB_TCP_FUNC - 1 .. BufSize + 1,
             pid : BOOLEAN]

ASSUME KindsAssumption == Kinds \subseteq KindType
ASSUME BoundsAssumption == /\ Socks \in Nat \ {0} /\ MaxRequests \in Nat /\ MaxConnects \in Nat
                           /\ BufSize \in Nat /\ MB_TCP_FUNC + 1 < BufSize
                           /\ Patient \in BOOLEAN

VARIABLES
  \* clients and Ethernet library
  asked,          \* the requests sent so far: socket and kind
  current,        \* for each socket the request its client waits for, 0 if none
  unsent,         \* for each socket the characters of it that are still to be sent
  answered,       \* for each request the request whose answer came for it, 0 for garbage
  unasked,        \* a client was sent an answer while it waited for none
  open,           \* the sockets with a connection
  connects,       \* how many connections there were
  intstat,        \* pending interrupts of each socket
  received,       \* what the library holds for each socket
  buffered,       \* the sockets that have been given a receive buffer
  dropped,        \* the requests whose client the slave has dropped
  \* porttcp.c
  aucTCPBuf, usTCPBufPos, outTCPBuf, SocketIdClient,
  netPc, socketid, stat,
  \* mb.c, mbtcp.c
  mbPc,
  ucMBFrame,      \* the pointer has been set
  answer,         \* the request whose answer stands in aucTCPBuf, 0 if none does
  applied,        \* how often the handler has run on each request
  group           \* the bits set in the event group

clientVars == <<asked, current, unsent, answered, unasked, connects>>
libVars    == <<open, intstat, received, buffered, dropped>>
bufVars    == <<aucTCPBuf, usTCPBufPos>>
loopVars   == <<socketid, stat>>
mbVars     == <<ucMBFrame, answer, applied>>
vars == <<clientVars, libVars, bufVars, outTCPBuf, SocketIdClient, netPc, loopVars,
          mbPc, mbVars, group>>

Sockets  == 1 .. Socks
None     == 0
Unanswered == -1
Requests == 1 .. MaxRequests
Slots    == 0 .. BufSize - 1
Noise    == <<0, 0>>

\* A character is a pair: of which request, which position.
Chars    == (0 .. MaxRequests) \X (0 .. BufSize)

DATA_READY == 0
DATA_SEND  == 1
EV_FRAME_RECEIVED == 0
EV_EXECUTE        == 1

-----------------------------------------------------------------------------
Init ==
  /\ asked = <<>> /\ connects = 0
  /\ current = [s \in Sockets |-> 0] /\ unsent = [s \in Sockets |-> <<>>]
  /\ answered = [r \in Requests |-> Unanswered] /\ unasked = FALSE
  /\ applied = [r \in Requests |-> 0] /\ dropped = {}
  /\ open = {} /\ received = [s \in Sockets |-> <<>>] /\ buffered = {}
  /\ intstat = [s \in Sockets |-> {}]
  /\ aucTCPBuf = [i \in Slots |-> Noise] /\ usTCPBufPos = 0 /\ outTCPBuf = 0
  /\ SocketIdClient = None
  /\ netPc = "delay" /\ socketid = 1 /\ stat = {}
  /\ mbPc = "delay" /\ ucMBFrame = FALSE /\ answer = 0
  /\ group = {}

-----------------------------------------------------------------------------
(* The clients.  What they do is seen by the slave at its next tick, when    *)
(* WCHNET_MainTask runs; the library hands data over once the socket has a   *)
(* buffer for it.                                                            *)

\* A patient client asks when nobody is being served and the Modbus task is back
\* at its wait (two ticks after an answer).
MayStart == Patient => mbPc = "event" /\ \A s \in Sockets : current[s] = 0

Connect(s) ==
  /\ netPc = "delay" /\ s \notin open /\ connects < MaxConnects
  /\ intstat[s] = {}
  /\ open' = open \cup {s}
  /\ buffered' = buffered \ {s} /\ received' = [received EXCEPT ![s] = <<>>]
  /\ connects' = connects + 1
  /\ intstat' = [intstat EXCEPT ![s] = {"connect"}]
  /\ UNCHANGED <<asked, current, unsent, answered, unasked, dropped, bufVars, outTCPBuf,
                 SocketIdClient, netPc, loopVars, mbPc, mbVars, group>>

Characters(r, len) == [i \in 1 .. len |-> <<r, i - 1>>]

\* The client sends the first n characters of a new request.
Ask(s, k, n) ==
  /\ netPc = "delay" /\ s \in open \cap buffered /\ current[s] = 0
  /\ Len(asked) < MaxRequests /\ MayStart
  /\ asked' = Append(asked, [sock |-> s, kind |-> k])
  /\ LET r == Len(asked) + 1
     IN  /\ current' = [current EXCEPT ![s] = r]
         /\ received' = [received EXCEPT ![s] = @ \o SubSeq(Characters(r, k.len), 1, n)]
         /\ unsent' = [unsent EXCEPT ![s] = SubSeq(Characters(r, k.len), n + 1, k.len)]
  /\ intstat' = [intstat EXCEPT ![s] = @ \cup {"recv"}]
  /\ UNCHANGED <<answered, unasked, connects, open, buffered, dropped, bufVars, outTCPBuf,
                 SocketIdClient, netPc, loopVars, mbPc, mbVars, group>>

SendRest(s) ==
  /\ netPc = "delay" /\ s \in open /\ unsent[s] # <<>>
  /\ received' = [received EXCEPT ![s] = @ \o unsent[s]]
  /\ unsent' = [unsent EXCEPT ![s] = <<>>]
  /\ intstat' = [intstat EXCEPT ![s] = @ \cup {"recv"}]
  /\ UNCHANGED <<asked, current, answered, unasked, connects, open, buffered, dropped, bufVars,
                 outTCPBuf, SocketIdClient, netPc, loopVars, mbPc, mbVars, group>>

\* A connection is gone: its client forgets the request.
Gone(s) ==
  /\ open' = open \ {s}
  /\ current' = [current EXCEPT ![s] = 0]
  /\ unsent' = [unsent EXCEPT ![s] = <<>>]

\* The client closes the connection, or it times out.  What the library has
\* received it still hands over.
Disconnect(s) ==
  /\ netPc = "delay" /\ s \in open
  /\ Patient => current[s] = 0
  /\ Gone(s)
  /\ intstat' = [intstat EXCEPT ![s] = @ \cup {"disconnect"}]
  /\ UNCHANGED <<asked, answered, unasked, connects, received, buffered, dropped, bufVars, outTCPBuf,
                 SocketIdClient, netPc, loopVars, mbPc, mbVars, group>>

-----------------------------------------------------------------------------
(* The event group.  A task that waits gets the bits when they are set; the  *)
(* ones it waits for are cleared.                                            *)

\* What eMBPoll does with the events it is handed.
Dispatch(bits) == CASE bits = {EV_FRAME_RECEIVED} -> "receive"
                    [] bits = {EV_EXECUTE} -> "execute"
                    [] OTHER -> "delay"

\* The WCHNET task sets a bit; only the Modbus task can be waiting for it.
SetFromNet(b) ==
  CASE mbPc = "event" -> mbPc' = Dispatch(group \cup {b}) /\ group' = {}
    [] mbPc = "sending" /\ b = DATA_SEND -> mbPc' = "delay" /\ group' = group
    [] OTHER -> mbPc' = mbPc /\ group' = group \cup {b}

\* The Modbus task sets a bit; only the WCHNET task can be waiting for it.
SetFromMB(b) ==
  IF netPc = "blocked" /\ b = DATA_READY
    THEN netPc' = "send" /\ group' = group
    ELSE netPc' = netPc /\ group' = group \cup {b}

-----------------------------------------------------------------------------
(* The WCHNET task.                                                          *)

\* A tick wakes both tasks from vTaskDelay(1).
Tick ==
  /\ netPc = "delay" \/ (netPc = "blocked" /\ mbPc = "delay")
  /\ netPc' = IF netPc = "delay" THEN "poll" ELSE netPc
  /\ socketid' = IF netPc = "delay" THEN 1 ELSE socketid
  /\ mbPc' = IF mbPc = "delay" THEN "get" ELSE mbPc
  /\ UNCHANGED <<clientVars, libVars, bufVars, outTCPBuf, SocketIdClient, stat,
                 mbVars, group>>

\* The loop of WCHNET_HandleGlobalInt.
NetSocket ==
  /\ netPc = "poll" /\ socketid \in Sockets
  /\ stat' = intstat[socketid]
  /\ intstat' = [intstat EXCEPT ![socketid] = {}]
  /\ netPc' = IF "recv" \in stat' THEN "recv" ELSE "link"
  /\ UNCHANGED <<clientVars, open, received, buffered, dropped, bufVars, outTCPBuf, SocketIdClient,
                 socketid, mbPc, mbVars, group>>

NetDone ==
  /\ netPc = "poll" /\ socketid \notin Sockets
  /\ netPc' = "delay"
  /\ UNCHANGED <<clientVars, libVars, bufVars, outTCPBuf, SocketIdClient, loopVars, mbPc, mbVars,
                 group>>

\* prvvMBPortReleaseClient.
ReleaseClient(s) ==
  /\ Gone(s)
  /\ received' = [received EXCEPT ![s] = <<>>]
  /\ SocketIdClient' = None
  /\ dropped' = IF current[s] = 0 THEN dropped ELSE dropped \cup {current[s]}

\* The value of the length field, which is arbitrary when the buffer does not
\* start with a header.
ClaimedLength(buf) ==
  LET c == buf[MB_TCP_LEN]
  IN  IF c[2] = MB_TCP_LEN /\ c[1] \in DOMAIN asked THEN {asked[c[1]].kind.claim}
      ELSE MB_TCP_FUNC - 1 .. BufSize + 1

Overflows_Missing(len) == FALSE
Overflows(len) == usTCPBufPos + len >= BufSize

\* aucTCPBuf after WCHNET_SocketRecv at the position.
Stored(data) ==
  [i \in Slots |-> IF i \in usTCPBufPos .. usTCPBufPos + Len(data) - 1 THEN data[i - usTCPBufPos + 1]
                   ELSE aucTCPBuf[i]]

\* SINT_STAT_RECV.
NetReceive ==
  /\ netPc = "recv"
  /\ LET data == received[socketid]
         pos  == usTCPBufPos + Len(data)
     IN  IF Overflows(Len(data))
           THEN /\ ReleaseClient(socketid)
                /\ netPc' = "link"
                /\ UNCHANGED <<bufVars, answer, mbPc, group>>
           ELSE /\ aucTCPBuf' = Stored(data)
                /\ usTCPBufPos' = pos
                /\ answer' = 0
                /\ \E claim \in ClaimedLength(aucTCPBuf') :
                     \/ /\ pos < MB_TCP_FUNC \/ pos < claim
                        /\ received' = [received EXCEPT ![socketid] = <<>>]
                        /\ netPc' = "link"
                        /\ UNCHANGED <<open, current, unsent, SocketIdClient, dropped, mbPc, group>>
                     \/ /\ pos >= MB_TCP_FUNC /\ pos = claim
                        /\ received' = [received EXCEPT ![socketid] = <<>>]
                        /\ SetFromNet(EV_FRAME_RECEIVED)
                        /\ netPc' = "wait"
                        /\ UNCHANGED <<open, current, unsent, SocketIdClient, dropped>>
                     \/ /\ pos >= MB_TCP_FUNC /\ pos > claim
                        /\ ReleaseClient(socketid)
                        /\ netPc' = "link"
                        /\ UNCHANGED <<mbPc, group>>
  /\ UNCHANGED <<asked, answered, unasked, connects, intstat, buffered, outTCPBuf, loopVars,
                 ucMBFrame, applied>>

NetWait_Missing ==
  /\ netPc = "wait" /\ netPc' = "send" /\ group' = group \ {DATA_READY}
  /\ UNCHANGED <<clientVars, libVars, bufVars, outTCPBuf, SocketIdClient, loopVars, mbPc, mbVars>>

\* xEventGroupWaitBits( DATA_READY ).
NetWait ==
  /\ netPc = "wait"
  /\ IF DATA_READY \in group
       THEN netPc' = "send" /\ group' = group \ {DATA_READY}
       ELSE netPc' = "blocked" /\ UNCHANGED group
  /\ UNCHANGED <<clientVars, libVars, bufVars, outTCPBuf, SocketIdClient, loopVars, mbPc, mbVars>>

SendSignal_OnSuccess == IF socketid \in open THEN SetFromNet(DATA_SEND) ELSE UNCHANGED <<mbPc, group>>
SendSignal == SetFromNet(DATA_SEND)

\* WCHNET_SocketSend, whose every failure releases the connection, and
\* DATA_SEND. The open connection of a patient client takes the answer.
NetSend ==
  /\ netPc = "send"
  /\ LET r == current[socketid]
     IN  \/ /\ socketid \in open
            /\ unasked' = (unasked \/ r = 0)
            /\ answered' = IF r = 0 THEN answered ELSE [answered EXCEPT ![r] = outTCPBuf]
            /\ current' = [current EXCEPT ![socketid] = 0]
            /\ UNCHANGED <<unsent, open, received, SocketIdClient, dropped>>
         \/ /\ Patient => socketid \notin open
            /\ ReleaseClient(socketid)
            /\ UNCHANGED <<answered, unasked>>
  /\ SendSignal
  /\ netPc' = "link"
  /\ UNCHANGED <<asked, connects, intstat, buffered, bufVars, outTCPBuf, loopVars, mbVars>>

\* SINT_STAT_CONNECT, SINT_STAT_DISCONNECT, SINT_STAT_TIM_OUT, and on to the
\* next socket.
NetLink ==
  /\ netPc = "link"
  /\ LET take == "connect" \in stat /\ SocketIdClient = None
     IN  /\ buffered' = IF take THEN buffered \cup {socketid} ELSE buffered
         /\ SocketIdClient' = IF "disconnect" \in stat THEN None
                              ELSE IF take THEN socketid ELSE SocketIdClient
  /\ socketid' = socketid + 1
  /\ netPc' = "poll"
  /\ UNCHANGED <<clientVars, open, intstat, received, dropped, bufVars, outTCPBuf, stat, mbPc,
                 mbVars, group>>

NetTask == NetSocket \/ NetDone \/ NetReceive \/ NetWait \/ NetSend \/ NetLink

-----------------------------------------------------------------------------
(* The Modbus task, which runs while the WCHNET task sleeps or waits.        *)

MBRuns == netPc \in {"delay", "blocked"}

\* xMBPortEventGet.
MBEventGet ==
  /\ MBRuns /\ mbPc = "get"
  /\ mbPc' = IF group = {} THEN "event" ELSE Dispatch(group)
  /\ group' = {}
  /\ UNCHANGED <<clientVars, libVars, bufVars, outTCPBuf, SocketIdClient, netPc, loopVars, mbVars>>

\* xMBTCPPortGetRequest resets the position.
GetRequest_NoReset == UNCHANGED usTCPBufPos
GetRequest == usTCPBufPos' = 0

\* eMBTCPReceive.
MBReceive ==
  /\ MBRuns /\ mbPc = "receive"
  /\ GetRequest
  /\ LET c == aucTCPBuf[MB_TCP_PID]
     IN  IF c[1] \in DOMAIN asked /\ asked[c[1]].kind.pid
           THEN ucMBFrame' = TRUE /\ mbPc' = "post"
           ELSE UNCHANGED ucMBFrame /\ mbPc' = "delay"
  /\ UNCHANGED <<clientVars, libVars, aucTCPBuf, outTCPBuf, SocketIdClient, netPc, loopVars,
                 answer, applied, group>>

MBPost_OtherAddress ==
  /\ MBRuns /\ mbPc = "post"
  /\ mbPc' = "delay"
  /\ UNCHANGED <<clientVars, libVars, bufVars, outTCPBuf, SocketIdClient, netPc, loopVars, mbVars,
                 group>>

\* eMBPoll: the pseudo address is always ours.
MBPost ==
  /\ MBRuns /\ mbPc = "post"
  /\ SetFromMB(EV_EXECUTE)
  /\ mbPc' = "delay"
  /\ UNCHANGED <<clientVars, libVars, bufVars, outTCPBuf, SocketIdClient, loopVars, mbVars>>

\* EV_EXECUTE: the handler executes what is in the buffer and answers in place.
\* Before the first request ucRcvAddress is still 0, the broadcast address, and
\* what the null pointer ucMBFrame points to is no function code: nothing happens.
MBExecute ==
  /\ MBRuns /\ mbPc = "execute"
  /\ IF ucMBFrame
       THEN LET r == aucTCPBuf[MB_TCP_FUNC][1]
            IN  /\ answer' = IF aucTCPBuf[MB_TCP_PID][1] = r THEN r ELSE 0
                /\ applied' = [q \in Requests |->
                                 IF q = r /\ applied[q] < 2 THEN applied[q] + 1 ELSE applied[q]]
                /\ mbPc' = "copy"
       ELSE mbPc' = "delay" /\ UNCHANGED <<answer, applied>>
  /\ UNCHANGED <<clientVars, libVars, bufVars, outTCPBuf, SocketIdClient, netPc, loopVars,
                 ucMBFrame, group>>

\* eMBTCPSend, xMBTCPPortSendResponse: copy the answer, ...
MBCopy ==
  /\ MBRuns /\ mbPc = "copy"
  /\ outTCPBuf' = answer
  /\ mbPc' = "ready"
  /\ UNCHANGED <<clientVars, libVars, bufVars, SocketIdClient, netPc, loopVars, mbVars, group>>

\* ... announce it, ...
MBReady ==
  /\ MBRuns /\ mbPc = "ready"
  /\ SetFromMB(DATA_READY)
  /\ mbPc' = "wait"
  /\ UNCHANGED <<clientVars, libVars, bufVars, outTCPBuf, SocketIdClient, loopVars, mbVars>>

\* ... and wait until it is sent.
MBWait ==
  /\ MBRuns /\ mbPc = "wait"
  /\ mbPc' = IF DATA_SEND \in group THEN "delay" ELSE "sending"
  /\ group' = group \ {DATA_SEND}
  /\ UNCHANGED <<clientVars, libVars, bufVars, outTCPBuf, SocketIdClient, netPc, loopVars, mbVars>>

MBTask == MBEventGet \/ MBReceive \/ MBPost \/ MBExecute \/ MBCopy \/ MBReady \/ MBWait

-----------------------------------------------------------------------------
\* The WCHNET task feeds the watchdog.  Waiting for an answer that nobody prepares
\* it does not, and the controller restarts.
WatchdogReset ==
  /\ netPc = "blocked" /\ mbPc = "event"
  /\ open' = {} /\ received' = [s \in Sockets |-> <<>>] /\ buffered' = {}
  /\ intstat' = [s \in Sockets |-> {}]
  /\ aucTCPBuf' = [i \in Slots |-> Noise] /\ usTCPBufPos' = 0 /\ outTCPBuf' = 0
  /\ SocketIdClient' = None
  /\ netPc' = "delay" /\ socketid' = 1 /\ stat' = {}
  /\ mbPc' = "delay" /\ ucMBFrame' = FALSE /\ answer' = 0
  /\ group' = {}
  /\ current' = [s \in Sockets |-> 0] /\ unsent' = [s \in Sockets |-> <<>>]
  /\ UNCHANGED <<asked, answered, unasked, connects, dropped, applied>>

Clients == \E s \in Sockets :
             \/ Connect(s) \/ Disconnect(s) \/ SendRest(s)
             \/ \E k \in Kinds, n \in 1 .. BufSize + 1 : n <= k.len /\ Ask(s, k, n)

Next == Clients \/ Tick \/ NetTask \/ MBTask \/ WatchdogReset

Spec == Init /\ [][Next]_vars

\* The tick is a timer and the WCHNET task runs when it may.  It sleeps most of a
\* tick, so that the Modbus task gets on (SF: though every tick interrupts it),
\* and a client ends what it began (SF: the slave sees it when that task sleeps).
FairSpec == /\ Spec
            /\ WF_vars(Tick) /\ WF_vars(NetTask) /\ WF_vars(WatchdogReset)
            /\ SF_vars(MBTask)
            /\ \A s \in Sockets : SF_vars(SendRest(s))

-----------------------------------------------------------------------------
(* Properties.                                                               *)

NetPcs == {"delay", "poll", "recv", "wait", "blocked", "send", "link"}
MBPcs  == {"delay", "get", "event", "receive", "post", "execute", "copy", "ready", "wait", "sending"}

Stats  == {"connect", "recv", "disconnect"}

\* The characters clients have sent so far.
SentChars == (DOMAIN asked) \X (0 .. BufSize)

ClientTypeOK ==
  /\ asked \in Seq([sock : Sockets, kind : Kinds]) /\ Len(asked) <= MaxRequests
  /\ connects \in 0 .. MaxConnects
  /\ current \in [Sockets -> 0 .. MaxRequests]
  /\ unsent \in [Sockets -> Seq(SentChars)] /\ received \in [Sockets -> Seq(SentChars)]
  /\ answered \in [Requests -> Unanswered .. MaxRequests] /\ applied \in [Requests -> 0 .. 2]

BufTypeOK ==
  /\ aucTCPBuf \in [Slots -> Chars] /\ usTCPBufPos \in Slots
  /\ outTCPBuf \in 0 .. MaxRequests /\ answer \in 0 .. MaxRequests

SocketTypeOK ==
  /\ open \subseteq Sockets /\ buffered \subseteq Sockets /\ dropped \subseteq Requests
  /\ intstat \in [Sockets -> SUBSET Stats] /\ stat \subseteq Stats
  /\ SocketIdClient \in Sockets \cup {None}
  /\ socketid \in 1 .. Socks + 1

TaskTypeOK ==
  /\ netPc \in NetPcs /\ mbPc \in MBPcs
  /\ group \subseteq {DATA_READY, DATA_SEND}

FlagTypeOK == unasked \in BOOLEAN /\ ucMBFrame \in BOOLEAN

\* Ranges: the position stays inside aucTCPBuf, what is received has been sent,
\* the event group holds the two bits only.
TypeOK == ClientTypeOK /\ BufTypeOK /\ SocketTypeOK /\ TaskTypeOK /\ FlagTypeOK

\* A client only ever receives the answer to the request it waits for.
AnswerMatches ==
  /\ \A r \in Requests : answered[r] \in {Unanswered, r}
  /\ ~unasked

\* What the WCHNET task announced to the stack the stack has taken before the
\* answer is sent ("If complete notify the protocol stack").
RequestTaken == netPc = "send" => usTCPBufPos = 0

\* The two tasks never wait for each other (and the watchdog never bites), unless
\* somebody sent a frame of another protocol.
NoMutualWait ==
  (netPc = "blocked" /\ mbPc = "event") => \E r \in DOMAIN asked : ~asked[r].kind.pid

\* The Modbus task waits for an answer to go out only while there is one to send:
\* the next DATA_READY or the WCHNET task at its send will wake it.
SendingHasAnswer == mbPc = "sending" => DATA_READY \in group \/ netPc = "send"

\* A client is dropped for what it sent itself ("In case of an error drop the client",
\* porttcp.c:169).  Not so: the buffer keeps the rest of another's request.
DropIsLocal ==
  [][\A r \in dropped' \ dropped :
       asked[r].kind.claim # asked[r].kind.len \/ asked[r].kind.len >= BufSize]_vars

\* With patient clients the slave is what ModbusTransaction says: each request is
\* applied once, then answered, to its client.
Demand == [adr |-> "own", ok |-> TRUE]
Transaction == INSTANCE ModbusTransaction WITH
  Kinds <- {Demand},
  MaxFrames <- MaxRequests,
  sent <- [r \in DOMAIN asked |-> Demand],
  applied <- applied,
  answer <- IF asked # <<>> /\ answered[Len(asked)] = Len(asked) THEN "complete" ELSE "none"
Implements == Transaction!Spec
=============================================================================
