-------------------------- MODULE ModbusTCP_proofs --------------------------
(* Proofs about ModbusTCP for every number of sockets: the safety          *)
(* invariants of any clients first, then those of patient clients, for     *)
(* which the slave takes the steps of ModbusTransaction.                   *)
EXTENDS ModbusTCP, SequenceTheorems, TLAPS

\* While a socket is being handled socketid is one.
AtSocket == netPc \in {"recv", "wait", "blocked", "send", "link"} => socketid \in Sockets

TypeInv == TypeOK /\ AtSocket

LEMMA Constants ==
  /\ BufSize \in Nat /\ BufSize > 3 /\ MaxRequests \in Nat /\ MaxConnects \in Nat
  /\ Socks \in Nat /\ Socks >= 1
  /\ \A k \in Kinds : k.len \in 1 .. BufSize + 1
  /\ MB_TCP_PID \in Slots /\ MB_TCP_LEN \in Slots /\ MB_TCP_FUNC \in Slots
<1>1. /\ BufSize \in Nat /\ BufSize > 3 /\ MaxRequests \in Nat /\ MaxConnects \in Nat
      /\ Socks \in Nat /\ Socks >= 1
  BY BoundsAssumption DEF MB_TCP_FUNC
<1>2. \A k \in Kinds : k.len \in 1 .. BufSize + 1
  BY <1>1, KindsAssumption DEF KindType, MB_TCP_FUNC
<1>3. MB_TCP_PID \in Slots /\ MB_TCP_LEN \in Slots /\ MB_TCP_FUNC \in Slots
  BY <1>1 DEF Slots, MB_TCP_PID, MB_TCP_LEN, MB_TCP_FUNC
<1> QED
  BY <1>1, <1>2, <1>3

LEMMA CharTypes ==
  /\ Noise \in Chars
  /\ \A c \in Chars : c[1] \in 0 .. MaxRequests
BY Constants DEF Noise, Chars

LEMMA SentCharsAreChars == ClientTypeOK => SentChars \subseteq Chars
<1> SUFFICES ASSUME ClientTypeOK PROVE SentChars \subseteq Chars
  OBVIOUS
<1>1. DOMAIN asked \subseteq 0 .. MaxRequests
  BY Constants DEF ClientTypeOK
<1> QED
  BY <1>1 DEF SentChars, Chars

\* A request and its pieces are made of characters of that request.
LEMMA PieceType ==
  ASSUME NEW S, NEW r, NEW k \in Kinds, NEW n \in Nat,
         {r} \X (0 .. BufSize) \subseteq S, n <= k.len
  PROVE  /\ SubSeq(Characters(r, k.len), 1, n) \in Seq(S)
         /\ SubSeq(Characters(r, k.len), n + 1, k.len) \in Seq(S)
<1>1. k.len \in 1 .. BufSize + 1
  BY Constants
<1>2. \A i \in 1 .. k.len : Characters(r, k.len)[i] \in S
  BY <1>1, Constants DEF Characters
<1>3. n \in Int /\ 1 \in Int /\ n + 1 \in Int /\ k.len \in Int
  BY <1>1, Constants
<1>4. \A i \in 1 .. n : Characters(r, k.len)[i] \in S
  BY <1>1, <1>2, Constants
<1>5. \A i \in n + 1 .. k.len : Characters(r, k.len)[i] \in S
  BY <1>1, <1>2, Constants
<1>6. SubSeq(Characters(r, k.len), 1, n) \in Seq(S)
  BY <1>3, <1>4, SubSeqProperties
<1>7. SubSeq(Characters(r, k.len), n + 1, k.len) \in Seq(S)
  BY <1>3, <1>5, SubSeqProperties
<1> QED
  BY <1>6, <1>7

LEMMA ExceptType ==
  ASSUME NEW S, NEW T, NEW f \in [S -> T], NEW i, NEW v \in T
  PROVE  [f EXCEPT ![i] = v] \in [S -> T]
OBVIOUS

LEMMA TypeInvInit == Init => TypeInv
<1> SUFFICES ASSUME Init PROVE TypeInv
  OBVIOUS
<1>1. ClientTypeOK
  <2>1. /\ asked \in Seq([sock : Sockets, kind : Kinds]) /\ Len(asked) = 0
        /\ \A S : <<>> \in Seq(S)
    BY EmptySeq DEF Init
  <2> QED
    BY <2>1, Constants DEF Init, ClientTypeOK, Unanswered
<1>2. BufTypeOK
  BY Constants, CharTypes DEF Init, BufTypeOK, Slots
<1>3. SocketTypeOK
  BY Constants DEF Init, SocketTypeOK, Sockets, None
<1>4. TaskTypeOK
  BY DEF Init, TaskTypeOK, NetPcs, MBPcs
<1>5. FlagTypeOK
  BY Zenon DEF Init, FlagTypeOK
<1>6. AtSocket
  BY DEF Init, AtSocket
<1> QED
  BY <1>1, <1>2, <1>3, <1>4, <1>5, <1>6 DEF TypeInv, TypeOK

LEMMA ClientTypeNext == TypeInv /\ [Next]_vars => ClientTypeOK'
<1> SUFFICES ASSUME TypeInv, [Next]_vars PROVE ClientTypeOK'
  OBVIOUS
<1> USE DEF clientVars, libVars, bufVars, loopVars, mbVars
<1>a. ClientTypeOK /\ BufTypeOK
  BY DEF TypeInv, TypeOK
<1>b. \A S : <<>> \in Seq(S)
  BY EmptySeq
<1>c. UNCHANGED asked => SentChars' = SentChars
  BY DEF SentChars
<1>1. ASSUME NEW s \in Sockets, Connect(s) PROVE ClientTypeOK'
  <2>1. received' \in [Sockets -> Seq(SentChars)]
    BY <1>a, <1>b, <1>1 DEF Connect, ClientTypeOK
  <2>2. connects' \in 0 .. MaxConnects
    BY <1>a, <1>1, Constants DEF Connect, ClientTypeOK
  <2> QED
    BY <1>a, <1>c, <1>1, <2>1, <2>2 DEF Connect, ClientTypeOK
<1>2. ASSUME NEW s \in Sockets, NEW k \in Kinds, NEW n \in 1 .. BufSize + 1, n <= k.len, Ask(s, k, n)
      PROVE  ClientTypeOK'
  <2> DEFINE r == Len(asked) + 1
  <2>1. Len(asked) \in Nat /\ r \in 1 .. MaxRequests
    BY <1>a, <1>2, Constants DEF Ask, ClientTypeOK
  <2>2. /\ asked' \in Seq([sock : Sockets, kind : Kinds]) /\ Len(asked') = r
        /\ DOMAIN asked' = 1 .. r /\ DOMAIN asked = 1 .. Len(asked)
    BY <1>a, <1>2 DEF Ask, ClientTypeOK
  <2>3. {r} \X (0 .. BufSize) \subseteq SentChars' /\ SentChars \subseteq SentChars'
    BY <2>1, <2>2 DEF SentChars
  <2> HIDE DEF r
  <2>4. \A t \in Sockets : received[t] \in Seq(SentChars') /\ unsent[t] \in Seq(SentChars')
    BY <1>a, <2>3, SeqMonotonic DEF ClientTypeOK
  <2>5. n \in Nat
    BY <1>2, Constants
  <2>6. /\ SubSeq(Characters(r, k.len), 1, n) \in Seq(SentChars')
        /\ SubSeq(Characters(r, k.len), n + 1, k.len) \in Seq(SentChars')
    BY <1>2, <2>3, <2>5, PieceType
  <2>7. received[s] \o SubSeq(Characters(r, k.len), 1, n) \in Seq(SentChars')
    BY <1>2, <2>4, <2>6, ConcatProperties
  <2>8. received' \in [Sockets -> Seq(SentChars')]
    BY <1>a, <1>2, <2>4, <2>7 DEF Ask, ClientTypeOK, r
  <2>9. unsent' \in [Sockets -> Seq(SentChars')]
    BY <1>a, <1>2, <2>4, <2>6 DEF Ask, ClientTypeOK, r
  <2>10. current' \in [Sockets -> 0 .. MaxRequests]
    BY <1>a, <1>2, <2>1, Constants DEF Ask, ClientTypeOK, r
  <2>11. Len(asked') <= MaxRequests
    <3> MaxRequests \in Nat
      BY Constants
    <3> QED
      BY <2>1, <2>2
  <2>12. UNCHANGED <<connects, answered, applied>>
    BY <1>2 DEF Ask
  <2> QED
    BY <1>a, <2>2, <2>8, <2>9, <2>10, <2>11, <2>12 DEF ClientTypeOK
<1>3. ASSUME NEW s \in Sockets, SendRest(s) PROVE ClientTypeOK'
  <2>1. received[s] \o unsent[s] \in Seq(SentChars)
    BY <1>a, <1>3, ConcatProperties DEF ClientTypeOK
  <2>2. received' \in [Sockets -> Seq(SentChars)] /\ unsent' \in [Sockets -> Seq(SentChars)]
    BY <1>a, <1>b, <1>3, <2>1 DEF SendRest, ClientTypeOK
  <2> QED
    BY <1>a, <1>c, <1>3, <2>2 DEF SendRest, ClientTypeOK
<1>4. ASSUME NEW s, Gone(s)
      PROVE  current' \in [Sockets -> 0 .. MaxRequests] /\ unsent' \in [Sockets -> Seq(SentChars)]
  <2>1. current \in [Sockets -> 0 .. MaxRequests] /\ unsent \in [Sockets -> Seq(SentChars)]
    BY <1>a DEF ClientTypeOK
  <2>2. 0 \in 0 .. MaxRequests /\ <<>> \in Seq(SentChars)
    BY <1>b, Constants
  <2>3. current' = [current EXCEPT ![s] = 0] /\ unsent' = [unsent EXCEPT ![s] = <<>>]
    BY <1>4 DEF Gone
  <2>4. [current EXCEPT ![s] = 0] \in [Sockets -> 0 .. MaxRequests]
    BY <2>1, <2>2, ExceptType
  <2>5. [unsent EXCEPT ![s] = <<>>] \in [Sockets -> Seq(SentChars)]
    BY <2>1, <2>2, ExceptType
  <2> QED
    BY <2>3, <2>4, <2>5
<1>5. ASSUME NEW s \in Sockets, Disconnect(s) PROVE ClientTypeOK'
  BY <1>a, <1>c, <1>4, <1>5 DEF Disconnect, ClientTypeOK
<1>6. CASE NetReceive
  <2>1. \A s : received' = [received EXCEPT ![s] = <<>>] => received' \in [Sockets -> Seq(SentChars)]
    BY <1>a, <1>b DEF ClientTypeOK
  <2>2. \E s : received' = [received EXCEPT ![s] = <<>>]
    BY <1>6 DEF NetReceive, ReleaseClient
  <2>3. (\E s : Gone(s)) \/ UNCHANGED <<current, unsent>>
    BY <1>6 DEF NetReceive, ReleaseClient
  <2>4. current' \in [Sockets -> 0 .. MaxRequests] /\ unsent' \in [Sockets -> Seq(SentChars)]
    BY <1>a, <1>4, <2>3 DEF ClientTypeOK
  <2>5. UNCHANGED <<asked, connects, answered, applied>>
    BY <1>6 DEF NetReceive
  <2> QED
    BY <1>a, <1>c, <2>1, <2>2, <2>4, <2>5 DEF ClientTypeOK
<1>7. CASE NetSend
  <2>0. \/ /\ answered' = IF current[socketid] = 0 THEN answered
                         ELSE [answered EXCEPT ![current[socketid]] = outTCPBuf]
           /\ current' = [current EXCEPT ![socketid] = 0]
           /\ UNCHANGED <<unsent, received>>
        \/ ReleaseClient(socketid) /\ UNCHANGED answered
    BY <1>7 DEF NetSend
  <2>1. CASE /\ answered' = IF current[socketid] = 0 THEN answered
                           ELSE [answered EXCEPT ![current[socketid]] = outTCPBuf]
             /\ current' = [current EXCEPT ![socketid] = 0]
             /\ UNCHANGED <<unsent, received>>
    <3>1. current' \in [Sockets -> 0 .. MaxRequests]
      <4>1. current' = [current EXCEPT ![socketid] = 0]
        BY <2>1
      <4>2. current \in [Sockets -> 0 .. MaxRequests] /\ 0 \in 0 .. MaxRequests
        BY <1>a, Constants DEF ClientTypeOK
      <4> QED
        BY <4>1, <4>2, ExceptType
    <3>2. answered' \in [Requests -> Unanswered .. MaxRequests]
      <4>1. \/ answered' = answered
            \/ answered' = [answered EXCEPT ![current[socketid]] = outTCPBuf]
        BY <2>1
      <4>2. /\ answered \in [Requests -> Unanswered .. MaxRequests]
            /\ outTCPBuf \in Unanswered .. MaxRequests
        BY <1>a, Constants DEF ClientTypeOK, BufTypeOK, Unanswered
      <4> QED
        BY <4>1, <4>2, ExceptType
    <3>3. UNCHANGED <<asked, connects, unsent, received, applied>>
      BY <1>7, <2>1 DEF NetSend
    <3> QED
      BY <1>a, <1>c, <3>1, <3>2, <3>3 DEF ClientTypeOK
  <2>2. CASE ReleaseClient(socketid) /\ UNCHANGED answered
    <3>1. Gone(socketid) /\ received' = [received EXCEPT ![socketid] = <<>>]
      BY <2>2 DEF ReleaseClient
    <3>2. received' \in [Sockets -> Seq(SentChars)]
      BY <1>a, <1>b, <3>1 DEF ClientTypeOK
    <3>3. UNCHANGED <<asked, connects, answered, applied>>
      BY <1>7, <2>2 DEF NetSend
    <3> QED
      BY <1>a, <1>c, <1>4, <3>1, <3>2, <3>3 DEF ClientTypeOK
  <2> QED
    BY <2>0, <2>1, <2>2
<1>8. CASE MBExecute
  <2>1. applied' \in [Requests -> 0 .. 2]
    <3>1. CASE UNCHANGED applied
      BY <1>a, <3>1 DEF ClientTypeOK
    <3>2. ASSUME NEW r, applied' = [q \in Requests |-> IF q = r /\ applied[q] < 2 THEN applied[q] + 1
                                                       ELSE applied[q]]
          PROVE  applied' \in [Requests -> 0 .. 2]
      <4>1. \A q \in Requests : applied[q] \in 0 .. 2
        BY <1>a DEF ClientTypeOK
      <4> QED
        BY <3>2, <4>1
    <3> QED
      BY <1>8, <3>1, <3>2 DEF MBExecute
  <2> QED
    BY <1>a, <1>c, <1>8, <2>1 DEF MBExecute, ClientTypeOK
<1>9. CASE WatchdogReset
  <2>1. /\ current' \in [Sockets -> 0 .. MaxRequests]
        /\ unsent' \in [Sockets -> Seq(SentChars)] /\ received' \in [Sockets -> Seq(SentChars)]
    BY <1>b, <1>9, Constants DEF WatchdogReset
  <2> QED
    BY <1>a, <1>c, <1>9, <2>1 DEF WatchdogReset, ClientTypeOK
<1>10. CASE \/ Tick \/ NetSocket \/ NetDone \/ NetWait \/ NetLink
            \/ MBEventGet \/ MBReceive \/ MBPost \/ MBCopy \/ MBReady \/ MBWait \/ UNCHANGED vars
  <2>1. UNCHANGED <<asked, connects, current, unsent, received, answered, applied>>
    BY <1>10 DEF Tick, NetSocket, NetDone, NetWait, NetLink, MBEventGet, MBReceive, MBPost, MBCopy,
         MBReady, MBWait, vars
  <2> QED
    BY <1>a, <1>c, <2>1 DEF ClientTypeOK
<1> QED
  BY <1>1, <1>2, <1>3, <1>5, <1>6, <1>7, <1>8, <1>9, <1>10 DEF Next, Clients, NetTask, MBTask


LEMMA BufTypeNext == TypeInv /\ [Next]_vars => BufTypeOK'
<1> SUFFICES ASSUME TypeInv, [Next]_vars PROVE BufTypeOK'
  OBVIOUS
<1> USE DEF clientVars, libVars, bufVars, loopVars, mbVars
<1>a. ClientTypeOK /\ BufTypeOK /\ AtSocket
  BY DEF TypeInv, TypeOK
<1>1. CASE NetReceive
  <2>1. CASE UNCHANGED <<aucTCPBuf, usTCPBufPos, answer>>
    BY <1>a, <1>1, <2>1 DEF NetReceive, BufTypeOK
  <2>2. CASE /\ ~Overflows(Len(received[socketid]))
             /\ aucTCPBuf' = Stored(received[socketid])
             /\ usTCPBufPos' = usTCPBufPos + Len(received[socketid])
             /\ answer' = 0
    <3>1. socketid \in Sockets
      BY <1>a, <1>1 DEF NetReceive, AtSocket
    <3>2. received[socketid] \in Seq(Chars)
      BY <1>a, <3>1, SentCharsAreChars, SeqMonotonic DEF ClientTypeOK
    <3>3. /\ Len(received[socketid]) \in Nat
          /\ \A i \in 1 .. Len(received[socketid]) : received[socketid][i] \in Chars
      BY <3>2, LenProperties, ElementOfSeq
    <3>4. usTCPBufPos' \in Slots
      BY <1>a, <2>2, <3>3, Constants DEF Overflows, BufTypeOK, Slots
    <3>5. aucTCPBuf' \in [Slots -> Chars]
      <4>1. usTCPBufPos \in Int /\ DOMAIN aucTCPBuf = Slots /\ \A i \in Slots : i \in Int /\ aucTCPBuf[i] \in Chars
        BY <1>a, Constants DEF BufTypeOK, Slots
      <4>2. \A i \in Slots : i \in usTCPBufPos .. usTCPBufPos + Len(received[socketid]) - 1
              => received[socketid][i - usTCPBufPos + 1] \in Chars
        BY <3>3, <4>1
      <4> QED
        BY <2>2, <4>1, <4>2 DEF Stored
    <3> QED
      BY <1>a, <1>1, <2>2, <3>4, <3>5, Constants DEF NetReceive, BufTypeOK
  <2>3. CASE Overflows(Len(received[socketid]))
    BY <1>1, <2>1, <2>3 DEF NetReceive
  <2>4. CASE ~Overflows(Len(received[socketid]))
    <3>1. aucTCPBuf' = Stored(received[socketid])
      BY <1>1, <2>4, Zenon DEF NetReceive
    <3>2. usTCPBufPos' = usTCPBufPos + Len(received[socketid]) /\ answer' = 0
      BY <1>1, <2>4, Zenon DEF NetReceive
    <3> QED
      BY <2>2, <2>4, <3>1, <3>2, Zenon
  <2> QED
    BY <2>3, <2>4
<1>2. CASE MBReceive
  BY <1>a, <1>2, Constants DEF MBReceive, GetRequest, BufTypeOK, Slots
<1>3. CASE MBExecute
  <2>1. aucTCPBuf[MB_TCP_FUNC][1] \in 0 .. MaxRequests
    BY <1>a, Constants, CharTypes DEF BufTypeOK
  <2>2. answer' \in 0 .. MaxRequests
    BY <1>a, <1>3, <2>1, Constants DEF MBExecute, BufTypeOK
  <2> QED
    BY <1>a, <1>3, <2>2 DEF MBExecute, BufTypeOK
<1>4. CASE MBCopy
  BY <1>a, <1>4 DEF MBCopy, BufTypeOK
<1>5. CASE WatchdogReset
  BY <1>5, Constants, CharTypes DEF WatchdogReset, BufTypeOK, Slots
<1>6. CASE \/ Clients \/ Tick \/ NetSocket \/ NetDone \/ NetWait \/ NetSend \/ NetLink
           \/ MBEventGet \/ MBPost \/ MBReady \/ MBWait \/ UNCHANGED vars
  <2>1. UNCHANGED <<aucTCPBuf, usTCPBufPos, outTCPBuf, answer>>
    BY <1>6 DEF Clients, Connect, Disconnect, SendRest, Ask, Tick, NetSocket, NetDone, NetWait, NetSend,
         NetLink, MBEventGet, MBPost, MBReady, MBWait, vars
  <2> QED
    BY <1>a, <2>1 DEF BufTypeOK
<1> QED
  BY <1>1, <1>2, <1>3, <1>4, <1>5, <1>6 DEF Next, NetTask, MBTask

LEMMA SocketTypeNext == TypeInv /\ [Next]_vars => SocketTypeOK'
<1> SUFFICES ASSUME TypeInv, [Next]_vars PROVE SocketTypeOK'
  OBVIOUS
<1> USE DEF SocketTypeOK, clientVars, libVars, bufVars, loopVars, mbVars
<1>a. SocketTypeOK /\ ClientTypeOK /\ AtSocket
  BY DEF TypeInv, TypeOK
<1>1. ASSUME NEW s \in Sockets, Connect(s) PROVE SocketTypeOK'
  BY <1>a, <1>1 DEF Connect, Stats
<1>2. ASSUME NEW s \in Sockets, NEW k, NEW n, Ask(s, k, n) PROVE SocketTypeOK'
  BY <1>a, <1>2 DEF Ask, Stats
<1>3. ASSUME NEW s \in Sockets, SendRest(s) \/ Disconnect(s) PROVE SocketTypeOK'
  <2>1. \E e \in Stats : intstat' = [intstat EXCEPT ![s] = @ \cup {e}]
    BY <1>3 DEF SendRest, Disconnect, Stats
  <2>2. intstat' \in [Sockets -> SUBSET Stats]
    BY <1>a, <2>1
  <2>3. UNCHANGED <<buffered, dropped, stat, SocketIdClient, socketid>> /\ open' \subseteq open
    BY <1>3 DEF SendRest, Disconnect, Gone
  <2> QED
    BY <1>a, <2>2, <2>3
<1>4. CASE NetSocket
  BY <1>a, <1>4 DEF NetSocket
<1>5. CASE NetReceive \/ NetSend
  <2>1. socketid \in Sockets
    BY <1>a, <1>5 DEF NetReceive, NetSend, AtSocket
  <2>2. current[socketid] \in 0 .. MaxRequests
    BY <1>a, <2>1 DEF ClientTypeOK
  <2>3. ReleaseClient(socketid) => /\ open' \subseteq Sockets /\ SocketIdClient' \in Sockets \cup {None}
                                   /\ dropped' \subseteq Requests
    <3> SUFFICES ASSUME ReleaseClient(socketid)
                 PROVE  /\ open' \subseteq Sockets /\ SocketIdClient' \in Sockets \cup {None}
                        /\ dropped' \subseteq Requests
      OBVIOUS
    <3>1. open' \subseteq Sockets /\ SocketIdClient' \in Sockets \cup {None}
      BY <1>a DEF ReleaseClient, Gone
    <3>2. dropped' = dropped \/ (current[socketid] # 0 /\ dropped' = dropped \cup {current[socketid]})
      BY DEF ReleaseClient
    <3>3. dropped' \subseteq Requests
      <4>1. current[socketid] # 0 => current[socketid] \in Requests
        BY <2>2, Constants DEF Requests
      <4>2. dropped \subseteq Requests
        BY <1>a
      <4> QED
        BY <3>2, <4>1, <4>2
    <3> QED
      BY <3>1, <3>3
  <2>4. ReleaseClient(socketid) \/ UNCHANGED <<open, SocketIdClient, dropped>>
    BY <1>5 DEF NetReceive, NetSend
  <2>5. UNCHANGED <<intstat, buffered, socketid, stat>>
    BY <1>5 DEF NetReceive, NetSend
  <2> QED
    BY <1>a, <2>3, <2>4, <2>5
<1>6. CASE NetLink
  <2>1. socketid \in Sockets
    BY <1>a, <1>6 DEF NetLink, AtSocket
  <2>2. socketid' \in 1 .. Socks + 1
    BY <1>6, <2>1, Constants DEF NetLink, Sockets
  <2>3. buffered' \subseteq Sockets /\ SocketIdClient' \in Sockets \cup {None}
    BY <1>a, <1>6, <2>1 DEF NetLink
  <2> QED
    BY <1>a, <1>6, <2>2, <2>3 DEF NetLink
<1>7. CASE Tick
  BY <1>a, <1>7, Constants DEF Tick
<1>8. CASE WatchdogReset
  BY <1>a, <1>8, Constants DEF WatchdogReset
<1>9. CASE NetDone \/ NetWait \/ MBTask \/ UNCHANGED vars
  <2>1. UNCHANGED <<open, intstat, buffered, dropped, SocketIdClient, socketid, stat>>
    BY <1>9 DEF NetDone, NetWait, MBTask, MBEventGet, MBReceive, MBPost, MBExecute, MBCopy, MBReady,
         MBWait, vars
  <2> QED
    BY <1>a, <2>1
<1> QED
  BY <1>1, <1>2, <1>3, <1>4, <1>5, <1>6, <1>7, <1>8, <1>9 DEF Next, Clients, NetTask


LEMMA SetTypes ==
  ASSUME TaskTypeOK, NEW b \in {DATA_READY, DATA_SEND}
  PROVE  /\ SetFromNet(b) => mbPc' \in MBPcs /\ group' \subseteq {DATA_READY, DATA_SEND}
         /\ SetFromMB(b) => netPc' \in NetPcs /\ group' \subseteq {DATA_READY, DATA_SEND}
<1>1. \A bits : Dispatch(bits) \in MBPcs
  BY DEF Dispatch, MBPcs
<1>2. SetFromNet(b) => mbPc' \in MBPcs /\ group' \subseteq {DATA_READY, DATA_SEND}
  BY <1>1 DEF SetFromNet, TaskTypeOK, MBPcs
<1>3. SetFromMB(b) => netPc' \in NetPcs /\ group' \subseteq {DATA_READY, DATA_SEND}
  BY DEF SetFromMB, TaskTypeOK, NetPcs
<1> QED
  BY <1>2, <1>3

LEMMA TaskTypeNext == TypeInv /\ [Next]_vars => TaskTypeOK'
<1> SUFFICES ASSUME TypeInv, [Next]_vars PROVE TaskTypeOK'
  OBVIOUS
<1> USE DEF clientVars, libVars, bufVars, loopVars, mbVars
<1>a. TaskTypeOK
  BY DEF TypeInv, TypeOK
<1>1. CASE Tick \/ NetSocket \/ NetDone \/ NetLink
  BY <1>a, <1>1 DEF Tick, NetSocket, NetDone, NetLink, TaskTypeOK, NetPcs, MBPcs
<1>2. CASE NetReceive \/ NetSend
  <2>1. netPc' \in NetPcs
    BY <1>2 DEF NetReceive, NetSend, NetPcs
  <2>2. UNCHANGED <<mbPc, group>> \/ \E b \in {DATA_READY, DATA_SEND} : SetFromNet(b)
    BY <1>2 DEF NetReceive, NetSend, SendSignal, EV_FRAME_RECEIVED, DATA_READY
  <2>3. mbPc' \in MBPcs /\ group' \subseteq {DATA_READY, DATA_SEND}
    BY <1>a, <2>2, SetTypes DEF TaskTypeOK
  <2> QED
    BY <2>1, <2>3 DEF TaskTypeOK
<1>3. CASE NetWait
  BY <1>a, <1>3 DEF NetWait, TaskTypeOK, NetPcs
<1>4. CASE MBPost \/ MBReady
  <2>1. mbPc' \in MBPcs
    BY <1>4 DEF MBPost, MBReady, MBPcs
  <2>2. \E b \in {DATA_READY, DATA_SEND} : SetFromMB(b)
    BY <1>4 DEF MBPost, MBReady, EV_EXECUTE, DATA_SEND
  <2>3. netPc' \in NetPcs /\ group' \subseteq {DATA_READY, DATA_SEND}
    BY <1>a, <2>2, SetTypes
  <2> QED
    BY <2>1, <2>3 DEF TaskTypeOK
<1>5. CASE MBEventGet
  BY <1>a, <1>5 DEF MBEventGet, Dispatch, TaskTypeOK, MBPcs
<1>6. CASE MBReceive \/ MBExecute \/ MBCopy \/ MBWait
  BY <1>a, <1>6 DEF MBReceive, MBExecute, MBCopy, MBWait, TaskTypeOK, MBPcs
<1>7. CASE WatchdogReset
  BY <1>7 DEF WatchdogReset, TaskTypeOK, NetPcs, MBPcs
<1>8. CASE Clients \/ UNCHANGED vars
  <2>1. UNCHANGED <<netPc, mbPc, group>>
    BY <1>8 DEF Clients, Connect, Disconnect, SendRest, Ask, vars
  <2> QED
    BY <1>a, <2>1 DEF TaskTypeOK
<1> QED
  BY <1>1, <1>2, <1>3, <1>4, <1>5, <1>6, <1>7, <1>8 DEF Next, NetTask, MBTask

LEMMA FlagTypeNext == TypeInv /\ [Next]_vars => FlagTypeOK'
<1> SUFFICES ASSUME TypeInv, [Next]_vars PROVE FlagTypeOK'
  OBVIOUS
<1> USE DEF FlagTypeOK, clientVars, libVars, bufVars, loopVars, mbVars
<1>a. FlagTypeOK
  BY DEF TypeInv, TypeOK
<1>1. CASE NetSend
  <2>1. unasked' \in BOOLEAN
    BY <1>a, <1>1, Zenon DEF NetSend
  <2>2. ucMBFrame' = ucMBFrame
    BY <1>1 DEF NetSend
  <2> QED
    BY <1>a, <2>1, <2>2, Zenon
<1>2. CASE MBReceive
  BY <1>a, <1>2, Zenon DEF MBReceive
<1>3. CASE WatchdogReset
  BY <1>a, <1>3, Zenon DEF WatchdogReset
<1>4. CASE \/ Clients \/ Tick \/ NetSocket \/ NetDone \/ NetReceive \/ NetWait \/ NetLink
           \/ MBEventGet \/ MBPost \/ MBExecute \/ MBCopy \/ MBReady \/ MBWait \/ UNCHANGED vars
  <2>1. UNCHANGED <<unasked, ucMBFrame>>
    BY <1>4 DEF Clients, Connect, Disconnect, SendRest, Ask, Tick, NetSocket, NetDone, NetReceive, NetWait,
         NetLink, MBEventGet, MBPost, MBExecute, MBCopy, MBReady, MBWait, vars
  <2> QED
    BY <1>a, <2>1, Zenon
<1> QED
  BY <1>1, <1>2, <1>3, <1>4 DEF Next, NetTask, MBTask

LEMMA AtSocketNext == TypeInv /\ [Next]_vars => AtSocket'
<1> SUFFICES ASSUME TypeInv, [Next]_vars PROVE AtSocket'
  OBVIOUS
<1> USE DEF AtSocket, clientVars, libVars, bufVars, loopVars, mbVars
<1>a. AtSocket
  BY DEF TypeInv
<1>1. CASE NetSocket
  BY <1>1 DEF NetSocket
<1>2. CASE Tick \/ NetDone \/ NetLink \/ WatchdogReset
  BY <1>a, <1>2 DEF Tick, NetDone, NetLink, WatchdogReset
<1>3. CASE NetReceive \/ NetWait \/ NetSend
  BY <1>a, <1>3 DEF NetReceive, NetWait, NetSend
<1>4. CASE MBTask
  <2>1. socketid' = socketid /\ (netPc' = netPc \/ netPc = "blocked")
    BY <1>4 DEF MBTask, MBEventGet, MBReceive, MBPost, MBExecute, MBCopy, MBReady, MBWait, SetFromMB
  <2> QED
    BY <1>a, <2>1
<1>5. CASE Clients \/ UNCHANGED vars
  <2>1. UNCHANGED <<netPc, socketid>>
    BY <1>5 DEF Clients, Connect, Disconnect, SendRest, Ask, vars
  <2> QED
    BY <1>a, <2>1
<1> QED
  BY <1>1, <1>2, <1>3, <1>4, <1>5 DEF Next, NetTask

\* Every variable of the TCP slave stays in its range, for every number of sockets
\* and clients that do anything at any moment; the position stays inside aucTCPBuf
\* (port/porttcp.c:171).
THEOREM TypeCorrect == Spec => []TypeOK
<1>1. TypeInv /\ [Next]_vars => TypeInv'
  BY ClientTypeNext, BufTypeNext, SocketTypeNext, TaskTypeNext, FlagTypeNext, AtSocketNext
     DEF TypeInv, TypeOK
<1>2. Spec => []TypeInv
  BY TypeInvInit, <1>1, PTL DEF Spec
<1>3. TypeInv => TypeOK
  BY DEF TypeInv
<1> QED
  BY <1>2, <1>3, PTL

(***************************************************************************)
(* The hand-over.  A task that waits for the event group leaves no bit in  *)
(* it; the Modbus task that waits for its answer to be sent has announced  *)
(* it, and nobody else has used the announcement up without sending.       *)
(***************************************************************************)
HandOver ==
  /\ mbPc = "event" => group = {}
  /\ mbPc = "sending" => DATA_READY \in group \/ netPc = "send"
  /\ mbPc = "wait" => DATA_READY \in group \/ DATA_SEND \in group \/ netPc = "send"

LEMMA HandOverNext == HandOver /\ [Next]_vars => HandOver'
<1> SUFFICES ASSUME HandOver, [Next]_vars PROVE HandOver'
  OBVIOUS
<1> USE DEF HandOver, clientVars, libVars, bufVars, loopVars, mbVars, DATA_READY, DATA_SEND
<1>0. \A bits : Dispatch(bits) \notin {"event", "sending", "wait"}
  BY DEF Dispatch
<1>1. CASE Tick \/ NetSocket \/ NetDone \/ NetLink
  BY <1>1 DEF Tick, NetSocket, NetDone, NetLink
<1>2. CASE NetReceive
  <2>1. UNCHANGED <<mbPc, group>> \/ SetFromNet(EV_FRAME_RECEIVED)
    BY <1>2 DEF NetReceive
  <2>2. netPc = "recv"
    BY <1>2 DEF NetReceive
  <2>3. CASE UNCHANGED <<mbPc, group>>
    BY <2>2, <2>3
  <2>4. CASE SetFromNet(EV_FRAME_RECEIVED)
    BY <1>0, <2>2, <2>4 DEF SetFromNet, EV_FRAME_RECEIVED
  <2> QED
    BY <2>1, <2>3, <2>4
<1>3. CASE NetWait
  BY <1>3 DEF NetWait
<1>4. CASE NetSend
  <2>1. SetFromNet(DATA_SEND)
    BY <1>4 DEF NetSend, SendSignal
  <2> QED
    BY <1>0, <2>1 DEF SetFromNet
<1>5. CASE MBPost \/ MBReady
  <2>1. mbPc' # "event" /\ mbPc' # "sending"
    BY <1>5 DEF MBPost, MBReady
  <2>2. mbPc' = "wait" => SetFromMB(DATA_READY)
    BY <1>5 DEF MBPost, MBReady
  <2> QED
    BY <2>1, <2>2 DEF SetFromMB
<1>6. CASE MBEventGet
  BY <1>0, <1>6 DEF MBEventGet
<1>7. CASE MBReceive \/ MBExecute \/ MBCopy
  BY <1>7 DEF MBReceive, MBExecute, MBCopy
<1>8. CASE MBWait
  BY <1>8 DEF MBWait, MBRuns
<1>9. CASE WatchdogReset
  BY <1>9 DEF WatchdogReset
<1>10. CASE Clients \/ UNCHANGED vars
  <2>1. UNCHANGED <<netPc, mbPc, group>>
    BY <1>10 DEF Clients, Connect, Disconnect, SendRest, Ask, vars
  <2> QED
    BY <2>1
<1> QED
  BY <1>1, <1>2, <1>3, <1>4, <1>5, <1>6, <1>7, <1>8, <1>9, <1>10 DEF Next, NetTask, MBTask

\* The Modbus task waits for its answer to be sent only while DATA_READY is set or
\* the WCHNET task is at its send (port/porttcp.c:431-432): it cannot be left there.
THEOREM SendingHasAnswerAlways == Spec => []SendingHasAnswer
<1>1. Init => HandOver
  BY DEF Init, HandOver
<1>2. Spec => []HandOver
  BY <1>1, HandOverNext, PTL DEF Spec
<1>3. HandOver => SendingHasAnswer
  BY DEF HandOver, SendingHasAnswer
<1> QED
  BY <1>2, <1>3, PTL

(***************************************************************************)
(* While the WCHNET task waits for an answer its request is on the way     *)
(* through the Modbus task, each station of which leads to the next;       *)
(* unless a frame of another protocol has been sent.                       *)
(***************************************************************************)
Foreign == \E r \in DOMAIN asked : ~asked[r].kind.pid

\* What stands at the beginning of the buffer was sent by a client.
Named == aucTCPBuf[MB_TCP_PID][1] \in DOMAIN asked

Underway ==
  \/ mbPc = "receive" /\ group = {}
  \/ mbPc = "post" /\ group = {} /\ ucMBFrame
  \/ mbPc \in {"delay", "get"} /\ group = {EV_EXECUTE} /\ ucMBFrame
  \/ mbPc = "execute" /\ ucMBFrame
  \/ mbPc \in {"copy", "ready"}

BufferNamed ==
  /\ usTCPBufPos > 0 => Named
  /\ netPc \in {"wait", "blocked"} => Named

RequestUnderway ==
  /\ netPc = "wait" => DATA_READY \in group \/ (mbPc = "receive" /\ group = {})
  /\ netPc = "blocked" => Foreign \/ Underway

LEMMA AskedGrows ==
  TypeInv /\ [Next]_vars => \/ asked' = asked
                            \/ /\ DOMAIN asked \subseteq DOMAIN asked'
                               /\ \A r \in DOMAIN asked : asked'[r] = asked[r]
                               /\ UNCHANGED <<netPc, mbPc, group, bufVars, mbVars>>
<1> SUFFICES ASSUME TypeInv, [Next]_vars
             PROVE  \/ asked' = asked
                    \/ /\ DOMAIN asked \subseteq DOMAIN asked'
                       /\ \A r \in DOMAIN asked : asked'[r] = asked[r]
                       /\ UNCHANGED <<netPc, mbPc, group, bufVars, mbVars>>
  OBVIOUS
<1> USE DEF clientVars, libVars, bufVars, loopVars, mbVars
<1>1. ASSUME NEW s, NEW k \in Kinds, NEW n, s \in Sockets, Ask(s, k, n)
      PROVE  /\ DOMAIN asked \subseteq DOMAIN asked'
             /\ \A r \in DOMAIN asked : asked'[r] = asked[r]
             /\ UNCHANGED <<netPc, mbPc, group, bufVars, mbVars>>
  <2>1. asked \in Seq([sock : Sockets, kind : Kinds]) /\ [sock |-> s, kind |-> k] \in [sock : Sockets, kind : Kinds]
    BY <1>1 DEF TypeInv, TypeOK, ClientTypeOK
  <2>2. asked' = Append(asked, [sock |-> s, kind |-> k]) /\ UNCHANGED <<netPc, mbPc, group, bufVars, mbVars>>
    BY <1>1 DEF Ask
  <2> QED
    BY <2>1, <2>2
<1>2. (\E s \in Sockets, k \in Kinds, n \in 1 .. BufSize + 1 : Ask(s, k, n)) \/ asked' = asked
  BY DEF Next, Clients, Connect, Disconnect, SendRest, Tick, NetTask, NetSocket, NetDone, NetReceive,
     NetWait, NetSend, NetLink, MBTask, MBEventGet, MBReceive, MBPost, MBExecute, MBCopy, MBReady,
     MBWait, WatchdogReset, vars
<1> QED
  BY <1>1, <1>2

LEMMA ReceiveNames ==
  ASSUME TypeInv, BufferNamed, NetReceive, usTCPBufPos' > 0
  PROVE  Named'
<1> USE DEF MB_TCP_PID
<1>1. /\ socketid \in Sockets /\ asked' = asked /\ aucTCPBuf \in [Slots -> Chars]
      /\ usTCPBufPos \in Nat /\ 0 \in Slots
  BY Constants DEF TypeInv, TypeOK, BufTypeOK, AtSocket, NetReceive, Slots
<1>2. received[socketid] \in Seq(SentChars)
  BY <1>1 DEF TypeInv, TypeOK, ClientTypeOK
<1>3. CASE UNCHANGED <<aucTCPBuf, usTCPBufPos>>
  BY <1>1, <1>3 DEF BufferNamed, Named
<1>4. CASE /\ aucTCPBuf' = Stored(received[socketid])
           /\ usTCPBufPos' = usTCPBufPos + Len(received[socketid])
  <2>1. CASE usTCPBufPos > 0
    <3>1. aucTCPBuf'[0] = aucTCPBuf[0]
      BY <1>1, <1>4, <2>1 DEF Stored
    <3> QED
      BY <1>1, <2>1, <3>1 DEF BufferNamed, Named
  <2>2. CASE usTCPBufPos = 0
    <3>1. Len(received[socketid]) \in Nat /\ Len(received[socketid]) > 0
      BY <1>2, <1>4, <2>2, LenProperties
    <3>2. received[socketid][1] \in SentChars
      BY <1>2, <3>1, ElementOfSeq
    <3>3. aucTCPBuf'[0] = received[socketid][1]
      BY <1>1, <1>4, <2>2, <3>1 DEF Stored
    <3> QED
      BY <1>1, <3>2, <3>3 DEF SentChars, Named
  <2> QED
    BY <1>1, <2>1, <2>2
<1>5. CASE Overflows(Len(received[socketid]))
  BY <1>3, <1>5 DEF NetReceive, bufVars
<1>6. CASE ~Overflows(Len(received[socketid]))
  <2>1. aucTCPBuf' = Stored(received[socketid]) /\ usTCPBufPos' = usTCPBufPos + Len(received[socketid])
    BY <1>6, Zenon DEF NetReceive
  <2> QED
    BY <1>4, <2>1
<1> QED
  BY <1>5, <1>6


LEMMA BufferNamedNext == TypeInv /\ BufferNamed /\ [Next]_vars => BufferNamed'
<1> SUFFICES ASSUME TypeInv, BufferNamed, [Next]_vars PROVE BufferNamed'
  OBVIOUS
<1> USE DEF clientVars, libVars, bufVars, loopVars, mbVars
<1>a. UNCHANGED aucTCPBuf => (Named => Named')
  BY AskedGrows DEF Named
<1>1. CASE NetReceive
  <2>1. usTCPBufPos' > 0 => Named'
    BY <1>1, ReceiveNames
  <2>2. netPc' # "blocked" /\ (netPc' = "wait" => usTCPBufPos' > 0)
    <3>1. netPc' # "blocked"
      BY <1>1 DEF NetReceive
    <3>2. netPc' = "wait" => usTCPBufPos' >= MB_TCP_FUNC
      BY <1>1 DEF NetReceive
    <3>3. usTCPBufPos \in Nat /\ usTCPBufPos' \in Nat
      <4>1. BufTypeOK /\ BufTypeOK'
        BY BufTypeNext DEF TypeInv, TypeOK
      <4> QED
        BY <4>1, Constants DEF BufTypeOK, Slots
    <3> QED
      BY <3>1, <3>2, <3>3 DEF MB_TCP_FUNC
  <2> QED
    BY <2>1, <2>2 DEF BufferNamed
<1>2. CASE NetWait
  <2>1. netPc = "wait" /\ UNCHANGED <<aucTCPBuf, usTCPBufPos>>
    BY <1>2 DEF NetWait
  <2> QED
    BY <1>a, <2>1 DEF BufferNamed
<1>3. CASE MBReceive
  <2>1. usTCPBufPos' = 0 /\ UNCHANGED <<netPc, aucTCPBuf>>
    BY <1>3 DEF MBReceive, GetRequest
  <2> QED
    BY <1>a, <2>1 DEF BufferNamed
<1>4. CASE WatchdogReset
  BY <1>4 DEF WatchdogReset, BufferNamed
<1>5. CASE \/ Clients \/ Tick \/ NetSocket \/ NetDone \/ NetSend \/ NetLink
           \/ MBEventGet \/ MBPost \/ MBExecute \/ MBCopy \/ MBReady \/ MBWait \/ UNCHANGED vars
  <2>1. UNCHANGED <<aucTCPBuf, usTCPBufPos>>
    BY <1>5 DEF Clients, Connect, Disconnect, SendRest, Ask, Tick, NetSocket, NetDone, NetSend, NetLink,
         MBEventGet, MBPost, MBExecute, MBCopy, MBReady, MBWait, vars
  <2>2. netPc' = netPc \/ netPc' \notin {"wait", "blocked"}
    BY <1>5 DEF Clients, Connect, Disconnect, SendRest, Ask, Tick, NetSocket, NetDone, NetSend, NetLink,
         MBEventGet, MBPost, SetFromMB, MBExecute, MBCopy, MBReady, MBWait, vars
  <2> QED
    BY <1>a, <2>1, <2>2 DEF BufferNamed
<1> QED
  BY <1>1, <1>2, <1>3, <1>4, <1>5 DEF Next, NetTask, MBTask

LEMMA RequestUnderwayNext ==
  TypeInv /\ BufferNamed /\ HandOver /\ RequestUnderway /\ [Next]_vars => RequestUnderway'
<1> SUFFICES ASSUME TypeInv, BufferNamed, HandOver, RequestUnderway, [Next]_vars
             PROVE  RequestUnderway'
  OBVIOUS
<1> USE DEF clientVars, libVars, bufVars, loopVars, mbVars, DATA_READY, EV_EXECUTE, EV_FRAME_RECEIVED
<1>a. Foreign => Foreign'
  BY AskedGrows DEF Foreign
<1>b. (RequestUnderway /\ UNCHANGED <<netPc, mbPc, group, ucMBFrame>>) => RequestUnderway'
  BY <1>a DEF RequestUnderway, Underway
<1>1. CASE Tick
  BY <1>a, <1>1 DEF Tick, RequestUnderway, Underway
<1>2. CASE NetReceive
  <2>1. netPc' # "blocked"
    BY <1>2 DEF NetReceive
  <2>2. netPc' = "wait" => SetFromNet(EV_FRAME_RECEIVED)
    BY <1>2 DEF NetReceive
  <2>3. SetFromNet(EV_FRAME_RECEIVED) => 0 \in group' \/ (mbPc' = "receive" /\ group' = {})
    BY DEF SetFromNet, Dispatch, HandOver, DATA_SEND
  <2> QED
    BY <2>1, <2>2, <2>3 DEF RequestUnderway
<1>3. CASE NetWait
  BY <1>a, <1>3 DEF NetWait, RequestUnderway, Underway
<1>4. CASE NetSocket \/ NetDone \/ NetSend \/ NetLink \/ WatchdogReset
  <2>1. netPc' \notin {"wait", "blocked"}
    BY <1>4 DEF NetSocket, NetDone, NetSend, NetLink, WatchdogReset
  <2> QED
    BY <2>1 DEF RequestUnderway
<1>5. CASE MBTask
  <2>1. netPc # "wait" /\ netPc' # "wait"
    BY <1>5 DEF MBTask, MBRuns, MBEventGet, MBReceive, MBPost, MBExecute, MBCopy, MBReady, MBWait, SetFromMB
  <2>2. netPc' = "blocked" => netPc = "blocked"
    BY <1>5 DEF MBTask, MBEventGet, MBReceive, MBPost, MBExecute, MBCopy, MBReady, MBWait, SetFromMB
  <2> SUFFICES ASSUME netPc = "blocked", netPc' = "blocked", ~Foreign'
               PROVE  Underway'
    BY <2>1, <2>2 DEF RequestUnderway
  <2>3. Underway
    BY <1>a DEF RequestUnderway
  <2>4. CASE MBEventGet
    BY <2>3, <2>4 DEF MBEventGet, Dispatch, Underway
  <2>5. CASE MBReceive
    <3>1. Named /\ asked' = asked
      BY <2>5 DEF BufferNamed, MBReceive
    <3>2. asked[aucTCPBuf[MB_TCP_PID][1]].kind.pid
      BY <3>1 DEF Foreign, Named
    <3>3. mbPc' = "post" /\ ucMBFrame' /\ group' = group
      BY <2>5, <3>1, <3>2, Zenon DEF MBReceive, Named
    <3> QED
      BY <2>3, <2>5, <3>3 DEF MBReceive, Underway
  <2>6. CASE MBPost
    BY <2>3, <2>6 DEF MBPost, SetFromMB, Underway
  <2>7. CASE MBExecute
    BY <2>3, <2>7 DEF MBExecute, Underway
  <2>8. CASE MBCopy
    BY <2>8 DEF MBCopy, Underway
  <2>9. CASE MBReady
    BY <2>9 DEF MBReady, SetFromMB
  <2>10. CASE MBWait
    BY <2>3, <2>10 DEF MBWait, Underway
  <2> QED
    BY <1>5, <2>4, <2>5, <2>6, <2>7, <2>8, <2>9, <2>10 DEF MBTask
<1>6. CASE Clients \/ UNCHANGED vars
  <2>1. UNCHANGED <<netPc, mbPc, group, ucMBFrame>>
    BY <1>6 DEF Clients, Connect, Disconnect, SendRest, Ask, vars
  <2> QED
    BY <1>b, <2>1
<1> QED
  BY <1>1, <1>2, <1>3, <1>4, <1>5, <1>6 DEF Next, NetTask

\* The WCHNET task waits for an answer and the Modbus task for a request at the same
\* time only if a frame of another protocol was sent (port/porttcp.c:200-201): no
\* other behaviour of the clients brings the watchdog down on the controller.
THEOREM NoMutualWaitAlways == Spec => []NoMutualWait
<1> DEFINE I == TypeInv /\ HandOver /\ BufferNamed /\ RequestUnderway
<1>1. Init => I
  BY TypeInvInit DEF Init, HandOver, BufferNamed, RequestUnderway
<1>2. I /\ [Next]_vars => I'
  <2>1. TypeInv /\ [Next]_vars => TypeInv'
    BY ClientTypeNext, BufTypeNext, SocketTypeNext, TaskTypeNext, FlagTypeNext, AtSocketNext
       DEF TypeInv, TypeOK
  <2> QED
    BY <2>1, HandOverNext, BufferNamedNext, RequestUnderwayNext
<1>3. I => NoMutualWait
  BY DEF RequestUnderway, Underway, Foreign, NoMutualWait
<1>4. Spec => []I
  BY <1>1, <1>2, PTL DEF Spec
<1> QED
  BY <1>3, <1>4, PTL


(***************************************************************************)
(* Clients that take turns and send sound requests.  One transaction goes  *)
(* through five phases; each step of the two tasks stays in its phase or   *)
(* leads to the next.                                                      *)
(***************************************************************************)
PatientClients ==
  Patient /\ \A k \in Kinds : k.pid /\ k.claim = k.len /\ MB_TCP_FUNC < k.len /\ k.len < BufSize

\* Every request before the newest has been applied once and answered; of the
\* newest, applied a times, the client has w.
Past(a, w) ==
  \A r \in Requests :
    /\ applied[r] = IF r < Len(asked) THEN 1 ELSE IF r = Len(asked) THEN a ELSE 0
    /\ answered[r] = IF r < Len(asked) THEN r ELSE IF r = Len(asked) THEN w ELSE Unanswered

\* The library holds nothing of the socket.
Empty(s) == unsent[s] = <<>> /\ received[s] = <<>> /\ "recv" \notin intstat[s]

\* Nobody waits for an answer.
Quiet ==
  /\ \A s \in Sockets : current[s] = 0 /\ Empty(s)
  /\ netPc \in {"delay", "poll", "link"} /\ usTCPBufPos = 0
  /\ \/ mbPc = "wait" /\ group = {DATA_SEND}
     \/ mbPc \in {"delay", "get", "event"} /\ group = {}
  /\ Past(1, Len(asked))

\* The client of s waits for the answer to the newest request.
Served(s) ==
  /\ Len(asked) > 0 /\ s \in open /\ current[s] = Len(asked)
  /\ \A t \in Sockets \ {s} : current[t] = 0 /\ Empty(t)

\* The request arrives in pieces.
Asking(s) ==
  /\ Served(s) /\ Past(0, Unanswered)
  /\ netPc \in {"delay", "poll", "recv", "link"} /\ mbPc = "event" /\ group = {}
  /\ netPc = "recv" => socketid = s /\ intstat[s] = {}
  /\ usTCPBufPos < asked[Len(asked)].kind.len
  /\ usTCPBufPos + Len(received[s]) + Len(unsent[s]) = asked[Len(asked)].kind.len
  /\ \A i \in 0 .. usTCPBufPos - 1 : aucTCPBuf[i] = <<Len(asked), i>>
  /\ \A i \in 1 .. Len(received[s]) : received[s][i] = <<Len(asked), usTCPBufPos + i - 1>>
  /\ \A i \in 1 .. Len(unsent[s]) :
       unsent[s][i] = <<Len(asked), usTCPBufPos + Len(received[s]) + i - 1>>

\* It stands in the buffer, all of it.
Whole(s) ==
  /\ Served(s) /\ Empty(s) /\ socketid = s
  /\ aucTCPBuf[MB_TCP_PID][1] = Len(asked) /\ aucTCPBuf[MB_TCP_FUNC][1] = Len(asked)

\* It has been announced to the Modbus task.
Announced(s) ==
  /\ Whole(s) /\ Past(0, Unanswered)
  /\ netPc \in {"wait", "blocked"} /\ mbPc = "receive" /\ group = {}

\* The Modbus task has reset the position and is on its way to the handler.
Taken(s) ==
  /\ Whole(s) /\ Past(0, Unanswered)
  /\ netPc = "blocked" /\ usTCPBufPos = 0 /\ ucMBFrame
  /\ \/ mbPc \in {"post", "execute"} /\ group = {}
     \/ mbPc \in {"delay", "get"} /\ group = {EV_EXECUTE}

\* The handler has run; its answer is on the way to the client.
Executed(s) ==
  /\ Whole(s) /\ Past(1, Unanswered)
  /\ usTCPBufPos = 0 /\ group = {}
  /\ \/ netPc = "blocked" /\ mbPc = "copy" /\ answer = Len(asked)
     \/ netPc = "blocked" /\ mbPc = "ready" /\ outTCPBuf = Len(asked)
     \/ netPc = "send" /\ mbPc = "wait" /\ outTCPBuf = Len(asked)

PatientInv ==
  /\ PatientClients /\ ~unasked
  /\ Quiet \/ \E s \in Sockets : Asking(s) \/ Announced(s) \/ Taken(s) \/ Executed(s)

\* The slave does what a transaction does, and stays in the phases above.
Progress == PatientInv' /\ [Transaction!Next]_(Transaction!vars)

LEMMA Stutter ==
  ASSUME UNCHANGED <<asked, applied, answered>>
  PROVE  UNCHANGED Transaction!vars
BY DEF Transaction!vars

LEMMA PatientKind ==
  ASSUME PatientClients, NEW k \in Kinds
  PROVE  k.pid /\ k.claim = k.len /\ k.len \in 3 .. BufSize - 1
<1>1. k.pid /\ k.claim = k.len
  BY Zenon DEF PatientClients
<1>2. k.len \in 1 .. BufSize + 1 /\ 2 < k.len /\ k.len < BufSize /\ BufSize \in Nat
  BY Constants DEF PatientClients, MB_TCP_FUNC
<1> QED
  BY <1>1, <1>2

LEMMA Newest ==
  ASSUME TypeInv, PatientClients
  PROVE  /\ Len(asked) \in 0 .. MaxRequests /\ DOMAIN asked = 1 .. Len(asked)
         /\ Len(asked) > 0 => /\ asked[Len(asked)].kind.pid
                              /\ asked[Len(asked)].kind.claim = asked[Len(asked)].kind.len
                              /\ asked[Len(asked)].kind.len \in 3 .. BufSize - 1
<1>1. asked \in Seq([sock : Sockets, kind : Kinds]) /\ Len(asked) \in 0 .. MaxRequests
  BY Constants DEF TypeInv, TypeOK, ClientTypeOK
<1>2. DOMAIN asked = 1 .. Len(asked)
  BY <1>1
<1>3. ASSUME Len(asked) > 0 PROVE asked[Len(asked)].kind \in Kinds
  <2> DEFINE Request == [sock : Sockets, kind : Kinds]
  <2>1. asked \in Seq(Request) /\ Len(asked) \in 1 .. Len(asked)
    BY <1>1, <1>3
  <2>2. \A q \in Request : q.kind \in Kinds
    OBVIOUS
  <2> HIDE DEF Request
  <2>3. asked[Len(asked)] \in Request
    BY <2>1, ElementOfSeq
  <2> QED
    BY <2>2, <2>3
<1>4. \A k \in Kinds : k.pid /\ k.claim = k.len /\ k.len \in 3 .. BufSize - 1
  BY PatientKind
<1> QED
  BY <1>1, <1>2, <1>3, <1>4

\* What the types say of the state a step of the phases touches.
LEMMA Typed ==
  ASSUME TypeInv
  PROVE  /\ current \in [Sockets -> 0 .. MaxRequests] /\ intstat \in [Sockets -> SUBSET Stats]
         /\ unsent \in [Sockets -> Seq(SentChars)] /\ received \in [Sockets -> Seq(SentChars)]
         /\ answered \in [Requests -> Unanswered .. MaxRequests] /\ applied \in [Requests -> 0 .. 2]
         /\ aucTCPBuf \in [Slots -> Chars] /\ usTCPBufPos \in 0 .. BufSize - 1
         /\ AtSocket
BY DEF TypeInv, TypeOK, ClientTypeOK, BufTypeOK, SocketTypeOK, Slots

LEMMA QuietAsk ==
  ASSUME TypeInv, PatientInv, Quiet, NEW s \in Sockets, NEW k \in Kinds, NEW n \in 1 .. BufSize + 1,
         n <= k.len, Ask(s, k, n)
  PROVE  Progress
<1> USE DEF clientVars, libVars, bufVars, loopVars, mbVars
<1> DEFINE r == Len(asked) + 1
<1>a. /\ PatientClients /\ ~unasked /\ asked \in Seq([sock : Sockets, kind : Kinds])
      /\ Len(asked) \in 0 .. MaxRequests /\ MaxRequests \in Nat /\ n \in Nat /\ k.len \in 3 .. BufSize - 1 /\ BufSize \in Nat
  <2>1. PatientClients /\ ~unasked
    BY Zenon DEF PatientInv
  <2>2. asked \in Seq([sock : Sockets, kind : Kinds])
    BY DEF TypeInv, TypeOK, ClientTypeOK
  <2>3. Len(asked) \in 0 .. MaxRequests /\ k.len \in 3 .. BufSize - 1
    BY <2>1, Newest, PatientKind
  <2> QED
    BY <2>1, <2>2, <2>3, Constants
<1>b. mbPc = "event" /\ netPc = "delay" /\ s \in open /\ r \in Requests
  <2>1. netPc = "delay" /\ s \in open /\ Len(asked) < MaxRequests /\ MayStart
    BY DEF Ask
  <2>2. mbPc = "event"
    BY <1>a, <2>1, Zenon DEF MayStart, PatientClients
  <2> QED
    BY <1>a, <2>1, <2>2 DEF Requests
<1>1. /\ Len(asked') = r /\ asked'[r] = [sock |-> s, kind |-> k]
      /\ DOMAIN asked = 1 .. Len(asked) /\ DOMAIN asked' = 1 .. r
      /\ \A q \in 1 .. Len(asked) : asked'[q] = asked[q]
  BY <1>a DEF Ask
<1>2. /\ current' = [current EXCEPT ![s] = r]
      /\ received' = [received EXCEPT ![s] = <<>> \o SubSeq(Characters(r, k.len), 1, n)]
      /\ unsent' = [unsent EXCEPT ![s] = SubSeq(Characters(r, k.len), n + 1, k.len)]
      /\ intstat' = [intstat EXCEPT ![s] = @ \cup {"recv"}]
      /\ UNCHANGED <<open, netPc, mbPc, group, bufVars, unasked, answered, applied>>
  BY DEF Ask, Quiet, Empty
<1>3. Past(0, Unanswered)'
  <2>1. Past(1, Len(asked)) /\ UNCHANGED <<applied, answered>>
    BY <1>2 DEF Quiet
  <2>2. Len(asked) \in Nat /\ Len(asked') = Len(asked) + 1 /\ \A q \in Requests : q \in Nat
    BY <1>a, <1>1 DEF Requests
  <2> HIDE DEF r
  <2>3. ASSUME NEW q \in Requests
        PROVE  /\ applied'[q] = IF q < Len(asked') THEN 1 ELSE 0
               /\ answered'[q] = IF q < Len(asked') THEN q ELSE Unanswered
    <3>1. /\ applied[q] = IF q < Len(asked) THEN 1 ELSE IF q = Len(asked) THEN 1 ELSE 0
          /\ answered[q] = IF q < Len(asked) THEN q ELSE IF q = Len(asked) THEN Len(asked) ELSE Unanswered
      BY <2>1 DEF Past
    <3> QED
      BY <2>1, <2>2, <3>1
  <2> QED
    BY <2>2, <2>3 DEF Past, Requests
<1>4. Served(s)'
  BY <1>a, <1>b, <1>1, <1>2, Typed DEF Quiet, Served, Empty
<1>5. LET c == Characters(r, k.len)
      IN  /\ Len(SubSeq(c, 1, n)) = n /\ \A i \in 1 .. n : SubSeq(c, 1, n)[i] = <<r, i - 1>>
          /\ Len(SubSeq(c, n + 1, k.len)) = k.len - n
          /\ \A i \in 1 .. k.len - n : SubSeq(c, n + 1, k.len)[i] = <<r, n + i - 1>>
  <2> DEFINE c == Characters(r, k.len)
  <2>1. \A i \in 1 .. k.len : c[i] = <<r, i - 1>> /\ c[i] \in {r} \X Nat
    BY <1>a DEF Characters
  <2> HIDE DEF c, r
  <2>2. n \in Int /\ 1 \in Int /\ n + 1 \in Int /\ k.len \in Int
        /\ (\A i \in 1 .. n : c[i] \in {r} \X Nat) /\ \A i \in n + 1 .. k.len : c[i] \in {r} \X Nat
    BY <1>a, <2>1
  <2>3. Len(SubSeq(c, 1, n)) = n /\ \A i \in 1 .. n : SubSeq(c, 1, n)[i] = <<r, i - 1>>
    <3>1. /\ Len(SubSeq(c, 1, n)) = IF 1 <= n THEN n - 1 + 1 ELSE 0
          /\ \A i \in 1 .. n - 1 + 1 : SubSeq(c, 1, n)[i] = c[1 + i - 1]
      BY <2>2, SubSeqProperties
    <3> QED
      BY <1>a, <2>1, <3>1
  <2>4. /\ Len(SubSeq(c, n + 1, k.len)) = k.len - n
        /\ \A i \in 1 .. k.len - n : SubSeq(c, n + 1, k.len)[i] = <<r, n + i - 1>>
    <3>1. /\ Len(SubSeq(c, n + 1, k.len)) = IF n + 1 <= k.len THEN k.len - (n + 1) + 1 ELSE 0
          /\ \A i \in 1 .. k.len - (n + 1) + 1 : SubSeq(c, n + 1, k.len)[i] = c[n + 1 + i - 1]
      BY <2>2, SubSeqProperties
    <3>2. \A i \in 1 .. k.len - n : c[n + 1 + i - 1] = <<r, n + i - 1>>
      <4>1. \A i \in 1 .. k.len - n : n + 1 + i - 1 \in 1 .. k.len /\ n + 1 + i - 1 - 1 = n + i - 1
        BY <1>a
      <4> QED
        BY <2>1, <4>1
    <3>3. /\ k.len - (n + 1) + 1 = k.len - n
          /\ (IF n + 1 <= k.len THEN k.len - (n + 1) + 1 ELSE 0) = k.len - n
      BY <1>a
    <3>4. Len(SubSeq(c, n + 1, k.len)) = k.len - n
      BY <3>1, <3>3
    <3>5. \A i \in 1 .. k.len - n : SubSeq(c, n + 1, k.len)[i] = c[n + 1 + i - 1]
      BY <3>1, <3>3, Zenon
    <3> QED
      BY <3>2, <3>4, <3>5, Zenon
  <2> QED
    BY <2>3, <2>4, Zenon DEF c
<1>6. /\ Len(received'[s]) = n /\ \A i \in 1 .. n : received'[s][i] = <<r, i - 1>>
      /\ Len(unsent'[s]) = k.len - n /\ \A i \in 1 .. k.len - n : unsent'[s][i] = <<r, n + i - 1>>
  <2>1. SubSeq(Characters(r, k.len), 1, n) \in Seq({r} \X Nat)
    <3>1. n \in Int /\ 1 \in Int /\ \A i \in 1 .. n : Characters(r, k.len)[i] \in {r} \X Nat
      BY <1>a DEF Characters
    <3> QED
      BY <3>1, SubSeqProperties
  <2>2. <<>> \o SubSeq(Characters(r, k.len), 1, n) = SubSeq(Characters(r, k.len), 1, n)
    BY <2>1, ConcatEmptySeq
  <2>3. received'[s] = SubSeq(Characters(r, k.len), 1, n) /\ unsent'[s] = SubSeq(Characters(r, k.len), n + 1, k.len)
    BY <1>2, <2>2, Typed
  <2> QED
    BY <1>5, <2>3
<1> HIDE DEF r
<1>7. Asking(s)'
  <2>1. usTCPBufPos = 0 /\ group = {} /\ UNCHANGED <<netPc, mbPc, group, usTCPBufPos>>
    BY <1>b, <1>2 DEF Quiet
  <2>2. asked'[Len(asked')].kind.len = k.len
    BY <1>1
  <2>3. usTCPBufPos' + Len(received'[s]) + Len(unsent'[s]) = asked'[Len(asked')].kind.len /\ 0 < k.len
    BY <1>a, <1>6, <2>1, <2>2
  <2>4. /\ \A i \in 0 .. usTCPBufPos' - 1 : aucTCPBuf'[i] = <<Len(asked'), i>>
        /\ \A i \in 1 .. Len(received'[s]) : received'[s][i] = <<Len(asked'), usTCPBufPos' + i - 1>>
        /\ \A i \in 1 .. Len(unsent'[s]) :
             unsent'[s][i] = <<Len(asked'), usTCPBufPos' + Len(received'[s]) + i - 1>>
    <3>1. Len(asked') = r /\ usTCPBufPos' = 0 /\ Len(received'[s]) = n /\ Len(unsent'[s]) = k.len - n
      BY <1>1, <1>6, <2>1
    <3>2. /\ \A i \in 1 .. n : <<r, i - 1>> = <<r, 0 + i - 1>>
          /\ \A i \in 1 .. k.len - n : <<r, n + i - 1>> = <<r, 0 + n + i - 1>>
          /\ 0 .. 0 - 1 = {}
      BY <1>a
    <3> QED
      BY <1>6, <3>1, <3>2
  <2> QED
    BY <1>b, <1>3, <1>4, <2>1, <2>2, <2>3, <2>4 DEF Asking
<1>8. Transaction!Request(Demand)
  <2> DEFINE sent == [q \in DOMAIN asked |-> Demand]
  <2>1. /\ sent \in Seq({Demand}) /\ Len(sent) = Len(asked) /\ DOMAIN asked' = 1 .. Len(asked) + 1
    BY <1>a, <1>1 DEF r
  <2>2. [q \in DOMAIN asked' |-> Demand] = Append(sent, Demand)
    BY <1>a, <1>1, <2>1
  <2>3. Len(asked) < MaxRequests /\ applied' = applied
    BY DEF Ask
  <2>4. asked # <<>> => answered[Len(asked)] = Len(asked) /\ applied[Len(asked)] = 1
    <3>1. Past(1, Len(asked)) /\ (asked # <<>> => Len(asked) \in Requests)
      BY <1>a DEF Quiet, Requests
    <3> QED
      BY <3>1 DEF Past
  <2>5. Transaction!Settled
    <3>1. Len(asked) > 0 => asked # <<>>
      BY <1>1
    <3> QED
      BY <2>1, <2>4, <3>1 DEF Transaction!Settled, Transaction!ForSlave, Transaction!Unicast, Transaction!Current
  <2>6. ~(asked' # <<>> /\ answered'[Len(asked')] = Len(asked'))
    BY <1>a, <1>b, <1>1, <1>3 DEF Past, Unanswered
  <2> QED
    BY <2>1, <2>2, <2>3, <2>5, <2>6 DEF Transaction!Request, Transaction!Current
<1>9. PatientInv'
  BY <1>a, <1>2, <1>7, Zenon DEF PatientInv, PatientClients
<1> QED
  BY <1>8, <1>9 DEF Progress, Transaction!Next

LEMMA Steady ==
  ASSUME PatientInv, UNCHANGED <<asked, applied, answered, unasked>>,
         Quiet' \/ \E s \in Sockets : Asking(s)' \/ Announced(s)' \/ Taken(s)' \/ Executed(s)'
  PROVE  Progress
<1>1. PatientInv'
  BY Zenon DEF PatientInv, PatientClients
<1> QED
  BY <1>1, Stutter DEF Progress

\* A client that comes or goes disturbs no other, and one that waits does not go.
LEMMA ComeOrGo ==
  ASSUME TypeInv, PatientClients, NEW t \in Sockets, Connect(t) \/ Disconnect(t)
  PROVE  /\ \A u \in Sockets : u # t =>
              /\ current'[u] = current[u] /\ unsent'[u] = unsent[u]
              /\ received'[u] = received[u] /\ intstat'[u] = intstat[u]
              /\ u \in open => u \in open'
         /\ current[t] = 0 /\ Empty(t) => current'[t] = 0 /\ Empty(t)'
         /\ t \in open => current[t] = 0
         /\ netPc = "delay"
         /\ UNCHANGED <<asked, answered, unasked, applied, bufVars, netPc, mbPc, group>>
<1> USE DEF clientVars, libVars, bufVars, loopVars, mbVars
<1>1. CASE Connect(t)
  <2>1. /\ netPc = "delay" /\ t \notin open /\ open' = open \cup {t}
        /\ received' = [received EXCEPT ![t] = <<>>] /\ intstat' = [intstat EXCEPT ![t] = {"connect"}]
        /\ UNCHANGED <<current, unsent, asked, answered, unasked, applied, bufVars, netPc, mbPc, group>>
    BY <1>1 DEF Connect
  <2> QED
    BY <2>1, Typed DEF Empty
<1>2. CASE Disconnect(t)
  <2>1. /\ netPc = "delay" /\ open' = open \ {t}
        /\ current' = [current EXCEPT ![t] = 0] /\ unsent' = [unsent EXCEPT ![t] = <<>>]
        /\ intstat' = [intstat EXCEPT ![t] = @ \cup {"disconnect"}]
        /\ UNCHANGED <<received, asked, answered, unasked, applied, bufVars, netPc, mbPc, group>>
    BY <1>2 DEF Disconnect, Gone
  <2>2. current[t] = 0
    BY <1>2, Zenon DEF Disconnect, PatientClients
  <2> QED
    BY <2>1, <2>2, Typed DEF Empty
<1> QED
  BY <1>1, <1>2

LEMMA QuietStep ==
  ASSUME TypeInv, PatientInv, Quiet, [Next]_vars
  PROVE  Progress
<1> USE DEF clientVars, libVars, bufVars, loopVars, mbVars
<1>0. PatientClients
  BY DEF PatientInv
<1>1. ASSUME NEW t \in Sockets, Connect(t) \/ Disconnect(t) PROVE Progress
  <2>1. /\ \A u \in Sockets : current'[u] = 0 /\ Empty(u)'
        /\ UNCHANGED <<asked, answered, unasked, applied, usTCPBufPos, netPc, mbPc, group>>
    <3>1. \A u \in Sockets : current[u] = 0 /\ Empty(u)
      BY DEF Quiet
    <3>2. current'[t] = 0 /\ Empty(t)'
      BY <1>0, <1>1, <3>1, ComeOrGo
    <3>3. ASSUME NEW u \in Sockets, u # t PROVE current'[u] = 0 /\ Empty(u)'
      <4>1. /\ current'[u] = current[u] /\ unsent'[u] = unsent[u]
            /\ received'[u] = received[u] /\ intstat'[u] = intstat[u]
        BY <1>0, <1>1, <3>3, ComeOrGo
      <4> QED
        BY <3>1, <4>1 DEF Empty
    <3>4. UNCHANGED <<asked, answered, unasked, applied, usTCPBufPos, netPc, mbPc, group>>
      BY <1>0, <1>1, ComeOrGo
    <3> QED
      BY <3>2, <3>3, <3>4
  <2> QED
    BY <2>1, Steady DEF Quiet, Past
<1>2. ASSUME NEW t \in Sockets, SendRest(t) PROVE Progress
  BY <1>2 DEF SendRest, Quiet, Empty
<1>3. ASSUME NEW t \in Sockets, NEW k \in Kinds, NEW n \in 1 .. BufSize + 1, n <= k.len, Ask(t, k, n)
      PROVE  Progress
  BY <1>3, QuietAsk
<1>4. CASE NetSocket
  <2>1. /\ socketid \in Sockets /\ "recv" \notin intstat[socketid]
        /\ stat' = intstat[socketid] /\ intstat' = [intstat EXCEPT ![socketid] = {}]
    BY <1>4 DEF NetSocket, Quiet, Empty
  <2>2. /\ netPc' = "link"
        /\ UNCHANGED <<asked, answered, unasked, applied, current, unsent, received, usTCPBufPos, mbPc, group>>
    BY <1>4, <2>1 DEF NetSocket
  <2>3. \A u \in Sockets : Empty(u)'
    BY <2>1, <2>2, Typed DEF Quiet, Empty
  <2> QED
    BY <2>2, <2>3, Steady DEF Quiet, Past
<1>5. CASE Tick \/ NetDone \/ NetLink \/ MBEventGet \/ MBWait \/ UNCHANGED vars
  <2>1. /\ UNCHANGED <<asked, answered, unasked, applied, current, unsent, received, intstat, usTCPBufPos>>
        /\ netPc' \in {"delay", "poll", "link"}
    BY <1>5 DEF Tick, NetDone, NetLink, MBEventGet, MBWait, vars, Quiet
  <2>2. (mbPc' = "wait" /\ group' = {DATA_SEND}) \/ (mbPc' \in {"delay", "get", "event"} /\ group' = {})
    <3>0. (mbPc = "wait" /\ group = {DATA_SEND}) \/ (mbPc \in {"delay", "get", "event"} /\ group = {})
      BY DEF Quiet
    <3>1. CASE Tick \/ NetDone \/ NetLink \/ UNCHANGED vars
      BY <3>0, <3>1 DEF Tick, NetDone, NetLink, vars
    <3>2. CASE MBEventGet
      BY <3>0, <3>2 DEF MBEventGet
    <3>3. CASE MBWait
      BY <3>0, <3>3 DEF MBWait
    <3> QED
      BY <1>5, <3>1, <3>2, <3>3
  <2> QED
    BY <2>1, <2>2, Steady DEF Quiet, Past, Empty
<1>6. ~(NetReceive \/ NetWait \/ NetSend \/ WatchdogReset)
  BY DEF Quiet, NetReceive, NetWait, NetSend, WatchdogReset
<1>7. ~(MBReceive \/ MBPost \/ MBExecute \/ MBCopy \/ MBReady)
  BY DEF Quiet, MBReceive, MBPost, MBExecute, MBCopy, MBReady
<1> QED
  BY <1>1, <1>2, <1>3, <1>4, <1>5, <1>6, <1>7 DEF Next, Clients, NetTask, MBTask

\* Of what the phase says of a socket only these variables matter.
LEMMA AskingKept ==
  ASSUME NEW s \in Sockets, Served(s)', Asking(s), group' = group, mbPc' = mbPc,
         netPc' \in {"delay", "poll", "recv", "link"}, netPc' = "recv" => socketid' = s /\ intstat'[s] = {},
         unsent'[s] = unsent[s], received'[s] = received[s],
         UNCHANGED <<asked, answered, applied, aucTCPBuf, usTCPBufPos>>
  PROVE  Asking(s)'
<1>1. Past(0, Unanswered)'
  BY DEF Asking, Past
<1> QED
  BY <1>1 DEF Asking

LEMMA AskingComeOrGo ==
  ASSUME TypeInv, PatientInv, NEW s \in Sockets, Asking(s), NEW t \in Sockets, Connect(t) \/ Disconnect(t)
  PROVE  Progress
<1> USE DEF bufVars
<1>0. PatientClients /\ Served(s)
  BY DEF PatientInv, Asking
<1>1. t # s
  <2>1. Len(asked) > 0 /\ s \in open /\ current[s] = Len(asked)
    BY <1>0 DEF Served
  <2>2. t \in open => current[t] = 0
    BY <1>0, ComeOrGo
  <2> QED
    BY <2>1, <2>2
<1>2. /\ netPc = "delay" /\ current'[s] = current[s] /\ unsent'[s] = unsent[s] /\ received'[s] = received[s]
      /\ s \in open => s \in open'
      /\ UNCHANGED <<asked, answered, unasked, applied, aucTCPBuf, usTCPBufPos, netPc, mbPc, group>>
  BY <1>0, <1>1, ComeOrGo
<1>3. ASSUME NEW u \in Sockets \ {s} PROVE current'[u] = 0 /\ Empty(u)'
  <2>1. current[u] = 0 /\ Empty(u)
    BY <1>0 DEF Served
  <2>2. CASE u = t
    BY <1>0, <2>1, <2>2, ComeOrGo
  <2>3. CASE u # t
    <3>1. /\ current'[u] = current[u] /\ unsent'[u] = unsent[u]
          /\ received'[u] = received[u] /\ intstat'[u] = intstat[u]
      BY <1>0, <2>3, ComeOrGo
    <3> QED
      BY <2>1, <3>1 DEF Empty
  <2> QED
    BY <2>2, <2>3
<1>4. Served(s)'
  BY <1>0, <1>2, <1>3 DEF Served
<1>5. Asking(s)'
  BY <1>2, <1>4, AskingKept
<1> QED
  BY <1>2, <1>5, Steady

LEMMA AskingSendRest ==
  ASSUME TypeInv, PatientInv, NEW s \in Sockets, Asking(s), NEW t \in Sockets, SendRest(t)
  PROVE  Progress
<1> USE DEF clientVars, libVars, bufVars, loopVars, mbVars
<1>0. /\ Served(s) /\ t = s /\ netPc = "delay"
      /\ received' = [received EXCEPT ![s] = @ \o unsent[s]] /\ unsent' = [unsent EXCEPT ![s] = <<>>]
      /\ intstat' = [intstat EXCEPT ![s] = @ \cup {"recv"}]
      /\ UNCHANGED <<asked, answered, unasked, applied, open, current, aucTCPBuf, usTCPBufPos, netPc, mbPc, group>>
  BY DEF Asking, Served, Empty, SendRest
<1> DEFINE a == Len(received[s])
           b == Len(unsent[s])
<1>1. received'[s] = received[s] \o unsent[s] /\ unsent'[s] = <<>>
  BY <1>0, Typed
<1>2. Served(s)'
  BY <1>0, Typed DEF Served, Empty
<1>3. a \in Nat /\ b \in Nat /\ usTCPBufPos \in Nat
  BY Typed, Constants, LenProperties
<1>4. /\ Len(received'[s]) = a + b
      /\ \A i \in 1 .. a + b : received'[s][i] = IF i <= a THEN received[s][i] ELSE unsent[s][i - a]
  <2>1. received[s] \in Seq(SentChars) /\ unsent[s] \in Seq(SentChars)
    BY Typed
  <2>2. /\ Len(received[s] \o unsent[s]) = a + b
        /\ \A i \in 1 .. a + b :
             (received[s] \o unsent[s])[i] = IF i <= a THEN received[s][i] ELSE unsent[s][i - a]
    BY <2>1, ConcatProperties
  <2> HIDE DEF a, b
  <2> QED
    BY <1>1, <2>2
<1>5. Len(unsent'[s]) = 0
  BY <1>1
<1>6. /\ \A i \in 1 .. a : received[s][i] = <<Len(asked), usTCPBufPos + i - 1>>
      /\ \A i \in 1 .. b : unsent[s][i] = <<Len(asked), usTCPBufPos + a + i - 1>>
      /\ usTCPBufPos + a + b = asked[Len(asked)].kind.len
  BY DEF Asking
<1> HIDE DEF a, b
<1>7. \A i \in 1 .. a + b : received'[s][i] = <<Len(asked), usTCPBufPos + i - 1>>
  <2> TAKE i \in 1 .. a + b
  <2>1. CASE i <= a
    <3>1. i \in 1 .. a
      BY <1>3, <2>1
    <3>2. received'[s][i] = received[s][i]
      BY <1>4, <2>1
    <3> QED
      BY <1>6, <3>1, <3>2
  <2>2. CASE i > a
    <3>1. i - a \in 1 .. b /\ usTCPBufPos + a + (i - a) - 1 = usTCPBufPos + i - 1
      BY <1>3, <2>2
    <3>2. received'[s][i] = unsent[s][i - a]
      BY <1>3, <1>4, <2>2
    <3> QED
      BY <1>6, <3>1, <3>2
  <2> QED
    BY <1>3, <2>1, <2>2
<1>8. Past(0, Unanswered)'
  BY <1>0 DEF Asking, Past
<1>9. usTCPBufPos + Len(received'[s]) + Len(unsent'[s]) = asked[Len(asked)].kind.len
  BY <1>3, <1>4, <1>5, <1>6
<1>10. Asking(s)'
  <2>1. \A i \in 1 .. Len(received'[s]) : received'[s][i] = <<Len(asked), usTCPBufPos + i - 1>>
    BY <1>4, <1>7
  <2>2. \A i \in 1 .. Len(unsent'[s]) :
          unsent'[s][i] = <<Len(asked), usTCPBufPos + Len(received'[s]) + i - 1>>
    BY <1>5
  <2> QED
    BY <1>0, <1>2, <1>8, <1>9, <2>1, <2>2 DEF Asking
<1> QED
  BY <1>0, <1>10, Steady

\* The piece fits, and continues what stands in the buffer.
LEMMA PieceStored ==
  ASSUME TypeInv, PatientInv, NEW s \in Sockets, Asking(s)
  PROVE  /\ Len(received[s]) \in Nat /\ Len(unsent[s]) \in Nat /\ usTCPBufPos \in Nat
         /\ ~Overflows(Len(received[s]))
         /\ \A i \in 0 .. usTCPBufPos + Len(received[s]) - 1 : Stored(received[s])[i] = <<Len(asked), i>>
<1> DEFINE a == Len(received[s])
           pos == usTCPBufPos
<1>1. /\ a \in Nat /\ Len(unsent[s]) \in Nat /\ pos \in Nat /\ BufSize \in Nat
      /\ DOMAIN aucTCPBuf = Slots
  BY Typed, Constants, LenProperties
<1>2. Len(asked) > 0 /\ PatientClients
  BY DEF Asking, Served, PatientInv
<1>3. asked[Len(asked)].kind.len \in 3 .. BufSize - 1
  BY <1>2, Newest
<1>4. /\ \A i \in 0 .. pos - 1 : aucTCPBuf[i] = <<Len(asked), i>>
      /\ \A i \in 1 .. a : received[s][i] = <<Len(asked), pos + i - 1>>
      /\ pos + a + Len(unsent[s]) = asked[Len(asked)].kind.len
  BY DEF Asking
<1>5. Stored(received[s]) = [i \in Slots |-> IF i \in pos .. pos + a - 1 THEN received[s][i - pos + 1]
                                             ELSE aucTCPBuf[i]]
  BY DEF Stored
<1>6. ~Overflows(a)
  <2> DEFINE len == asked[Len(asked)].kind.len
             rest == Len(unsent[s])
  <2>1. a \in Nat /\ rest \in Nat /\ pos \in Nat /\ BufSize \in Nat /\ len \in 3 .. BufSize - 1
    BY <1>1, <1>3
  <2>2. pos + a + rest = len
    BY <1>4
  <2> HIDE DEF a, pos, len, rest
  <2>3. ~(pos + a >= BufSize)
    BY <2>1, <2>2
  <2> QED
    BY <2>3 DEF Overflows, pos
<1> HIDE DEF a, pos
<1>7. ASSUME NEW i \in 0 .. pos + a - 1 PROVE Stored(received[s])[i] = <<Len(asked), i>>
  <2>1. i \in Slots
    BY <1>1, <1>3, <1>4 DEF Slots
  <2>2. CASE i < pos
    BY <1>1, <1>4, <1>5, <2>1, <2>2
  <2>3. CASE i >= pos
    <3>1. i \in pos .. pos + a - 1 /\ i - pos + 1 \in 1 .. a /\ pos + (i - pos + 1) - 1 = i
      BY <1>1, <2>3
    <3>2. Stored(received[s])[i] = received[s][i - pos + 1]
      BY <1>5, <2>1, <3>1
    <3> QED
      BY <1>4, <3>1, <3>2
  <2> QED
    BY <1>1, <2>2, <2>3
<1> QED
  BY <1>1, <1>6, <1>7 DEF a, pos

LEMMA AskingReceive ==
  ASSUME TypeInv, PatientInv, NEW s \in Sockets, Asking(s), NetReceive
  PROVE  Progress
<1> USE DEF clientVars, libVars, bufVars, loopVars, mbVars
<1> DEFINE n == Len(asked)
           len == asked[n].kind.len
           pos == usTCPBufPos + Len(received[s])
<1>0. /\ Served(s) /\ PatientClients /\ n > 0 /\ socketid = s /\ intstat[s] = {}
      /\ mbPc = "event" /\ group = {} /\ Past(0, Unanswered)
      /\ pos + Len(unsent[s]) = len
      /\ \A i \in 1 .. Len(unsent[s]) : unsent[s][i] = <<n, pos + i - 1>>
  BY DEF NetReceive, Asking, Served, PatientInv
<1>1. /\ Len(received[s]) \in Nat /\ Len(unsent[s]) \in Nat /\ usTCPBufPos \in Nat /\ pos \in Nat
      /\ ~Overflows(Len(received[s]))
      /\ \A i \in 0 .. pos - 1 : Stored(received[s])[i] = <<n, i>>
  <2>1. Len(received[s]) \in Nat /\ Len(unsent[s]) \in Nat /\ usTCPBufPos \in Nat
    BY PieceStored
  <2>2. ~Overflows(Len(received[s]))
    BY PieceStored, Zenon
  <2>3. \A i \in 0 .. pos - 1 : Stored(received[s])[i] = <<n, i>>
    <3>1. \A i \in 0 .. usTCPBufPos + Len(received[s]) - 1 : Stored(received[s])[i] = <<n, i>>
      BY PieceStored
    <3>2. 0 .. usTCPBufPos + Len(received[s]) - 1 = 0 .. pos - 1
      BY <2>1
    <3> HIDE DEF pos
    <3> QED
      BY <3>1, <3>2
  <2> QED
    BY <2>1, <2>2, <2>3
<1>2. n \in DOMAIN asked /\ len \in 3 .. BufSize - 1 /\ asked[n].kind.claim = len /\ BufSize \in Nat
  BY <1>0, Newest, Constants
<1>3. PICK claim \in ClaimedLength(aucTCPBuf') :
        /\ aucTCPBuf' = Stored(received[s]) /\ usTCPBufPos' = pos
        /\ \/ /\ pos < MB_TCP_FUNC \/ pos < claim
              /\ received' = [received EXCEPT ![s] = <<>>]
              /\ netPc' = "link"
              /\ UNCHANGED <<open, current, unsent, mbPc, group>>
           \/ /\ pos >= MB_TCP_FUNC /\ pos = claim
              /\ received' = [received EXCEPT ![s] = <<>>]
              /\ SetFromNet(EV_FRAME_RECEIVED)
              /\ netPc' = "wait"
              /\ UNCHANGED <<open, current, unsent>>
           \/ /\ pos >= MB_TCP_FUNC /\ pos > claim
  BY <1>0, <1>1, Zenon DEF NetReceive
<1>4. UNCHANGED <<asked, answered, unasked, applied, intstat, socketid>>
  BY DEF NetReceive
<1>5. pos >= 2 => claim = len
  <2> SUFFICES ASSUME pos >= 2 PROVE claim = len
    OBVIOUS
  <2>1. aucTCPBuf'[1] = <<n, 1>>
    BY <1>1, <1>3
  <2> HIDE DEF n, len, pos
  <2>2. ClaimedLength(aucTCPBuf') = {asked[n].kind.claim}
    BY <1>2, <2>1 DEF ClaimedLength, MB_TCP_LEN
  <2> QED
    BY <1>2, <1>3, <2>2
<1>6. Past(0, Unanswered)' /\ Len(asked') = n /\ asked'[n].kind.len = len
  BY <1>0, <1>4 DEF Past
<1> HIDE DEF n, len, pos
<1>7. CASE /\ pos < MB_TCP_FUNC \/ pos < claim
           /\ received' = [received EXCEPT ![s] = <<>>]
           /\ netPc' = "link"
           /\ UNCHANGED <<open, current, unsent, mbPc, group>>
  <2>1. pos < len
    BY <1>1, <1>2, <1>5, <1>7 DEF MB_TCP_FUNC
  <2>2. received'[s] = <<>> /\ Len(received'[s]) = 0
    BY <1>7, Typed
  <2>3. Served(s)'
    BY <1>0, <1>4, <1>7, Typed DEF Served, Empty
  <2>4. usTCPBufPos' + Len(received'[s]) + Len(unsent'[s]) = len
    <3>1. pos + Len(unsent[s]) = len /\ pos \in Nat /\ Len(unsent[s]) \in Nat
      BY <1>0, <1>1
    <3>2. usTCPBufPos' = pos /\ unsent' = unsent
      BY <1>3, <1>7
    <3> QED
      BY <2>2, <3>1, <3>2
  <2>5. \A i \in 0 .. usTCPBufPos' - 1 : aucTCPBuf'[i] = <<Len(asked'), i>>
    BY <1>1, <1>3, <1>6
  <2>6. \A i \in 1 .. Len(unsent'[s]) :
          unsent'[s][i] = <<Len(asked'), usTCPBufPos' + Len(received'[s]) + i - 1>>
    <3>1. pos \in Nat /\ Len(unsent[s]) \in Nat /\ \A i \in 1 .. Len(unsent[s]) : unsent[s][i] = <<n, pos + i - 1>>
      BY <1>0, <1>1
    <3>2. usTCPBufPos' = pos /\ unsent' = unsent /\ Len(asked') = n
      BY <1>3, <1>6, <1>7
    <3>3. \A i \in 1 .. Len(unsent[s]) : pos + 0 + i - 1 = pos + i - 1
      BY <3>1
    <3> QED
      BY <2>2, <3>1, <3>2, <3>3
  <2>7. Asking(s)'
    BY <1>0, <1>3, <1>6, <1>7, <2>1, <2>2, <2>3, <2>4, <2>5, <2>6 DEF Asking
  <2> QED
    BY <1>4, <2>7, Steady
<1>8. CASE /\ pos >= MB_TCP_FUNC /\ pos = claim
           /\ received' = [received EXCEPT ![s] = <<>>]
           /\ SetFromNet(EV_FRAME_RECEIVED)
           /\ netPc' = "wait"
           /\ UNCHANGED <<open, current, unsent>>
  <2>1. pos = len
    BY <1>5, <1>8 DEF MB_TCP_FUNC
  <2>2. unsent[s] = <<>>
    <3>1. Len(unsent[s]) = 0
      BY <1>0, <1>1, <1>2, <2>1
    <3>2. unsent[s] \in Seq(SentChars)
      BY Typed
    <3> QED
      BY <3>1, <3>2, EmptySeq
  <2>3. Served(s)' /\ Empty(s)'
    BY <1>0, <1>4, <1>8, <2>2, Typed DEF Served, Empty
  <2>4. mbPc' = "receive" /\ group' = {}
    <3>1. Dispatch({EV_FRAME_RECEIVED}) = "receive" /\ {} \cup {EV_FRAME_RECEIVED} = {EV_FRAME_RECEIVED}
      <4>1. {EV_FRAME_RECEIVED} # {EV_EXECUTE}
        <5>1. EV_FRAME_RECEIVED # EV_EXECUTE
          BY DEF EV_FRAME_RECEIVED, EV_EXECUTE
        <5> QED
          BY <5>1, Zenon
      <4> QED
        BY <4>1 DEF Dispatch
    <3> QED
      BY <1>0, <1>8, <3>1 DEF SetFromNet
  <2>5. aucTCPBuf'[0][1] = n /\ aucTCPBuf'[2][1] = n
    BY <1>1, <1>2, <1>3, <2>1
  <2>6. Announced(s)'
    BY <1>0, <1>4, <1>6, <1>8, <2>3, <2>4, <2>5 DEF Announced, Whole, MB_TCP_PID, MB_TCP_FUNC
  <2> QED
    BY <1>4, <2>6, Steady
<1>9. ~(pos >= MB_TCP_FUNC /\ pos > claim)
  BY <1>0, <1>1, <1>2, <1>5 DEF MB_TCP_FUNC
<1> QED
  BY <1>3, <1>7, <1>8, <1>9

LEMMA AskingStep ==
  ASSUME TypeInv, PatientInv, NEW s \in Sockets, Asking(s), [Next]_vars
  PROVE  Progress
<1> USE DEF clientVars, libVars, bufVars, loopVars, mbVars
<1>0. /\ Served(s) /\ PatientClients /\ Len(asked) > 0 /\ current[s] = Len(asked)
      /\ mbPc = "event" /\ group = {} /\ netPc \in {"delay", "poll", "recv", "link"}
  BY DEF Asking, Served, PatientInv
<1>1. ASSUME NEW t \in Sockets, Connect(t) \/ Disconnect(t) PROVE Progress
  BY <1>1, AskingComeOrGo
<1>2. ASSUME NEW t \in Sockets, SendRest(t) PROVE Progress
  BY <1>2, AskingSendRest
<1>3. ASSUME NEW t \in Sockets, NEW k \in Kinds, NEW n \in 1 .. BufSize + 1, Ask(t, k, n)
      PROVE  FALSE
  <2>1. current[s] = 0
    BY <1>0, <1>3, Zenon DEF Ask, MayStart, PatientClients
  <2> QED
    BY <1>0, <2>1
<1>4. CASE NetSocket
  <2>1. /\ socketid \in Sockets /\ stat' = intstat[socketid]
        /\ intstat' = [intstat EXCEPT ![socketid] = {}]
        /\ netPc' = IF "recv" \in stat' THEN "recv" ELSE "link"
        /\ UNCHANGED <<asked, answered, unasked, applied, open, current, unsent, received, aucTCPBuf,
                       usTCPBufPos, socketid, mbPc, group>>
    BY <1>4 DEF NetSocket
  <2>2. netPc' = "recv" => socketid = s
    BY <1>0, <2>1 DEF Served, Empty
  <2>3. Served(s)'
    BY <1>0, <2>1, Typed DEF Served, Empty
  <2>4. Asking(s)'
    BY <2>1, <2>2, <2>3, Typed, AskingKept
  <2> QED
    BY <2>1, <2>4, Steady
<1>5. CASE NetReceive
  BY <1>5, AskingReceive
<1>6. CASE Tick \/ NetDone \/ NetLink \/ UNCHANGED vars
  <2>1. /\ UNCHANGED <<asked, answered, unasked, applied, open, current, unsent, received, intstat,
                       aucTCPBuf, usTCPBufPos, mbPc, group>>
        /\ \/ netPc' \in {"delay", "poll"}
           \/ netPc' = netPc /\ socketid' = socketid
    BY <1>0, <1>6 DEF Tick, NetDone, NetLink, vars
  <2>2. Served(s)'
    BY <1>0, <2>1 DEF Served, Empty
  <2>3. netPc' = "recv" => socketid' = s /\ intstat'[s] = {}
    BY <2>1 DEF Asking
  <2>4. Asking(s)'
    BY <1>0, <2>1, <2>2, <2>3, AskingKept
  <2> QED
    BY <2>1, <2>4, Steady
<1>7. ~(NetWait \/ NetSend \/ WatchdogReset)
  BY <1>0 DEF NetWait, NetSend, WatchdogReset
<1>8. ~MBTask
  BY <1>0 DEF MBTask, MBEventGet, MBReceive, MBPost, MBExecute, MBCopy, MBReady, MBWait
<1> QED
  BY <1>1, <1>2, <1>3, <1>4, <1>5, <1>6, <1>7, <1>8 DEF Next, Clients, NetTask

\* While the WCHNET task waits for the answer or sends it no client is heard.
LEMMA WholeKept ==
  ASSUME NEW s \in Sockets, Whole(s),
         UNCHANGED <<asked, open, current, unsent, received, intstat, socketid, aucTCPBuf>>
  PROVE  Whole(s)'
BY DEF Whole, Served, Empty

LEMMA ServingClients ==
  ASSUME netPc \in {"wait", "blocked", "send"}
  PROVE  ~Clients
BY DEF Clients, Connect, Disconnect, SendRest, Ask

LEMMA AnnouncedStep ==
  ASSUME TypeInv, PatientInv, NEW s \in Sockets, Announced(s), [Next]_vars
  PROVE  Progress
<1> USE DEF clientVars, libVars, bufVars, loopVars, mbVars
<1>0. /\ PatientClients /\ Whole(s) /\ Past(0, Unanswered) /\ Len(asked) > 0
      /\ netPc \in {"wait", "blocked"} /\ mbPc = "receive" /\ group = {}
      /\ aucTCPBuf[MB_TCP_PID][1] = Len(asked)
  BY DEF PatientInv, Announced, Whole, Served
<1>1. CASE NetWait
  <2>1. /\ netPc' = "blocked"
        /\ UNCHANGED <<asked, answered, unasked, applied, open, current, unsent, received, intstat, socketid,
                       aucTCPBuf, mbPc, group>>
    BY <1>0, <1>1 DEF NetWait
  <2>2. Announced(s)'
    BY <1>0, <2>1, WholeKept DEF Announced, Past
  <2> QED
    BY <2>1, <2>2, Steady
<1>2. CASE MBReceive
  <2>1. Len(asked) \in DOMAIN asked /\ asked[Len(asked)].kind.pid
    BY <1>0, Newest
  <2>2. /\ netPc = "blocked" /\ usTCPBufPos' = 0 /\ ucMBFrame' = TRUE /\ mbPc' = "post"
        /\ UNCHANGED <<asked, answered, unasked, applied, open, current, unsent, received, intstat, socketid,
                       aucTCPBuf, netPc, group>>
    BY <1>0, <1>2, <2>1 DEF MBReceive, MBRuns, GetRequest
  <2>3. Taken(s)'
    BY <1>0, <2>2, WholeKept DEF Taken, Past
  <2> QED
    BY <2>2, <2>3, Steady
<1>3. CASE UNCHANGED vars
  <2>1. Announced(s)'
    BY <1>0, <1>3, WholeKept DEF vars, Announced, Past
  <2> QED
    BY <1>3, <2>1, Steady DEF vars
<1>4. ~(Clients \/ Tick \/ NetSocket \/ NetDone \/ NetReceive \/ NetSend \/ NetLink \/ WatchdogReset)
  BY <1>0, ServingClients DEF Tick, NetSocket, NetDone, NetReceive, NetSend, NetLink, WatchdogReset
<1>5. ~(MBEventGet \/ MBPost \/ MBExecute \/ MBCopy \/ MBReady \/ MBWait)
  BY <1>0 DEF MBEventGet, MBPost, MBExecute, MBCopy, MBReady, MBWait
<1> QED
  BY <1>1, <1>2, <1>3, <1>4, <1>5 DEF Next, NetTask, MBTask

LEMMA Bits ==
  /\ Dispatch({EV_EXECUTE}) = "execute" /\ EV_EXECUTE # DATA_READY
  /\ \A b : {} \cup {b} = {b}
<1>1. EV_EXECUTE # EV_FRAME_RECEIVED /\ EV_EXECUTE # DATA_READY
  BY DEF EV_FRAME_RECEIVED, EV_EXECUTE, DATA_READY
<1>2. {EV_EXECUTE} # {EV_FRAME_RECEIVED}
  BY <1>1, Zenon
<1>3. Dispatch({EV_EXECUTE}) = "execute"
  BY <1>2 DEF Dispatch
<1> QED
  BY <1>1, <1>3

LEMMA TakenExecute ==
  ASSUME TypeInv, PatientInv, NEW s \in Sockets, Taken(s), MBExecute
  PROVE  Progress
<1> USE DEF clientVars, libVars, bufVars, loopVars, mbVars
<1> DEFINE n == Len(asked)
<1>0. /\ PatientClients /\ Whole(s) /\ Past(0, Unanswered)
      /\ netPc = "blocked" /\ mbPc = "execute" /\ usTCPBufPos = 0 /\ group = {}
      /\ aucTCPBuf[MB_TCP_PID][1] = n /\ aucTCPBuf[MB_TCP_FUNC][1] = n
  BY DEF PatientInv, Taken, Whole, MBExecute
<1>1. ucMBFrame
  BY DEF Taken
<1>2. n \in Requests /\ n > 0
  BY <1>0, Newest, Constants DEF Whole, Served, Requests
<1>3. applied[n] = 0 /\ answered[n] = Unanswered /\ DOMAIN asked = 1 .. n
  BY <1>0, <1>2, Newest DEF Past
<1>4. /\ answer' = n /\ mbPc' = "copy"
      /\ applied' = [q \in Requests |-> IF q = n /\ applied[q] < 2 THEN applied[q] + 1 ELSE applied[q]]
  BY <1>0, <1>1, Zenon DEF MBExecute
<1>5. applied' = [applied EXCEPT ![n] = 1]
  <2> HIDE DEF n
  <2>1. applied \in [Requests -> 0 .. 2]
    BY Typed
  <2>2. \A q \in Requests : (IF q = n /\ applied[q] < 2 THEN applied[q] + 1 ELSE applied[q])
                              = IF q = n THEN 1 ELSE applied[q]
    BY <1>3, <2>1
  <2>3. applied' = [q \in Requests |-> IF q = n THEN 1 ELSE applied[q]]
    BY <1>4, <2>2
  <2> QED
    BY <1>2, <2>1, <2>3
<1>6. UNCHANGED <<asked, answered, unasked, open, current, unsent, received, intstat, socketid, aucTCPBuf,
                  usTCPBufPos, netPc, group>>
  BY DEF MBExecute
<1>7. Past(1, Unanswered)'
  <2>1. Len(asked') = n /\ answered' = answered /\ n \in Nat
    BY <1>2, <1>6 DEF Requests
  <2> HIDE DEF n
  <2>2. ASSUME NEW q \in Requests
        PROVE  applied'[q] = IF q < n THEN 1 ELSE IF q = n THEN 1 ELSE 0
    <3>1. applied[q] = IF q < n THEN 1 ELSE IF q = n THEN 0 ELSE 0
      BY <1>0 DEF Past, n
    <3> QED
      BY <1>5, <2>1, <3>1, Typed DEF Requests
  <2>3. \A q \in Requests : answered[q] = IF q < n THEN q ELSE IF q = n THEN Unanswered ELSE Unanswered
    BY <1>0 DEF Past, n
  <2> QED
    BY <2>1, <2>2, <2>3 DEF Past
<1>8. Executed(s)'
  BY <1>0, <1>4, <1>6, <1>7, WholeKept DEF Executed
<1>9. PatientInv'
  BY <1>6, <1>8, Zenon DEF PatientInv, PatientClients
<1>10. Transaction!Apply
  <2>1. Len([r \in DOMAIN asked |-> Demand]) = n /\ [r \in DOMAIN asked |-> Demand][n] = Demand
    BY <1>2, <1>3 DEF Requests
  <2>2. Transaction!Current = n
    BY <2>1 DEF Transaction!Current
  <2>3. Transaction!ForSlave
    BY <1>2, <2>1, <2>2 DEF Transaction!ForSlave, Demand
  <2> QED
    BY <1>3, <1>5, <1>6, <2>2, <2>3 DEF Transaction!Apply
<1> QED
  BY <1>9, <1>10 DEF Progress, Transaction!Next

LEMMA TakenStep ==
  ASSUME TypeInv, PatientInv, NEW s \in Sockets, Taken(s), [Next]_vars
  PROVE  Progress
<1> USE DEF clientVars, libVars, bufVars, loopVars, mbVars
<1>0. /\ Whole(s) /\ Past(0, Unanswered) /\ netPc = "blocked" /\ usTCPBufPos = 0
      /\ \/ mbPc \in {"post", "execute"} /\ group = {}
         \/ mbPc \in {"delay", "get"} /\ group = {EV_EXECUTE}
  BY DEF Taken
<1>1. ASSUME UNCHANGED <<asked, answered, unasked, applied, open, current, unsent, received, intstat,
                         socketid, aucTCPBuf, usTCPBufPos, netPc, ucMBFrame>>,
             \/ mbPc' \in {"post", "execute"} /\ group' = {}
             \/ mbPc' \in {"delay", "get"} /\ group' = {EV_EXECUTE}
      PROVE  Progress
  <2>1. ucMBFrame'
    BY <1>1, Zenon DEF Taken
  <2>2. Taken(s)'
    BY <1>0, <1>1, <2>1, WholeKept DEF Taken, Past
  <2> QED
    BY <1>1, <2>2, Steady
<1>2. CASE Tick \/ UNCHANGED vars
  BY <1>0, <1>1, <1>2 DEF Tick, vars
<1>3. CASE MBEventGet
  BY <1>0, <1>1, <1>3, Bits DEF MBEventGet
<1>4. CASE MBPost
  BY <1>0, <1>1, <1>4, Bits DEF MBPost, SetFromMB
<1>5. CASE MBExecute
  BY <1>5, TakenExecute
<1>6. ~(Clients \/ NetTask \/ WatchdogReset)
  BY <1>0, ServingClients DEF NetTask, NetSocket, NetDone, NetReceive, NetWait, NetSend, NetLink, WatchdogReset
<1>7. ~(MBReceive \/ MBCopy \/ MBReady \/ MBWait)
  BY <1>0 DEF MBReceive, MBCopy, MBReady, MBWait
<1> QED
  BY <1>2, <1>3, <1>4, <1>5, <1>6, <1>7 DEF Next, MBTask

LEMMA ExecutedSend ==
  ASSUME TypeInv, PatientInv, NEW s \in Sockets, Executed(s), NetSend
  PROVE  Progress
<1> USE DEF clientVars, libVars, bufVars, loopVars, mbVars
<1> DEFINE n == Len(asked)
<1>0. /\ PatientClients /\ Whole(s) /\ Past(1, Unanswered) /\ Served(s) /\ Empty(s) /\ socketid = s
      /\ s \in open /\ current[s] = n /\ netPc = "send" /\ mbPc = "wait" /\ usTCPBufPos = 0 /\ group = {}
      /\ outTCPBuf = n
  BY DEF PatientInv, Executed, Whole, Served, NetSend
<1>1. n \in Requests /\ n > 0
  BY <1>0, Newest, Constants DEF Served, Requests
<1>2. applied[n] = 1 /\ answered[n] = Unanswered /\ DOMAIN asked = 1 .. n
  BY <1>0, <1>1, Newest DEF Past
<1>3. /\ answered' = [answered EXCEPT ![n] = n] /\ current' = [current EXCEPT ![s] = 0]
      /\ UNCHANGED <<unsent, open, received, asked, intstat, usTCPBufPos, applied>>
      /\ netPc' = "link" /\ SetFromNet(DATA_SEND)
  <2>1. Patient
    BY <1>0, Zenon DEF PatientClients
  <2> QED
    BY <1>0, <1>1, <2>1 DEF NetSend, SendSignal
<1>4. ~unasked'
  <2>1. unasked' = (unasked \/ n = 0) /\ ~unasked
    BY <1>0, Zenon DEF NetSend, PatientInv, PatientClients
  <2>2. ~(n = 0)
    BY <1>1
  <2> HIDE DEF n
  <2> QED
    BY <2>1, <2>2, Zenon
<1>5. mbPc' = "wait" /\ group' = {DATA_SEND}
  BY <1>0, <1>3, Bits DEF SetFromNet
<1>6. Past(1, Len(asked))'
  <2>1. Len(asked') = n /\ n \in Nat
    BY <1>1, <1>3 DEF Requests
  <2> HIDE DEF n
  <2>2. ASSUME NEW q \in Requests
        PROVE  answered'[q] = IF q < n THEN q ELSE IF q = n THEN n ELSE Unanswered
    <3>1. answered[q] = IF q < n THEN q ELSE IF q = n THEN Unanswered ELSE Unanswered
      BY <1>0 DEF Past, n
    <3> QED
      BY <1>3, <2>1, <3>1, Typed DEF Requests
  <2>3. \A q \in Requests : applied'[q] = IF q < n THEN 1 ELSE IF q = n THEN 1 ELSE 0
    BY <1>0, <1>3 DEF Past, n
  <2> QED
    BY <2>1, <2>2, <2>3 DEF Past
<1>7. \A u \in Sockets : current'[u] = 0 /\ Empty(u)'
  BY <1>0, <1>3, Typed DEF Served, Empty
<1>8. Quiet'
  BY <1>0, <1>3, <1>5, <1>6, <1>7 DEF Quiet
<1>9. PatientInv'
  BY <1>0, <1>4, <1>8, Zenon DEF PatientInv, PatientClients
<1>10. Transaction!BeginAnswer
  <2>1. Len([r \in DOMAIN asked |-> Demand]) = n /\ [r \in DOMAIN asked |-> Demand][n] = Demand
    BY <1>1, <1>2 DEF Requests
  <2>2. Transaction!Current = n
    BY <2>1 DEF Transaction!Current
  <2>3. Transaction!Unicast
    BY <1>1, <2>1, <2>2 DEF Transaction!Unicast, Transaction!ForSlave, Demand
  <2>4. asked # <<>> /\ answered[n] # n /\ answered'[n] = n
    <3>1. answered'[n] = n
      BY <1>1, <1>3, Typed
    <3> QED
      BY <1>1, <1>2, <3>1 DEF Unanswered, Requests
  <2> QED
    BY <1>2, <1>3, <2>2, <2>3, <2>4 DEF Transaction!BeginAnswer
<1> QED
  BY <1>9, <1>10 DEF Progress, Transaction!Next

LEMMA ExecutedStep ==
  ASSUME TypeInv, PatientInv, NEW s \in Sockets, Executed(s), [Next]_vars
  PROVE  Progress
<1> USE DEF clientVars, libVars, bufVars, loopVars, mbVars
<1>0. /\ Whole(s) /\ Past(1, Unanswered) /\ usTCPBufPos = 0 /\ group = {}
      /\ \/ netPc = "blocked" /\ mbPc = "copy" /\ answer = Len(asked)
         \/ netPc = "blocked" /\ mbPc = "ready" /\ outTCPBuf = Len(asked)
         \/ netPc = "send" /\ mbPc = "wait" /\ outTCPBuf = Len(asked)
  BY DEF Executed
<1>1. ASSUME UNCHANGED <<asked, answered, unasked, applied, open, current, unsent, received, intstat,
                         socketid, aucTCPBuf, usTCPBufPos, group>>,
             \/ netPc' = "blocked" /\ mbPc' = "copy" /\ answer' = Len(asked)
             \/ netPc' = "blocked" /\ mbPc' = "ready" /\ outTCPBuf' = Len(asked)
             \/ netPc' = "send" /\ mbPc' = "wait" /\ outTCPBuf' = Len(asked)
      PROVE  Progress
  <2>1. Executed(s)'
    BY <1>0, <1>1, WholeKept DEF Executed, Past
  <2> QED
    BY <1>1, <2>1, Steady
<1>2. CASE MBCopy \/ UNCHANGED vars
  BY <1>0, <1>1, <1>2 DEF MBCopy, vars
<1>3. CASE MBReady
  BY <1>0, <1>1, <1>3 DEF MBReady, MBRuns, SetFromMB
<1>4. CASE NetSend
  BY <1>4, ExecutedSend
<1>5. ~(Clients \/ Tick \/ NetSocket \/ NetDone \/ NetReceive \/ NetWait \/ NetLink \/ WatchdogReset)
  BY <1>0, ServingClients DEF Tick, NetSocket, NetDone, NetReceive, NetWait, NetLink, WatchdogReset
<1>6. ~(MBEventGet \/ MBReceive \/ MBPost \/ MBExecute \/ MBWait)
  BY <1>0 DEF MBRuns, MBEventGet, MBReceive, MBPost, MBExecute, MBWait
<1> QED
  BY <1>1, <1>2, <1>3, <1>4, <1>5, <1>6 DEF Next, NetTask, MBTask

LEMMA PatientInvInit == PatientClients /\ Init => PatientInv /\ Transaction!Init
<1> SUFFICES ASSUME PatientClients, Init PROVE PatientInv /\ Transaction!Init
  OBVIOUS
<1>1. Len(asked) = 0 /\ asked = <<>> /\ DOMAIN asked = {}
  BY DEF Init
<1>2. Past(1, Len(asked))
  BY <1>1, Constants DEF Init, Past, Requests, Unanswered
<1>3. Quiet
  BY <1>2 DEF Init, Quiet, Empty
<1>4. ~unasked
  BY Zenon DEF Init
<1>5. [r \in DOMAIN asked |-> Demand] = <<>>
  BY <1>1
<1> QED
  BY <1>1, <1>3, <1>4, <1>5 DEF PatientInv, Transaction!Init, Init, Requests

LEMMA PatientInvNext ==
  TypeInv /\ PatientInv /\ [Next]_vars => PatientInv' /\ [Transaction!Next]_(Transaction!vars)
BY QuietStep, AskingStep, AnnouncedStep, TakenStep, ExecutedStep DEF PatientInv, Progress

LEMMA TypeInvAlways == Spec => []TypeInv
<1>1. TypeInv /\ [Next]_vars => TypeInv'
  BY ClientTypeNext, BufTypeNext, SocketTypeNext, TaskTypeNext, FlagTypeNext, AtSocketNext
     DEF TypeInv, TypeOK
<1> QED
  BY TypeInvInit, <1>1, PTL DEF Spec

LEMMA PatientInvAlways == PatientClients /\ Spec => []PatientInv
BY PatientInvInit, PatientInvNext, TypeInvAlways, PTL DEF Spec

\* With patient clients that send sound requests each answer goes to the client that
\* waits for it, and is the answer to its request (port/porttcp.c:418-432).
THEOREM AnswerMatchesPatient == PatientClients /\ Spec => []AnswerMatches
<1>1. PatientInv => AnswerMatches
  <2> SUFFICES ASSUME PatientInv PROVE AnswerMatches
    OBVIOUS
  <2>1. \E a, w : Past(a, w) /\ w \in {Len(asked), Unanswered}
    BY DEF PatientInv, Quiet, Asking, Announced, Taken, Executed
  <2>2. \A r \in Requests : answered[r] \in {Unanswered, r}
    BY <2>1 DEF Past
  <2>3. ~unasked
    BY Zenon DEF PatientInv
  <2> QED
    BY <2>2, <2>3, Zenon DEF AnswerMatches
<1> QED
  BY <1>1, PatientInvAlways, PTL

\* With patient clients the Modbus task has taken the request before its answer is sent:
\* the position is 0 again, and the next request starts at the front of aucTCPBuf.
THEOREM RequestTakenPatient == PatientClients /\ Spec => []RequestTaken
<1>1. PatientInv => RequestTaken
  BY DEF PatientInv, Quiet, Asking, Announced, Taken, Executed, RequestTaken
<1> QED
  BY <1>1, PatientInvAlways, PTL

\* With patient clients the slave implements the steps of a transaction: every request is
\* applied exactly once, before its one answer.
THEOREM TransactionSteps ==
  PatientClients /\ Spec => Transaction!Init /\ [][Transaction!Next]_(Transaction!vars)
BY PatientInvInit, PatientInvNext, PatientInvAlways, TypeInvAlways, PTL DEF Spec
=============================================================================
