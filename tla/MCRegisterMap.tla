---------------------------- MODULE MCRegisterMap ----------------------------
(* RegisterMap for TLC: requests around every boundary of the tables and counts,   *)
(* for every function, and writes of the limits that are in and out of order.      *)
EXTENDS RegisterMap

Request(fc, len, addr, count, bytes, waddr, wcount, value) ==
    [fc |-> fc, len |-> len, addr |-> addr, count |-> count, bytes |-> bytes,
     waddr |-> waddr, wcount |-> wcount, value |-> value]

Vector(minOn, minOff, maxOff, maxOn) ==
    [i \in Limits |-> CASE i = V_MIN_ON -> minOn [] i = V_MIN_OFF -> minOff
                         [] i = V_MAX_OFF -> maxOff [] OTHER -> maxOn]

Ordered == Vector(150, 160, 241, 245)

(* At the ends of every table, and past them. *)
Bits == [fc : {1, 2}, addr : {0, 3, 4, 65535}, count : {0, 1, 4, 5, 2000}]
          \cup [fc : {4}, addr : {0, 39, 40, 65535}, count : {0, 1, 40, 41, 125, 126}]
Registers == [fc : {3}, addr : {0, 36, 98, 99, 113, 114, 65534, 65535}, count : {0, 15, 37, 126, 257}]
Single == [fc : {5}, addr : {0, 3, 4, 65535}, count : {0, 1, 65280}]
          \cup [fc : {6}, addr : {0, 36, 37, 98, 99, 113, 114, 65535}, count : {0}]

Plain == {Request(h.fc, 5, h.addr, h.count, 0, 0, 0, Ordered) :
            h \in Bits \cup Registers \cup Single}
Multiple == {Request(15, 6 + b, a, n, b, 0, 0, Ordered) :
                a \in {0, 3, 65535}, n \in {0, 1, 4, 5}, b \in {0, 1}}
       \cup {Request(16, 6 + 2 * n + d, a, n, 2 * n + d, 0, 0, Ordered) :
                a \in {36, 98, 113, 65535}, n \in {0, 1, 2, 121}, d \in {0, 1}}
Both == {Request(23, 10 + 2 * wn + d, a, n, 2 * wn + d, wa, wn, Ordered) :
            a \in {0, 114}, n \in {15, 126}, wa \in {36, 98, 113}, wn \in {0, 1, 2}, d \in {0, 1}}
Malformed == {Request(fc, len, 9, 1, 2, 9, 1, Ordered) :
            fc \in FunctionCodes \cup {0, 7, 43, 128, 255}, len \in {1, 9}}

(* The limits: one at a time, all four at once, and read. *)
SetLimit == {Request(6, 5, i, 0, 0, 0, 0, [j \in Limits |-> v]) :
            i \in Limits, v \in {195, 199, 245, 300}}
SetLimits == {Request(16, 14, V_MIN_ON, 4, 8, 0, 0, v) :
            v \in {Vector(150, 160, 241, 245), Vector(200, 210, 220, 230)}}
ReadLimits == {Request(3, 5, V_MIN_ON, 4, 0, 0, 0, Ordered)}
WriteAndRead == {Request(23, 12, V_MIN_ON, 4, 2, V_MAX_ON, 1, [j \in Limits |-> 251])}

LimitRequests == SetLimit \cup SetLimits \cup ReadLimits \cup WriteAndRead
AllRequests ==
    Plain \cup Multiple \cup Both \cup Malformed \cup LimitRequests
=============================================================================
