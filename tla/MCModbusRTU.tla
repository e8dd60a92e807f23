---------------------------- MODULE MCModbusRTU ----------------------------
(* Instances of ModbusRTU for TLC: kinds of frames. *)
EXTENDS ModbusRTU

Frame(a, l, k, r) == [adr |-> a, len |-> l, ok |-> k, rlen |-> r]

\* What a well-behaved master sends: requests to this slave, to another one and
\* to all, and a damaged one.
PacedKinds == { Frame("own", 4, TRUE, 2), Frame("own", 5, TRUE, 2), Frame("broadcast", 4, TRUE, 2),
                Frame("other", 4, TRUE, 2), Frame("own", 4, FALSE, 2) }

HastyKinds == { Frame("own", 5, TRUE, 2), Frame("other", 4, TRUE, 2), Frame("own", 8, TRUE, 3) }

\* A frame that takes longer than the period of the t3.5 timer.
LongKinds == { Frame("own", 8, TRUE, 2), Frame("own", 4, TRUE, 2) }
=============================================================================
