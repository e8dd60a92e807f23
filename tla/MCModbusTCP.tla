----------------------------- MODULE MCModbusTCP -----------------------------
(* Instances of ModbusTCP for TLC: kinds of requests. *)
EXTENDS ModbusTCP

Ask1(l, c, p) == [len |-> l, claim |-> c, pid |-> p]

\* Sound requests, one with and one without data.
SoundKinds == { Ask1(3, 3, TRUE), Ask1(4, 4, TRUE) }

\* Also one that claims too little, a bare header and one of another protocol
\* (one that claims too much is like one that is cut off).
AllKinds == { Ask1(4, 4, TRUE), Ask1(4, 3, TRUE), Ask1(2, 2, TRUE), Ask1(3, 3, FALSE) }
=============================================================================
