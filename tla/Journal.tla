------------------------------- MODULE Journal -------------------------------
(***************************************************************************)
(* What the journal of the controller promises, without saying how it is   *)
(* stored: a bounded list of whole records, oldest first.  DataModel,      *)
(* with its ring of slots, its two counters and power that may fail        *)
(* between any two writes, is shown to implement it.                       *)
(***************************************************************************)
EXTENDS Naturals, Sequences

CONSTANTS
    RECORD_DATA_SIZE,   \* how many records the journal holds
    Records             \* the records, numbered in the order they are added

VARIABLE log            \* the records a restart will find, oldest first

TypeOK ==
    /\ log \in Seq(Records)
    /\ Len(log) <= RECORD_DATA_SIZE

Init == log = <<>>

(* A record takes effect as a whole, behind all that are older. *)
Append_(r) ==
    /\ Len(log) < RECORD_DATA_SIZE
    /\ \A i \in DOMAIN log : log[i] < r
    /\ log' = Append(log, r)

(* A full journal gives up its oldest record to make room, and no other. *)
GiveUp ==
    /\ Len(log) = RECORD_DATA_SIZE
    /\ log' = Tail(log)

(* The operator's reset; also what a failure of the EEPROM amounts to. *)
Clear == log' = <<>>

Next == (\E r \in Records : Append_(r)) \/ GiveUp \/ Clear

Spec == Init /\ [][Next]_log
=============================================================================
