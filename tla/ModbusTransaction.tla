-------------------------- MODULE ModbusTransaction --------------------------
(***************************************************************************)
(* What a Modbus slave promises to a master that waits for it: a sound     *)
(* request that addresses the slave takes effect exactly once; a unicast   *)
(* one is then answered, by one complete answer; anything else is ignored. *)
(* The master moves on only when the slave is through with its request.    *)
(***************************************************************************)
EXTENDS Integers, Sequences

CONSTANTS Kinds, MaxFrames

VARIABLES
  sent,      \* the kinds of the frames sent so far
  applied,   \* how often each has taken effect
  answer     \* what the master has heard since: "none", "partial" or "complete"

vars == <<sent, applied, answer>>

Current == Len(sent)

\* The current frame is a sound one for this slave.
ForSlave == Current > 0 /\ sent[Current].ok /\ sent[Current].adr # "other"
Unicast  == ForSlave /\ sent[Current].adr = "own"

Settled == /\ ForSlave => applied[Current] = 1
           /\ Unicast => answer = "complete"

Init == /\ sent = <<>>
        /\ applied = [f \in 1 .. MaxFrames |-> 0]
        /\ answer = "none"

Request(k) == /\ Current < MaxFrames
              /\ Settled
              /\ sent' = Append(sent, k)
              /\ answer' = "none"
              /\ UNCHANGED applied

Apply == /\ ForSlave /\ applied[Current] = 0
         /\ applied' = [applied EXCEPT ![Current] = 1]
         /\ UNCHANGED <<sent, answer>>

BeginAnswer == /\ Unicast /\ applied[Current] = 1 /\ answer = "none"
               /\ answer' \in {"partial", "complete"}
               /\ UNCHANGED <<sent, applied>>

EndAnswer == /\ answer = "partial"
             /\ answer' = "complete"
             /\ UNCHANGED <<sent, applied>>

Next == (\E k \in Kinds : Request(k)) \/ Apply \/ BeginAnswer \/ EndAnswer

Spec == Init /\ [][Next]_vars /\ WF_vars(Apply) /\ WF_vars(BeginAnswer) /\ WF_vars(EndAnswer)
=============================================================================
