----------------------------- MODULE ByteStream -----------------------------
(***************************************************************************)
(* What the clients of winhandl.c may rely on, without threads or events:  *)
(* each handle is a stream of bytes.  One side produces, the other         *)
(* consumes, in order and each byte once; after the producer has ended the *)
(* stream nothing is added to it, and the consumer sees the end only after *)
(* the last byte.  Either side may stop for good at any time.              *)
(***************************************************************************)
EXTENDS Naturals

CONSTANT Stream

VARIABLES produced,    \* bytes put into each stream so far
          consumed,    \* bytes taken out of it
          ended,       \* the producer has said that this was all
          closed       \* the consumer has been told so
vars == <<produced, consumed, ended, closed>>

Init ==
    /\ produced = [s \in Stream |-> 0] /\ consumed = [s \in Stream |-> 0]
    /\ ended = [s \in Stream |-> FALSE] /\ closed = [s \in Stream |-> FALSE]

Produce(s) ==
    /\ ~ended[s]
    /\ produced'[s] > produced[s]
    /\ produced' = [produced EXCEPT ![s] = produced'[s]]
    /\ UNCHANGED <<consumed, ended, closed>>

Consume(s) ==
    /\ ~closed[s]
    /\ consumed'[s] \in consumed[s] + 1 .. produced[s]
    /\ consumed' = [consumed EXCEPT ![s] = consumed'[s]]
    /\ UNCHANGED <<produced, ended, closed>>

\* The end of the stream, and its arrival, perhaps in one step.
End(s) ==
    /\ ~closed[s]
    /\ ended' = [ended EXCEPT ![s] = TRUE]
    /\ \E c \in BOOLEAN : /\ c => consumed[s] = produced[s]
                          /\ closed' = [closed EXCEPT ![s] = c]
    /\ UNCHANGED <<produced, consumed>>

Next == \E s \in Stream : Produce(s) \/ Consume(s) \/ End(s)
Spec == Init /\ [][Next]_vars
=============================================================================
