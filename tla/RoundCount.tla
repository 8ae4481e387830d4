----------------------------- MODULE RoundCount -----------------------------
(***************************************************************************)
(* What the demo of FreeRTOS/main_queue.c promises to whoever dumps its    *)
(* markers: in every round each worker completes exactly one item, and the *)
(* round is counted once all of them have.                                 *)
(***************************************************************************)
EXTENDS Integers

CONSTANTS Worker, CounterMod

VARIABLES marker, rounds

vars == <<marker, rounds>>

Inc(n) == (n + 1) % CounterMod

Init ==
  /\ marker = [w \in Worker |-> 0]
  /\ rounds = 0

\* A worker that has not yet worked in this round completes its item.
Complete(w) ==
  /\ marker[w] = rounds
  /\ marker' = [marker EXCEPT ![w] = Inc(@)]
  /\ UNCHANGED rounds

\* The round ends when every worker has completed one.
EndRound ==
  /\ \A w \in Worker : marker[w] = Inc(rounds)
  /\ rounds' = Inc(rounds)
  /\ UNCHANGED marker

Next == EndRound \/ \E w \in Worker : Complete(w)

Spec == Init /\ [][Next]_vars

=============================================================================
