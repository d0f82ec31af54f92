------------------------------ MODULE Admission -----------------------------
(***************************************************************************)
(* What admission promises: at most Capacity requests hold a permit, one   *)
(* is acquired without waiting or refused, and it is given back once.  A   *)
(* refusal says only that the caller is told so; nothing changes.          *)
(***************************************************************************)
EXTENDS Naturals, FiniteSets

CONSTANTS Threads, Capacity

VARIABLE holders              \* who holds a permit

Init == holders = {}

Acquire(t) ==
  /\ t \notin holders
  /\ Cardinality(holders) < Capacity
  /\ holders' = holders \cup {t}

Release(t) ==
  /\ t \in holders
  /\ holders' = holders \ {t}

Next == \E t \in Threads : Acquire(t) \/ Release(t)

Spec == Init /\ [][Next]_holders
=============================================================================
