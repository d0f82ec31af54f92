------------------------------- MODULE Answers ------------------------------
(***************************************************************************)
(* What asking across threads promises: a question is decided at most once *)
(* and only after it was asked, and whoever asked learns what was decided, *)
(* once, or never.                                                         *)
(***************************************************************************)
CONSTANTS
  Questions,
  Decisions,                  \* what a question may be answered with
  Undecided                   \* not one of Decisions

VARIABLES
  asked,                      \* questions on their way
  decision,                   \* of the thread that answers
  learned                     \* what the thread that asked was told

vars == <<asked, decision, learned>>

Init ==
  /\ asked = {}
  /\ decision = [q \in Questions |-> Undecided]
  /\ learned = [q \in Questions |-> Undecided]

Ask(q) ==
  /\ q \notin asked
  /\ asked' = asked \cup {q}
  /\ UNCHANGED <<decision, learned>>

Decide(q) ==
  /\ q \in asked /\ decision[q] = Undecided
  /\ \E d \in Decisions : decision' = [decision EXCEPT ![q] = d]
  /\ UNCHANGED <<asked, learned>>

Learn(q) ==
  /\ decision[q] # Undecided /\ learned[q] = Undecided
  /\ learned' = [learned EXCEPT ![q] = decision[q]]
  /\ UNCHANGED <<asked, decision>>

Next == \E q \in Questions : Ask(q) \/ Decide(q) \/ Learn(q)

Spec == Init /\ [][Next]_vars
=============================================================================
