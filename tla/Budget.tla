------------------------------- MODULE Budget -------------------------------
(***************************************************************************)
(* The lock-free admission counter of src/budget.rs: a load, a loop around *)
(* a weak compare-and-exchange, and a fetch_sub when the lease is dropped. *)
(* Each atomic operation is one step, and threads interleave between them. *)
(*                                                                         *)
(* Every caller in the repository acquires one unit (FiberRuntimeClient::  *)
(* submit), so a lease stands for one.                                     *)
(***************************************************************************)
EXTENDS Ceiling, Naturals, FiniteSets

CONSTANT Threads              \* producers sharing the ceiling

ASSUME BudgetAssumption ==
  /\ IsFiniteSet(Threads)
  /\ Capacity \in Nat

VARIABLES
  seen,           \* values `used` has had: a relaxed load may return any
  pc,             \* where each thread is: "idle", "try", "held"
  observed        \* each thread's local copy of the counter

budgetVars == <<used, seen, pc, observed>>

BudgetInit ==
  /\ used = 0
  /\ seen = {0}
  /\ pc = [t \in Threads |-> "idle"]
  /\ observed = [t \in Threads |-> 0]

\* let mut used = ceiling.used.load(Relaxed)
Load(t) ==
  /\ pc[t] = "idle"
  /\ \E v \in seen : observed' = [observed EXCEPT ![t] = v]
  /\ pc' = [pc EXCEPT ![t] = "try"]
  /\ UNCHANGED <<used, seen>>

\* Mutant of Room: off by one.
RoomForOneMore(v) == IF Capacity >= v THEN Capacity + 1 - v ELSE 0

\* capacity.saturating_sub(used)
Room(v) == IF Capacity > v THEN Capacity - v ELSE 0

\* if amount > capacity.saturating_sub(used) { return false }
Refuse(t) ==
  /\ pc[t] = "try" /\ 1 > Room(observed[t])
  /\ pc' = [pc EXCEPT ![t] = "idle"]
  /\ UNCHANGED <<used, seen, observed>>

\* Mutant of Exchange: a plain store in place of the compare-and-exchange.
StoreBlindly(t) ==
  /\ pc[t] = "try" /\ 1 =< Room(observed[t])
  /\ used' = observed[t] + 1
  /\ seen' = seen \cup {used'}
  /\ pc' = [pc EXCEPT ![t] = "held"]
  /\ UNCHANGED observed

\* compare_exchange_weak succeeded: the lease is alive.
Exchange(t) ==
  /\ pc[t] = "try" /\ 1 =< Room(observed[t])
  /\ used = observed[t]
  /\ used' = observed[t] + 1
  /\ seen' = seen \cup {used'}
  /\ pc' = [pc EXCEPT ![t] = "held"]
  /\ UNCHANGED observed

\* It failed, for another's change or spuriously, and reports what it saw.
ExchangeFails(t) ==
  /\ pc[t] = "try" /\ 1 =< Room(observed[t])
  /\ observed' = [observed EXCEPT ![t] = used]
  /\ UNCHANGED <<used, seen, pc>>

\* Lease::drop: fetch_sub, with its debug_assert!(previous >= held).
FetchSub(t) ==
  /\ pc[t] = "held"
  /\ used' = used - 1
  /\ seen' = seen \cup {used'}
  /\ pc' = [pc EXCEPT ![t] = "idle"]
  /\ UNCHANGED observed

BudgetNext == \E t \in Threads :
  Load(t) \/ Refuse(t) \/ Exchange(t) \/ ExchangeFails(t) \/ FetchSub(t)

BudgetSpec == BudgetInit /\ [][BudgetNext]_budgetVars

-----------------------------------------------------------------------------
(* Properties. *)

Holders == {t \in Threads : pc[t] = "held"}

\* Every variable has the type the code gives it; `used` is a usize, which a
\* release too many would wrap.
BudgetTypeOK ==
  /\ used \in Nat
  /\ seen \subseteq Nat
  /\ pc \in [Threads -> {"idle", "try", "held"}]
  /\ observed \in [Threads -> Nat]

\* The counter is the number of leases alive, and no interleaving of loads and
\* exchanges lends out more than the ceiling.
Exact == used = Cardinality(Holders) /\ used =< Capacity

\* The counter implements the abstract permit pool.
Pool == INSTANCE Admission WITH holders <- Holders

Implements == Pool!Spec
=============================================================================
