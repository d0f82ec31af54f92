------------------------------ MODULE Ceiling -------------------------------
(***************************************************************************)
(* struct Ceiling of src/budget.rs, which every producer shares: Budget    *)
(* has the atomic operations on it, Reactor the permits they lend out.     *)
(***************************************************************************)

CONSTANT Capacity             \* Ceiling.capacity: max_inflight_requests

VARIABLE used                 \* Ceiling.used
=============================================================================
