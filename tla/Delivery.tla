------------------------------ MODULE Delivery ------------------------------
(***************************************************************************)
(* What a Bull queue promises for its jobs: a job does its work at least   *)
(* once before it counts as done, works again only when something went     *)
(* wrong in between, and is given up only after Patience faults.           *)
(***************************************************************************)
EXTENDS Naturals

CONSTANTS Jobs, Patience

VARIABLES state,    \* "none", "pending", "done" or "lost"
          faults,   \* what went wrong with it: failed runs, dead workers
          acts      \* how often its work was done

vars == <<state, faults, acts>>

Init ==
  /\ state = [j \in Jobs |-> "none"]
  /\ faults = [j \in Jobs |-> 0]
  /\ acts = [j \in Jobs |-> 0]

Add(j) ==
  /\ state[j] = "none"
  /\ state' = [state EXCEPT ![j] = "pending"]
  /\ UNCHANGED <<faults, acts>>

\* Every repetition is paid for by a fault.
Act(j) ==
  /\ state[j] = "pending"
  /\ acts[j] <= faults[j]
  /\ acts' = [acts EXCEPT ![j] = @ + 1]
  /\ UNCHANGED <<state, faults>>

Fault(j) ==
  /\ state[j] = "pending"
  /\ faults' = [faults EXCEPT ![j] = @ + 1]
  /\ \/ UNCHANGED state
     \/ /\ faults'[j] >= Patience
        /\ state' = [state EXCEPT ![j] = "lost"]
  /\ UNCHANGED acts

Settle(j) ==
  /\ state[j] = "pending"
  /\ acts[j] > 0
  /\ state' = [state EXCEPT ![j] = "done"]
  /\ UNCHANGED <<faults, acts>>

Next == \E j \in Jobs : Add(j) \/ Act(j) \/ Fault(j) \/ Settle(j)

Spec == Init /\ [][Next]_vars
-----------------------------------------------------------------------------
(* What it comes to                                                        *)

\* A job that counts as done was done, one given up had its faults, and no
\* work is repeated but for a fault.
WorkIsPaid ==
  \A j \in Jobs : /\ acts[j] <= faults[j] + 1
                  /\ state[j] = "done" => acts[j] > 0
                  /\ state[j] = "lost" => faults[j] >= Patience
=============================================================================
