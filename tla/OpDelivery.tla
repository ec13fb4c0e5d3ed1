----------------------------- MODULE OpDelivery -----------------------------
(***************************************************************************)
(* What the feed's operation pipeline promises about one fan-out           *)
(* operation: it is worked on at least once, it is let go of only after it *)
(* has reached a terminal outcome (it was delivered to somebody, or it was *)
(* given up on purpose), it is let go of eventually, and an operation that *)
(* was let go of never comes back.                                         *)
(*                                                                         *)
(* An operation may collect both outcomes: a copy of it can be delivered   *)
(* while another one runs out of readers.  OpStream implements this.       *)
(***************************************************************************)
CONSTANT Ops

VARIABLES
    status,   \* unborn, pending (the system holds it) or settled
    outcome   \* the terminal outcomes the operation has reached

vars == <<status, outcome>>

Outcomes == {"delivered", "abandoned"}

Init ==
    /\ status = [o \in Ops |-> "unborn"]
    /\ outcome = [o \in Ops |-> {}]

Mint(o) ==
    /\ status[o] = "unborn"
    /\ status' = [status EXCEPT ![o] = "pending"]
    /\ UNCHANGED outcome

Conclude(o) ==
    /\ status[o] = "pending"
    /\ \E x \in Outcomes : outcome' = [outcome EXCEPT ![o] = @ \cup {x}]
    /\ UNCHANGED status

\* A worker that dies may drop the last copies of several operations at once.
Settle(S) ==
    /\ S # {}
    /\ \A o \in S : status[o] = "pending" /\ outcome[o] # {}
    /\ status' = [o \in Ops |-> IF o \in S THEN "settled" ELSE status[o]]
    /\ UNCHANGED outcome

Work(o) == Conclude(o) \/ \E S \in SUBSET Ops : o \in S /\ Settle(S)

Next == \E o \in Ops : Mint(o) \/ Work(o)

\* The promise without its deadline: what may never happen.
SafeSpec == Init /\ [][Next]_vars

\* An operation that can be worked on is, until it has been settled.
Spec == SafeSpec /\ \A o \in Ops : WF_vars(Work(o))
=============================================================================
