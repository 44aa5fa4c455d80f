-------------------------- MODULE SettlementPromise --------------------------
(***************************************************************************)
(* What the replay store promises for each trade commitment, without its   *)
(* lifecycle states, retries, clocks or errors.                            *)
(*                                                                         *)
(* A commitment is "idle" until a settlement transaction is launched for   *)
(* it. A launched transaction either settles the trade or is abandoned; an *)
(* abandoned one must be reconciled before the next launch; at most        *)
(* MaxRetries + 1 transactions are ever launched. Nothing follows "settled" *)
(* or "closed", and a transaction in flight is never closed over.          *)
(***************************************************************************)
EXTENDS Naturals

CONSTANTS
    Commitments,  \* the trade commitments
    MaxRetries    \* controlled retries after a failure

VARIABLES
    phase,        \* the phase of every commitment
    launches      \* settlement transactions launched for every commitment

pvars == <<phase, launches>>

Phases == {"idle", "inFlight", "abandoned", "settled", "closed"}

Init ==
    /\ phase = [k \in Commitments |-> "idle"]
    /\ launches = [k \in Commitments |-> 0]

\* One more settlement transaction is launched, within the budget.
Launch(k) ==
    /\ phase[k] = "idle"
    /\ launches[k] <= MaxRetries
    /\ phase' = [phase EXCEPT ![k] = "inFlight"]
    /\ launches' = [launches EXCEPT ![k] = @ + 1]

\* The phase of k moves along without a launch.
Move(k, from, to) ==
    /\ phase[k] \in from
    /\ phase' = [phase EXCEPT ![k] = to]
    /\ UNCHANGED launches

Settle(k) == Move(k, {"inFlight"}, "settled")

Abandon(k) == Move(k, {"inFlight"}, "abandoned")

\* The caller names the abandoned transaction and another launch is possible.
Reconcile(k) ==
    /\ launches[k] <= MaxRetries
    /\ Move(k, {"abandoned"}, "idle")

Close(k) == Move(k, {"idle", "abandoned"}, "closed")

Next ==
    \E k \in Commitments :
        Launch(k) \/ Settle(k) \/ Abandon(k) \/ Reconcile(k) \/ Close(k)

Spec == Init /\ [][Next]_pvars

=============================================================================
