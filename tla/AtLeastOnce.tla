---------------------------- MODULE AtLeastOnce ----------------------------
(***************************************************************************)
(* What a durable outbox promises about its messages: a message is entered *)
(* before it is delivered, stays entered until it has been delivered,      *)
(* unless it is volatile, and is then struck out for good.  It is          *)
(* delivered once, and once more for each fault; the entry itself may be   *)
(* given up for a fault, when the message is delivered without being owed. *)
(***************************************************************************)
EXTENDS Naturals

CONSTANTS
    Messages,
    Volatile     \* messages that may be struck out undelivered

VARIABLES
    entry,       \* "none", "owed", "unowed" or "struck", for each message
    delivered,   \* how often each message was delivered
    faults       \* faults so far

vars == <<entry, delivered, faults>>

Init ==
    /\ entry = [m \in Messages |-> "none"]
    /\ delivered = [m \in Messages |-> 0]
    /\ faults = 0

Enter(m) ==
    /\ entry[m] = "none"
    /\ \/ entry' = [entry EXCEPT ![m] = "owed"] /\ faults' = faults
       \/ entry' = [entry EXCEPT ![m] = "unowed"] /\ faults' = faults + 1
    /\ UNCHANGED delivered

\* A fault may go with it: the one who delivers does not learn of it.
Deliver(m) ==
    /\ entry[m] # "none"
    /\ faults' \in {faults, faults + 1}
    /\ delivered[m] <= faults'
    /\ delivered' = [delivered EXCEPT ![m] = @ + 1]
    /\ UNCHANGED entry

Strike(m) ==
    /\ entry[m] # "none"
    /\ delivered[m] > 0 \/ m \in Volatile
    /\ entry' = [entry EXCEPT ![m] = "struck"]
    /\ UNCHANGED <<delivered, faults>>

Fault ==
    /\ faults' = faults + 1
    /\ UNCHANGED <<entry, delivered>>

Next == Fault \/ \E m \in Messages : Enter(m) \/ Deliver(m) \/ Strike(m)

Spec == Init /\ [][Next]_vars
=============================================================================
