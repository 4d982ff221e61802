------------------------------ MODULE OneShot ------------------------------
(***************************************************************************)
(* What an approval promises about the action it covers: at any time at    *)
(* most one worker holds the authority to act, only that worker acts, and  *)
(* the action is carried out by one worker in all -- unless the action is  *)
(* resumable, when a lost attempt may be taken up by another worker.       *)
(***************************************************************************)
CONSTANTS
    Workers,     \* those who may be given the authority
    Nobody       \* none of the workers

VARIABLES
    resumable,   \* whether a lost attempt may be resumed
    gate,        \* "open", "held" by a worker, or "closed"
    holder,      \* the worker that holds the authority
    takers       \* workers that carried the action out

vars == <<resumable, gate, holder, takers>>

Init ==
    /\ resumable \in BOOLEAN
    /\ gate = "open" /\ holder = Nobody /\ takers = {}

Unused == takers = {} \/ resumable

\* A worker commits its attempt.
Take(w) ==
    /\ gate = "open" /\ Unused
    /\ gate' = "held" /\ holder' = w
    /\ UNCHANGED <<resumable, takers>>

\* The holder acts.
Act(w) ==
    /\ gate = "held" /\ holder = w /\ Unused
    /\ takers' = takers \cup {w}
    /\ UNCHANGED <<resumable, gate, holder>>

\* The holder found it could not act yet and hands the authority back.
GiveBack ==
    /\ gate = "held" /\ Unused
    /\ gate' = "open" /\ holder' = Nobody
    /\ UNCHANGED <<resumable, takers>>

\* The outcome is settled, or the holder or the authority is lost.
Close ==
    /\ gate # "closed"
    /\ gate' = "closed" /\ holder' = Nobody
    /\ UNCHANGED <<resumable, takers>>

\* The lost attempt of a resumable action is offered again.
Reopen ==
    /\ resumable /\ gate = "closed"
    /\ gate' = "open"
    /\ UNCHANGED <<resumable, holder, takers>>

Next ==
    \/ \E w \in Workers : Take(w) \/ Act(w)
    \/ GiveBack \/ Close \/ Reopen

Spec == Init /\ [][Next]_vars
=============================================================================
