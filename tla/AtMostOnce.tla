----------------------------- MODULE AtMostOnce -----------------------------
(***************************************************************************)
(* What a store of claimable work promises: a piece of work is claimed by  *)
(* one worker, once, and is done only by the worker that holds its claim.  *)
(* Work that was claimed and dropped is lost, and costs a fault.           *)
(***************************************************************************)
EXTENDS Naturals

CONSTANTS Workers, Work, Nothing

VARIABLES
    claimed,     \* the work that was claimed by anyone
    hand,        \* what each worker holds
    done,        \* how often each piece of work was done
    faults       \* faults so far

vars == <<claimed, hand, done, faults>>

Init ==
    /\ claimed = {} /\ hand = [w \in Workers |-> Nothing]
    /\ done = [x \in Work |-> 0] /\ faults = 0

\* A fault may go with it: the store may lose other work meanwhile.
Claim(w, x) ==
    /\ hand[w] = Nothing /\ x \notin claimed
    /\ claimed' = claimed \cup {x}
    /\ hand' = [hand EXCEPT ![w] = x]
    /\ faults' \in {faults, faults + 1}
    /\ UNCHANGED done

Do(w) ==
    /\ hand[w] # Nothing
    /\ done' = [done EXCEPT ![hand[w]] = @ + 1]
    /\ hand' = [hand EXCEPT ![w] = Nothing]
    /\ UNCHANGED <<claimed, faults>>

Drop(w) ==
    /\ hand[w] # Nothing
    /\ hand' = [hand EXCEPT ![w] = Nothing]
    /\ faults' = faults + 1
    /\ UNCHANGED <<claimed, done>>

Fault ==
    /\ faults' = faults + 1
    /\ UNCHANGED <<claimed, hand, done>>

Next ==
    \/ \E w \in Workers : Do(w) \/ Drop(w) \/ \E x \in Work : Claim(w, x)
    \/ Fault

Spec == Init /\ [][Next]_vars
=============================================================================
