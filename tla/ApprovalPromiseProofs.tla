------------------------ MODULE ApprovalPromiseProofs ------------------------
(***************************************************************************)
(* ApprovalExecution implements OneShot: under the mapping of Promise,     *)
(* every step is one of the promise's steps or leaves it alone.            *)
(*                                                                         *)
(* The argument rests on OneRunner: whenever a helper runs, the journal    *)
(* reads "attempt_committed" in its name, so no append of anybody else can *)
(* move the gate, and the two steps that lead out of "attempt_committed"   *)
(* behind a helper's back (RecoverOffice, RecoverMail and RecoverUnknown)  *)
(* find it dead.                                                           *)
(***************************************************************************)
EXTENDS ApprovalExecutionProofs

Held == \E h \in Helpers : Running(h)
PromiseStep == [Promise!Next]_(Promise!vars)

\* The mapping, spelled out.
LEMMA GateCases ==
    /\ Held => Gate = "held"
    /\ ~Held /\ journal.phase \in Spent => Gate = "closed"
    /\ ~Held /\ journal.phase \notin Spent => Gate = "open"
BY DEF Gate, Held

\* The mapping after a step.
LEMMA GateCasesNext ==
    /\ Held' => Gate' = "held"
    /\ ~Held' /\ journal'.phase \in Spent => Gate' = "closed"
    /\ ~Held' /\ journal'.phase \notin Spent => Gate' = "open"
BY DEF Gate, Held, Spent

\* A step that moves neither the gate nor its holder.
LEMMA Aside ==
    ASSUME UNCHANGED <<category, acted>>,
           \/ Held /\ Held' /\ journal'.owner = journal.owner
           \/ ~Held /\ ~Held' /\ (journal.phase \in Spent
                                    <=> journal'.phase \in Spent)
    PROVE  PromiseStep
<1>1. Gate' = Gate
  BY GateCases, GateCasesNext
<1>2. Gate = "held" <=> Held
  BY GateCases
<1>3. UNCHANGED <<category = "office", Gate,
                  IF Gate = "held" THEN journal.owner ELSE NoOne, acted>>
  BY <1>1, <1>2
<1> QED BY <1>3 DEF PromiseStep, Promise!vars

\* The gate closes: the outcome is settled, or the holder or the journal lost.
LEMMA Closing ==
    ASSUME UNCHANGED <<category, acted>>,
           Held \/ journal.phase \notin Spent,
           ~Held', journal'.phase \in Spent
    PROVE  PromiseStep
<1>1. Gate # "closed" /\ Gate' = "closed"
  BY GateCases, GateCasesNext
<1> QED BY <1>1 DEF PromiseStep, Promise!Next, Promise!Close

\* A helper commits its attempt.
LEMMA Taking ==
    ASSUME NEW h \in Helpers, UNCHANGED <<category, acted>>,
           ~Held, journal.phase \notin Spent,
           acted = {} \/ category = "office",
           Held', journal'.owner = h
    PROVE  PromiseStep
<1>1. Gate = "open" /\ Gate' = "held"
  BY GateCases, GateCasesNext
<1>2. Promise!Take(h)
  BY <1>1 DEF Promise!Take, Promise!Unused
<1> QED BY <1>2 DEF PromiseStep, Promise!Next

\* Who runs next, when one helper moves on.
LEMMA Moved ==
    ASSUME NEW h \in Helpers, NEW life, helper \in [Helpers -> Life],
           helper' = [helper EXCEPT ![h] = life],
           life \notin {"committed", "returned"}
    PROVE  Held' <=> \E g \in Helpers \ {h} : Running(g)
BY DEF Held, Running

\* A helper that runs is the only one, and the journal names it.
LEMMA Alone ==
    ASSUME IInv, NEW h \in Helpers, Running(h)
    PROVE  /\ \A g \in Helpers : Running(g) => g = h
           /\ Held /\ journal.phase = "attempt_committed"
           /\ journal.owner = h
BY DEF IInv, OneRunner, Held

-----------------------------------------------------------------------------
(* The steps of a surface *)

\* A surface opens, closes or leaves the gate; it never takes it.
LEMMA SurfacePromise ==
    ASSUME IInv, NEW s \in Surfaces,
           Deciding(s) \/ Carry(s) \/ Start(s) \/ Rechecks(s)
    PROVE  PromiseStep
<1> USE DEF IInv, TypeOK, PhaseKnown, request, surface, helping, history,
            Append, Spent, Terminal
<1> DEFINE Quiet == /\ UNCHANGED <<category, acted, helper>>
                    /\ \/ journal' = journal
                       \/ ~Held /\ (journal.phase \in Spent
                                      <=> journal'.phase \in Spent)
<1>1. ASSUME Quiet PROVE PromiseStep
  <2>1. Held' <=> Held
    BY <1>1 DEF Held, Running
  <2> QED BY <1>1, <2>1, Aside
<1>2. journal.phase # "attempt_committed" => ~Held
  BY DEF OneRunner, Held
<1>3. OrphanedAttempt(s) => ~Held
  BY DEF OrphanedAttempt, OwnerAlive, OneRunner, Held, Running
<1>4. CASE Deciding(s) \/ Start(s)
  BY <1>4, <1>1 DEF Deciding, Claim, Reject, ApproveExecuting, Start
<1>5. CASE Executing(s)
  BY <1>5, <1>1, <1>2 DEF Executing, RestoreClaim, ExecuteRefused,
       ExecuteArm, ExecuteReady, ExecuteRetry, ExecuteSeal, MayRetry
<1>6. CASE Continuing(s)
  BY <1>6, <1>1 DEF Continuing, Resume, ContinueBegin, ContinueDispatch,
       ContinueEnd
<1>7. CASE Rechecks(s) \/ RecheckConfirm(s)
  BY <1>7, <1>1, <1>2 DEF Rechecks, RecheckTorn, RecheckConfirmed,
       RecheckOpen, RecheckSubmitted, RecheckConfirm, MayObserve
<1>8. CASE Recovery(s)
  <2>1. CASE RecoverOffice(s)
    <3>1. /\ ~Held /\ ~Held'
          /\ journal.phase \in Spent /\ journal'.phase \notin Spent
          /\ category = "office" /\ UNCHANGED <<category, acted>>
      BY <2>1, <1>3 DEF RecoverOffice, OrphanedAttempt, Held, Running
    <3>2. Gate = "closed" /\ Gate' = "open"
      BY <3>1, GateCases, GateCasesNext
    <3>3. Promise!Reopen
      BY <3>1, <3>2 DEF Promise!Reopen
    <3> QED BY <3>3 DEF PromiseStep, Promise!Next
  <2>2. CASE RecoverMail(s) \/ RecoverUnknown(s)
    BY <2>2, <1>1, <1>3 DEF RecoverMail, RecoverUnknown, OrphanedAttempt
  <2>3. CASE RecoverArmed(s) \/ RecoverBind(s)
    BY <2>3, <1>1, <1>2 DEF RecoverArmed, RecoverBind
  <2>4. CASE \/ RecoverFrozen(s) \/ RecoverPreArm(s) \/ RecoverMissing(s)
             \/ RecoverTorn(s) \/ RecoverSeal(s) \/ RecoverUnowned(s)
             \/ RecoverOwned(s) \/ RecoverProject(s) \/ RecoverTerminal(s)
             \/ RecoverFreeze(s) \/ RecoverFreezeWrite(s)
    BY <2>4, <1>1 DEF RecoverFrozen, RecoverPreArm, RecoverMissing,
         RecoverTorn, RecoverSeal, RecoverUnowned, RecoverOwned,
         RecoverProject, RecoverTerminal, RecoverFreeze,
         RecoverFreezeWrite
  <2>5. CASE RecoverSpawn(s)
    BY <2>5, Aside DEF RecoverSpawn, Become, Held, Running
  <2>6. CASE RecoverWait(s)
    BY <2>6, Aside DEF RecoverWait, Become, Held, Running
  <2> QED BY <1>8, <2>1, <2>2, <2>3, <2>4, <2>5, <2>6 DEF Recovery
<1> QED BY <1>4, <1>5, <1>6, <1>7, <1>8 DEF Carry

-----------------------------------------------------------------------------
(* The steps of a helper *)

\* A helper takes the gate, acts, gives it back or closes it.
LEMMA HelperPromise ==
    ASSUME IInv, NEW h \in Helpers, Helping(h) \/ Reap(h)
    PROVE  PromiseStep
<1> USE DEF IInv, TypeOK, PhaseKnown, EffectKnown, request, surface, history,
            Append, Spent, Terminal, Become
<1>1. Running(h) => \A g \in Helpers : Running(g) => g = h
  BY Alone
<1>2. journal.phase # "attempt_committed" => ~Held
  BY DEF OneRunner, Held
<1>3. CASE HelperReady(h) \/ HelperCommit(h)
  <2>1. /\ ~Held /\ journal.phase \notin Spent
        /\ acted = {} \/ category = "office"
        /\ UNCHANGED <<category, acted>>
        /\ journal'.owner = h
    BY <1>3, <1>2 DEF HelperReady, HelperCommit, Prepare
  <2>2. Held'
    BY <1>3 DEF HelperReady, HelperCommit, Held, Running
  <2> QED BY <2>1, <2>2, Taking
<1>4. CASE HelperAct(h)
  <2>1. /\ Running(h) /\ helper[h] = "committed"
        /\ UNCHANGED <<category, journal>>
        /\ acted' \in {acted, acted \cup {h}}
    BY <1>4 DEF HelperAct, Running
  <2>2. Held /\ Held' /\ journal.owner = h
    BY <1>4, <2>1, Alone DEF HelperAct, Held, Running
  <2>3. CASE acted' = acted
    BY <2>1, <2>2, <2>3, Aside
  <2>4. CASE acted' = acted \cup {h}
    <3>1. Gate = "held" /\ Gate' = "held"
      BY <2>2, GateCases, GateCasesNext
    <3>2. acted = {} \/ category = "office"
      BY <2>1
    <3>3. Promise!Act(h)
      BY <2>1, <2>2, <2>4, <3>1, <3>2 DEF Promise!Act, Promise!Unused
    <3> QED BY <3>3 DEF PromiseStep, Promise!Next
  <2> QED BY <2>1, <2>3, <2>4
<1>5. CASE HelperRecord(h)
  <2>1. Held /\ ~Held' /\ UNCHANGED <<category, acted>>
    BY <1>5, <1>1 DEF HelperRecord, Held, Running
  <2>2. CASE journal'.phase \in Spent
    BY <2>1, <2>2, Closing
  <2>3. CASE journal'.phase \notin Spent
    <3>1. verdict[h] = "busy"
      BY <1>5, <2>3 DEF HelperRecord
    <3>2. acted = {} \/ category = "office"
      BY <1>5, <3>1 DEF HelperRecord
    <3>3. Gate = "held" /\ Gate' = "open"
      BY <2>1, <2>3, GateCases, GateCasesNext
    <3>4. Promise!GiveBack
      BY <2>1, <3>2, <3>3 DEF Promise!GiveBack, Promise!Unused
    <3> QED BY <3>4 DEF PromiseStep, Promise!Next
  <2> QED BY <2>2, <2>3
<1>6. CASE HelperAgain(h)
  <2>1. Held /\ ~Held' /\ UNCHANGED <<category, acted, journal>>
    BY <1>6, <1>1 DEF HelperAgain, Held, Running
  <2>2. journal'.phase \in Spent
    BY <1>6, <2>1, Alone DEF HelperAgain, Running
  <2> QED BY <2>1, <2>2, Closing
<1>7. CASE HelperStarted(h)
  BY <1>7, <1>2, Aside DEF HelperStarted, Prepare, Held, Running
<1>8. CASE HelperDecline(h) \/ HelperLate(h) \/ HelperUnreadable(h)
  BY <1>8, Aside DEF HelperDecline, HelperLate, HelperUnreadable, Prepare,
       Held, Running
<1>9. CASE HelperProject(h) \/ HelperFreeze(h) \/ HelperFreezeWrite(h)
  BY <1>9, Aside DEF HelperProject, HelperFreeze, HelperFreezeWrite, Held, Running
<1>10. CASE Reap(h)
  BY <1>10, Aside DEF Reap, Held, Running
<1> QED BY <1>3, <1>4, <1>5, <1>6, <1>7, <1>8, <1>9, <1>10 DEF Helping

-----------------------------------------------------------------------------
(* Mishaps: a torn line closes the gate, and so does the loss of a runner *)

\* Crashes and errors close the gate or leave it as it is.
LEMMA MishapPromise ==
    ASSUME IInv, Failing
    PROVE  PromiseStep
<1> USE DEF IInv, TypeOK, PhaseKnown, request, surface, helping, history,
            record, Append, Spent, Terminal
<1>1. journal.phase # "attempt_committed" => ~Held
  BY DEF OneRunner, Held
<1>2. ASSUME NEW s \in Surfaces, SurfaceCrash(s) PROVE PromiseStep
  <2>1. UNCHANGED <<category, acted, helper>>
    BY <1>2 DEF SurfaceCrash
  <2>2. Held' <=> Held
    BY <2>1 DEF Held, Running
  <2>3. CASE journal' = journal
    BY <2>1, <2>2, <2>3, Aside
  <2>4. CASE journal' # journal
    <3>1. journal'.phase = "torn" /\ ~Held
      BY <1>2, <2>4, SurfaceTear DEF SurfaceCrash, Held
    <3> QED BY <2>1, <2>2, <3>1, Aside, Closing
  <2> QED BY <2>3, <2>4
<1>3. ASSUME NEW s \in Surfaces, SurfaceBusy(s) PROVE PromiseStep
  BY <1>3, Aside DEF SurfaceBusy, Held, Running
<1>4. ASSUME NEW s \in Surfaces, SurfaceFault(s) PROVE PromiseStep
  <2>1. UNCHANGED <<category, acted>>
    BY <1>4 DEF SurfaceFault
  <2>2. Held' <=> Held
    BY <1>4, <1>1 DEF SurfaceFault, Held, Running
  <2>3. CASE journal' = journal
    BY <2>1, <2>2, <2>3, Aside
  <2>4. CASE MayTear(s, Appending(s)) /\ journal' # journal
    <3>1. journal'.phase = "torn" /\ ~Held
      BY <2>4, SurfaceTear DEF Held
    <3> QED BY <2>1, <2>2, <3>1, Aside, Closing
  <2>5. CASE pc[s] = "rec_bind" /\ Append("helper_started", child[s], "none")
    <3>1. /\ journal.phase \in {"ready", "helper_started"}
          /\ journal'.phase = "helper_started"
      BY <2>5
    <3> QED BY <2>1, <2>2, <3>1, <1>1, Aside
  <2> QED BY <1>4, <2>3, <2>4, <2>5 DEF SurfaceFault
<1>5. ASSUME NEW h \in Helpers, HelperDie(h) \/ HelperFault(h)
      PROVE  PromiseStep
  <2>1. UNCHANGED <<category, acted>>
    BY <1>5 DEF HelperDie, HelperFault
  <2>2. PICK life : /\ helper' = [helper EXCEPT ![h] = life]
                    /\ life \notin {"committed", "returned"}
    <3>1. HelperDie(h) => helper' = [helper EXCEPT ![h] = "exit1"]
      BY DEF HelperDie, Become
    <3>2. HelperFault(h) => helper' = [helper EXCEPT ![h] = "freezing"]
      BY DEF HelperFault, Become
    <3> QED BY <1>5, <3>1, <3>2
  <2>3. Held' <=> \E g \in Helpers \ {h} : Running(g)
    BY <2>2, Moved
  <2>4. journal' = journal \/ journal'.phase = "torn"
    BY <1>5, HelperTear DEF HelperDie, HelperFault
  <2>5. CASE Running(h)
    <3>1. Held /\ ~Held' /\ journal.phase = "attempt_committed"
      BY <2>3, <2>5, Alone
    <3>2. journal'.phase \in Spent
      BY <2>4, <3>1
    <3> QED BY <2>1, <3>1, <3>2, Closing
  <2>6. CASE ~Running(h)
    <3>1. Held' <=> Held
      BY <2>3, <2>6 DEF Held
    <3>2. CASE journal' = journal
      BY <2>1, <3>1, <3>2, Aside
    <3>3. CASE journal' # journal
      <4>1. /\ journal'.phase = "torn"
            /\ journal.phase \in {"ready", "helper_started"}
        BY <1>5, <2>6, <3>3, HelperTear DEF HelperDie, HelperFault
      <4> QED BY <2>1, <3>1, <4>1, <1>1, Closing
    <3> QED BY <3>2, <3>3
  <2> QED BY <2>5, <2>6
<1> QED BY <1>2, <1>3, <1>4, <1>5 DEF Failing

\* A step that changes nothing.
LEMMA StutterPromise == UNCHANGED vars => PromiseStep
BY DEF PromiseStep, Promise!vars, vars, request, helping, history, Gate,
       Running

\* Every step is a step of OneShot or stutters.
LEMMA NextPromise == IInv /\ [Next]_vars => PromiseStep
BY SurfacePromise, HelperPromise, MishapPromise, StutterPromise DEF Next

\* A fresh proposal is an open gate.
LEMMA InitPromise == Init => Promise!Init
BY DEF Init, Promise!Init, Gate, Running, Spent

\* One approval lets one worker at a time act, and one in all unless the
\* action is resumable: the journal, the record lock and the helpers together
\* implement OneShot.
THEOREM PromiseKept == Spec => KeepsPromise
<1>1. Init => Promise!Init
  BY InitPromise
<1>2. IInv /\ [Next]_vars => [Promise!Next]_(Promise!vars)
  BY NextPromise DEF PromiseStep
<1> QED BY <1>1, <1>2, Inductive, PTL DEF Spec, KeepsPromise, Promise!Spec
=============================================================================
