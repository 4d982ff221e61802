----------------------- MODULE ApprovalExecutionProofs -----------------------
(***************************************************************************)
(* Proofs about ApprovalExecution for any number of surfaces and helpers,  *)
(* any set of categories, and any bound on mishaps.                        *)
(*                                                                         *)
(* IInv is shown inductive, one lemma per group of actions; the invariants *)
(* are its conjuncts, and LegalAppends follows step by step.               *)
(***************************************************************************)
EXTENDS ApprovalExecution, TLAPS

\* project_terminal reports a success only of a journalled success, and
\* writes a well-formed record.
LEMMA ProjectionSound ==
    ASSUME IInv, ProjectTerminal, journal.phase \in Terminal
    PROVE  /\ status' \in Status
           /\ status' \in {"approved", "resume_pending", "resuming"}
                => journal.phase = "succeeded"
           /\ resolver' \in {"nobody", "approver", "rejecter"}
           /\ recheck' \in {"absent", "open", "needs_review", "submitted"}
<1> USE DEF IInv, TypeOK, PhaseKnown, Status, Terminal, Result, Resolver,
            RecheckState
<1> DEFINE new == Projection(journal.phase)
<1>1. /\ new \in Status
      /\ new \in {"approved", "resume_pending", "resuming"}
           => journal.phase = "succeeded"
  <2>1. CASE journal.phase = "succeeded"
    BY <2>1 DEF Projection
  <2>2. CASE journal.phase = "failed"
    BY <2>2 DEF Projection
  <2>3. CASE journal.phase = "retryable_failure"
    BY <2>3 DEF Projection
  <2>4. CASE journal.phase = "action_outcome_unknown"
    BY <2>4 DEF Projection
  <2> QED BY <2>1, <2>2, <2>3, <2>4
<1>2. status' = new /\ resolver' \in {resolver, "nobody"}
  BY DEF ProjectTerminal, Resolve
<1>3. recheck' \in {"absent", "open", "needs_review", "submitted"}
  BY DEF ProjectTerminal
<1> QED BY <1>1, <1>2, <1>3

\* A fresh proposal: no journal, no helper, nobody at work.
LEMMA InitInv == Init => IInv
BY RosterAssumption, ScopeAssumption
   DEF Init, IInv, TypeOK, LockHeld, PhaseKnown, OneRunner, OneEffect,
       HonestStatus, EffectKnown, Running, Section, Status, Phase, Result,
       Location, Call, Life, Verdict, Resolver, RecheckState, Copy, Blank

\* A record written back from an old copy is well formed, and its status is
\* the new one or the one it had.
LEMMA WriteBackSound ==
    ASSUME IInv, NEW p \in Surfaces \cup Helpers, NEW new, WriteBack(p, new)
    PROVE  /\ status' \in {status, new}
           /\ resolver' \in Resolver /\ recheck' \in RecheckState
           /\ copy' \in [Surfaces \cup Helpers -> Copy]
<1>1. copy[p] \in Copy /\ Blank \in Copy
  BY DEF IInv, TypeOK, Copy, Blank, Resolver, RecheckState
<1> QED BY <1>1 DEF WriteBack, RestoreFields, Forget, IInv, TypeOK, Copy

\* Reading and forgetting leave well-formed copies behind.
LEMMA CopySound ==
    ASSUME IInv, NEW p \in Surfaces \cup Helpers, ReadRecord(p) \/ Forget(p)
    PROVE  copy' \in [Surfaces \cup Helpers -> Copy]
BY DEF ReadRecord, Forget, IInv, TypeOK, Copy, Blank, Resolver, RecheckState

\* The decisions touch the record only.
LEMMA DecidingInv ==
    ASSUME NEW s \in Surfaces, IInv, Deciding(s)
    PROVE  IInv'
<1> USE RosterAssumption, ScopeAssumption
        DEF IInv, TypeOK, LockHeld, PhaseKnown, OneRunner, OneEffect,
            HonestStatus, EffectKnown, Running, Section, Spent, Terminal,
            Status, Phase, Result, Location, Call, Life, Verdict, Category,
            request, record, surface, helping, history, Resolver, RecheckState
<1>1. CASE Claim(s)
  BY <1>1 DEF Claim, Go
<1>2. CASE Reject(s)
  BY <1>2 DEF Reject
<1>3. CASE ApproveExecuting(s)
  BY <1>3 DEF ApproveExecuting, Go
<1> QED BY <1>1, <1>2, <1>3 DEF Deciding

\* Sealing a claim: every append is made by the holder of the lock.
LEMMA ExecutingInv ==
    ASSUME NEW s \in Surfaces, IInv, Executing(s)
    PROVE  IInv'
<1> USE RosterAssumption, ScopeAssumption
        DEF IInv, TypeOK, LockHeld, PhaseKnown, OneRunner, OneEffect,
            HonestStatus, EffectKnown, Running, Section, Spent, Terminal,
            Status, Phase, Result, Location, Call, Life, Verdict, Category,
            request, record, surface, helping, history, Resolver, RecheckState
<1>1. CASE RestoreClaim(s)
  BY <1>1 DEF RestoreClaim, Resolve, Go
<1>2. CASE ExecuteRefused(s)
  BY <1>2 DEF ExecuteRefused, MayRetry, Go
<1>3. CASE ExecuteArm(s)
  BY <1>3 DEF ExecuteArm, Append, Go
<1>4. CASE ExecuteReady(s)
  BY <1>4 DEF ExecuteReady, Append, Go
<1>5. CASE ExecuteRetry(s)
  BY <1>5 DEF ExecuteRetry, MayRetry, Append, Go
<1>6. CASE ExecuteSeal(s)
  BY <1>6 DEF ExecuteSeal, Resolve, Go
<1> QED BY <1>1, <1>2, <1>3, <1>4, <1>5, <1>6 DEF Executing

\* Recovery appends only after an attempt whose owner is dead.
LEMMA RecoveryInv ==
    ASSUME NEW s \in Surfaces, IInv, Recovery(s)
    PROVE  IInv'
<1> USE RosterAssumption, ScopeAssumption
        DEF IInv, TypeOK, LockHeld, PhaseKnown, OneRunner, OneEffect,
            HonestStatus, EffectKnown, Running, Section, Spent, Terminal,
            Status, Phase, Result, Location, Call, Life, Verdict, Category,
            request, record, surface, helping, history, Resolver, RecheckState
<1>1. CASE RecoverFrozen(s)
  BY <1>1 DEF RecoverFrozen, Recovering, Go
<1>2. CASE RecoverPreArm(s)
  BY <1>2 DEF RecoverPreArm, Recovering, Resolve, Return, Go
<1>3. CASE RecoverMissing(s)
  BY <1>3 DEF RecoverMissing, Recovering, Go
<1>4. CASE RecoverTorn(s)
  BY <1>4 DEF RecoverTorn, Recovering, Freeze, Resolve, Go
<1>5. CASE RecoverArmed(s)
  BY <1>5 DEF RecoverArmed, Readable, Recovering, Append, Go
<1>6. CASE RecoverSeal(s)
  BY <1>6 DEF RecoverSeal, Resolve, Go
<1>7. CASE RecoverUnowned(s)
  BY <1>7 DEF RecoverUnowned, Readable, Recovering, OwnerAlive, Go
<1>8. CASE RecoverOwned(s)
  BY <1>8 DEF RecoverOwned, Readable, Recovering, Return, Go
<1>9. CASE RecoverOffice(s)
  BY <1>9 DEF RecoverOffice, OrphanedAttempt, Readable, Recovering,
        OwnerAlive, Append, Go
<1>10. CASE RecoverMail(s)
  BY <1>10 DEF RecoverMail, OrphanedAttempt, Readable, Recovering,
        OwnerAlive, Observed, Append, Go
<1>11. CASE RecoverUnknown(s)
  BY <1>11 DEF RecoverUnknown, OrphanedAttempt, Readable, Recovering,
        OwnerAlive, Append, Go
<1>12. CASE RecoverProject(s)
  BY <1>12, ProjectionSound DEF RecoverProject, Return, Go
<1>13. CASE RecoverTerminal(s)
  BY <1>13, ProjectionSound DEF RecoverTerminal, Readable, Recovering,
        Return, Go
<1>14. CASE RecoverSpawn(s)
  BY <1>14 DEF RecoverSpawn, Become, Go
<1>15. CASE RecoverBind(s)
  BY <1>15 DEF RecoverBind, Append, Waits, Go, Return
<1>16. CASE RecoverWait(s)
  BY <1>16 DEF RecoverWait, Become, Go
<1>17. CASE RecoverFreeze(s)
  BY <1>17, CopySound DEF RecoverFreeze, Go
<1>18. CASE RecoverFreezeWrite(s)
  BY <1>18, WriteBackSound DEF RecoverFreezeWrite, Go
<1> QED BY <1>1, <1>2, <1>3, <1>4, <1>5, <1>6, <1>7, <1>8, <1>9, <1>10,
      <1>11, <1>12, <1>13, <1>14, <1>15, <1>16, <1>17, <1>18 DEF Recovery

\* Continuing happens after a journalled success only.
LEMMA ContinuingInv ==
    ASSUME NEW s \in Surfaces, IInv, Continuing(s)
    PROVE  IInv'
<1> USE RosterAssumption, ScopeAssumption
        DEF IInv, TypeOK, LockHeld, PhaseKnown, OneRunner, OneEffect,
            HonestStatus, EffectKnown, Running, Section, Spent, Terminal,
            Status, Phase, Result, Location, Call, Life, Verdict, Category,
            request, record, surface, helping, history, Resolver, RecheckState
<1>1. CASE Resume(s)
  BY <1>1 DEF Resume, CallOver, Go
<1>2. CASE ContinueBegin(s)
  BY <1>2 DEF ContinueBegin, Resolve, Go
<1>3. CASE ContinueDispatch(s)
  BY <1>3, CopySound DEF ContinueDispatch, Go
<1>4. CASE ContinueEnd(s)
  <2>1. status' \in {status, "approved", "error"}
    BY <1>4, WriteBackSound DEF ContinueEnd
  <2> QED BY <1>4, <2>1, WriteBackSound DEF ContinueEnd, Go
<1> QED BY <1>1, <1>2, <1>3, <1>4 DEF Continuing

\* A recheck turns an unknown outcome into a success only on evidence.
LEMMA RechecksInv ==
    ASSUME NEW s \in Surfaces, IInv, Rechecks(s)
    PROVE  IInv'
<1> USE RosterAssumption, ScopeAssumption
        DEF IInv, TypeOK, LockHeld, PhaseKnown, OneRunner, OneEffect,
            HonestStatus, EffectKnown, Running, Section, Spent, Terminal,
            Status, Phase, Result, Location, Call, Life, Verdict, Category,
            request, record, surface, helping, history, Resolver, RecheckState
<1>1. CASE RecheckTorn(s)
  BY <1>1 DEF RecheckTorn, Rechecking, Freeze, Resolve
<1>2. CASE RecheckConfirmed(s)
  BY <1>2 DEF RecheckConfirmed, Rechecking, Resolve, Projection
<1>3. CASE RecheckOpen(s)
  BY <1>3 DEF RecheckOpen, MayObserve, Rechecking
<1>4. CASE RecheckSubmitted(s)
  BY <1>4 DEF RecheckSubmitted, MayObserve, Rechecking, Observed, Append, Go
<1> QED BY <1>1, <1>2, <1>3, <1>4 DEF Rechecks

\* A helper commits once, acts, and records what it did.
LEMMA HelpingInv ==
    ASSUME NEW h \in Helpers, IInv, Helping(h)
    PROVE  IInv'
<1> USE RosterAssumption, ScopeAssumption
        DEF IInv, TypeOK, LockHeld, PhaseKnown, OneRunner, OneEffect,
            HonestStatus, EffectKnown, Running, Section, Spent, Terminal,
            Status, Phase, Result, Location, Call, Life, Verdict, Category,
            request, record, surface, helping, history, Resolver, RecheckState
<1>1. CASE HelperReady(h)
  BY <1>1 DEF HelperReady, Prepare, Append, Become
<1>2. CASE HelperStarted(h)
  BY <1>2 DEF HelperStarted, Prepare, Append, Become
<1>3. CASE HelperCommit(h)
  BY <1>3 DEF HelperCommit, Append, Become
<1>4. CASE HelperDecline(h)
  BY <1>4 DEF HelperDecline, Prepare, Become
<1>5. CASE HelperLate(h)
  BY <1>5, ProjectionSound DEF HelperLate, Prepare, Become
<1>6. CASE HelperUnreadable(h)
  BY <1>6 DEF HelperUnreadable, Prepare, Become
<1>7. CASE HelperAct(h)
  BY <1>7 DEF HelperAct, Become
<1>8. CASE HelperRecord(h)
  <2>1. CASE verdict[h] = "done"
    BY <1>8, <2>1 DEF HelperRecord, Append, Become
  <2>2. CASE verdict[h] = "open"
    BY <1>8, <2>2 DEF HelperRecord, Append, Become
  <2>3. CASE verdict[h] = "busy"
    BY <1>8, <2>3 DEF HelperRecord, Append, Become
  <2>4. CASE verdict[h] = "raised"
    BY <1>8, <2>4 DEF HelperRecord, Append, Become
  <2> QED BY <1>8, <2>1, <2>2, <2>3, <2>4 DEF HelperRecord
<1>9. CASE HelperProject(h)
  BY <1>9, ProjectionSound DEF HelperProject, Become
<1>10. CASE HelperAgain(h)
  BY <1>10 DEF HelperAgain, Become
<1>11. CASE HelperFreeze(h)
  BY <1>11, CopySound DEF HelperFreeze, Become
<1>12. CASE HelperFreezeWrite(h)
  BY <1>12, WriteBackSound DEF HelperFreezeWrite, Become
<1> QED BY <1>1, <1>2, <1>3, <1>4, <1>5, <1>6, <1>7, <1>8, <1>9, <1>10,
      <1>11, <1>12 DEF Helping

\* A torn line is left only where no helper but the dying one is at work.
LEMMA SurfaceTear ==
    ASSUME IInv, NEW s \in Surfaces, MayTear(s, Appending(s)),
           journal' # journal
    PROVE  /\ journal' = [phase |-> "torn", owner |-> NoOne, result |-> "none"]
           /\ lock \in {NoOne, s}
           /\ journal.phase # "succeeded"
           /\ \A h \in Helpers : ~Running(h)
<1>1. /\ journal' = [phase |-> "torn", owner |-> NoOne, result |-> "none"]
      /\ lock \in {NoOne, s} /\ Appending(s)
  BY DEF MayTear, Append
<1>2. \/ journal.phase \in {"absent", "armed", "ready", "helper_started",
                            "retryable_failure", "action_outcome_unknown"}
      \/ journal.phase = "attempt_committed" /\ ~OwnerAlive(journal.owner)
  BY <1>1 DEF Appending, MayRetry, Confirming, MayObserve, IInv, PhaseKnown
<1> QED BY <1>1, <1>2 DEF IInv, OneRunner, Running, OwnerAlive

\* The same for a helper that dies or fails while it appends.
LEMMA HelperTear ==
    ASSUME IInv, NEW h \in Helpers, MayTear(h, HelperAppending(h)),
           journal' # journal
    PROVE  /\ journal' = [phase |-> "torn", owner |-> NoOne, result |-> "none"]
           /\ lock \in {NoOne, h}
           /\ journal.phase \in {"ready", "helper_started",
                                 "attempt_committed"}
           /\ journal.phase = "attempt_committed" => Running(h)
           /\ \A g \in Helpers \ {h} : ~Running(g)
<1>1. /\ journal' = [phase |-> "torn", owner |-> NoOne, result |-> "none"]
      /\ lock \in {NoOne, h} /\ HelperAppending(h)
  BY DEF MayTear, Append
<1>2. \/ journal.phase \in {"ready", "helper_started"}
      \/ journal.phase = "attempt_committed" /\ Running(h)
  BY <1>1 DEF HelperAppending, IInv, PhaseKnown, OneRunner, Running
<1> QED BY <1>1, <1>2 DEF IInv, OneRunner

\* Starting, confirming and reaping, and everything that can go wrong.
LEMMA OtherInv ==
    ASSUME NEW s \in Surfaces, IInv,
           Start(s) \/ RecheckConfirm(s) \/ SurfaceCrash(s) \/ SurfaceBusy(s)
             \/ SurfaceFault(s)
    PROVE  IInv'
<1> USE RosterAssumption, ScopeAssumption
        DEF IInv, TypeOK, LockHeld, PhaseKnown, OneRunner, OneEffect,
            HonestStatus, EffectKnown, Running, Section, Spent, Terminal,
            Status, Phase, Result, Location, Call, Life, Verdict, Category,
            request, record, surface, helping, history, Resolver, RecheckState
<1>1. CASE Start(s)
  BY <1>1 DEF Start, Stranded, Go
<1>2. CASE RecheckConfirm(s)
  BY <1>2 DEF RecheckConfirm, Resolve, Projection, Go
<1>3. CASE SurfaceCrash(s)
  <2>1. CASE journal' = journal
    BY <1>3, <2>1, CopySound DEF SurfaceCrash, CallOver, Mishap, Release, Go
  <2>2. CASE journal' # journal
    BY <1>3, <2>2, SurfaceTear, CopySound
       DEF SurfaceCrash, CallOver, Mishap, Release, Go
  <2> QED BY <2>1, <2>2
<1>4. CASE SurfaceBusy(s)
  BY <1>4 DEF SurfaceBusy, Mishap, Go
<1>5. CASE SurfaceFault(s)
  <2>1. CASE journal' = journal
    BY <1>5, <2>1, CopySound
       DEF SurfaceFault, CallOver, Unlocked, Mishap, Release, Go
  <2>2. CASE MayTear(s, Appending(s)) /\ journal' # journal
    BY <1>5, <2>2, SurfaceTear, CopySound
       DEF SurfaceFault, CallOver, Unlocked, Mishap, Release, Go
  <2>3. CASE pc[s] = "rec_bind" /\ Append("helper_started", child[s], "none")
    BY <1>5, <2>3, CopySound
       DEF SurfaceFault, CallOver, Unlocked, Mishap, Release, Append, Go
  <2> QED BY <1>5, <2>1, <2>2, <2>3 DEF SurfaceFault
<1> QED BY <1>1, <1>2, <1>3, <1>4, <1>5

\* A process that dies or fails gives up the lock and what it knew.
LEMMA LeavingInv ==
    ASSUME NEW h \in Helpers, IInv, Reap(h) \/ HelperDie(h) \/ HelperFault(h)
    PROVE  IInv'
<1> USE RosterAssumption, ScopeAssumption
        DEF IInv, TypeOK, LockHeld, PhaseKnown, OneRunner, OneEffect,
            HonestStatus, EffectKnown, Running, Section, Spent, Terminal,
            Status, Phase, Result, Location, Call, Life, Verdict, Category,
            request, record, surface, helping, history, Resolver, RecheckState
<1>1. CASE Reap(h)
  BY <1>1 DEF Reap, Become
<1>2. CASE HelperDie(h)
  <2>1. CASE journal' = journal
    BY <1>2, <2>1, CopySound DEF HelperDie, Mishap, Release, Become
  <2>2. CASE journal' # journal
    BY <1>2, <2>2, HelperTear, CopySound
       DEF HelperDie, Mishap, Release, Become
  <2> QED BY <2>1, <2>2
<1>3. CASE HelperFault(h)
  <2>1. CASE journal' = journal
    BY <1>3, <2>1 DEF HelperFault, Mishap, Release, Become
  <2>2. CASE journal' # journal
    BY <1>3, <2>2, HelperTear DEF HelperFault, Mishap, Release, Become
  <2> QED BY <2>1, <2>2
<1> QED BY <1>1, <1>2, <1>3

\* A step that changes nothing.
LEMMA StutterInv == IInv /\ UNCHANGED vars => IInv'
BY DEF IInv, TypeOK, LockHeld, PhaseKnown, OneRunner, OneEffect, HonestStatus,
       EffectKnown, Running, vars, request, record, surface, helping, history

\* Every step keeps the invariant: one case per group of actions.
LEMMA NextInv == IInv /\ [Next]_vars => IInv'
<1> SUFFICES ASSUME IInv, Next PROVE IInv'
  BY StutterInv
<1>1. ASSUME NEW s \in Surfaces, Deciding(s) PROVE IInv'
  BY <1>1, DecidingInv
<1>2. ASSUME NEW s \in Surfaces, Carry(s) PROVE IInv'
  BY <1>2, ExecutingInv, RecoveryInv, ContinuingInv, OtherInv DEF Carry
<1>3. ASSUME NEW s \in Surfaces, Start(s) PROVE IInv'
  BY <1>3, OtherInv
<1>4. ASSUME NEW s \in Surfaces, Rechecks(s) PROVE IInv'
  BY <1>4, RechecksInv
<1>5. ASSUME NEW h \in Helpers, Helping(h) PROVE IInv'
  BY <1>5, HelpingInv
<1>6. ASSUME NEW h \in Helpers, Reap(h) PROVE IInv'
  BY <1>6, LeavingInv
<1>7. ASSUME Failing PROVE IInv'
  BY <1>7, OtherInv, LeavingInv DEF Failing
<1> QED BY <1>1, <1>2, <1>3, <1>4, <1>5, <1>6, <1>7 DEF Next

\* The strengthened invariant holds in every reachable state.
THEOREM Inductive == Spec => []IInv
<1>1. Init => IInv
  BY InitInv
<1>2. IInv /\ [Next]_vars => IInv'
  BY NextInv
<1> QED BY <1>1, <1>2, PTL DEF Spec

\* Every variable keeps its type: in particular the status and the phase stay
\* in the sets store.py and approval_execution_state.py name.
THEOREM TypeCorrect == Spec => []TypeOK
BY Inductive, PTL DEF IInv

\* Two helpers never carry out the same approval, save a resumable Office job.
THEOREM AtMostOneEffect == Spec => []OneEffect
BY Inductive, PTL DEF IInv

\* An attempt is never taken away from a helper that is still at it.
THEOREM SingleRunner == Spec => []OneRunner
BY Inductive, PTL DEF IInv

\* A record that reads as approved has a journalled success, and a success is
\* journalled only of an action that returned or of a mail seen as sent.
THEOREM StatusIsHonest == Spec => []HonestStatus
BY Inductive, PTL DEF IInv

-----------------------------------------------------------------------------
(* Every append is one the reader accepts *)

\* One step: whoever appends, appends an event the reader accepts.
LEMMA AppendsLegal ==
    ASSUME IInv, Next
    PROVE  LegalStep
<1> USE RosterAssumption, ScopeAssumption
        DEF LegalStep, Legal, Append, IInv, PhaseKnown, Terminal
<1>1. ASSUME NEW s \in Surfaces, Deciding(s) \/ Start(s) \/ Continuing(s)
      PROVE  LegalStep
  BY <1>1 DEF Deciding, Claim, Reject, ApproveExecuting, Start, Continuing,
       Resume, ContinueBegin, ContinueDispatch, ContinueEnd
<1>2. ASSUME NEW s \in Surfaces, Executing(s) PROVE LegalStep
  BY <1>2 DEF Executing, RestoreClaim, ExecuteRefused, ExecuteArm,
       ExecuteReady, ExecuteRetry, ExecuteSeal, MayRetry
<1>3. ASSUME NEW s \in Surfaces, Recovery(s) PROVE LegalStep
  BY <1>3 DEF Recovery, RecoverFrozen, RecoverPreArm, RecoverMissing,
       RecoverTorn, RecoverArmed, RecoverSeal, RecoverUnowned, RecoverOwned,
       RecoverOffice, RecoverMail, RecoverUnknown, RecoverProject,
       RecoverTerminal, RecoverSpawn, RecoverBind, RecoverWait,
       RecoverFreeze, RecoverFreezeWrite, Readable, OrphanedAttempt
<1>4. ASSUME NEW s \in Surfaces, Rechecks(s) \/ RecheckConfirm(s)
      PROVE  LegalStep
  BY <1>4 DEF Rechecks, RecheckTorn, RecheckConfirmed, RecheckOpen,
       RecheckSubmitted, RecheckConfirm, MayObserve, Rechecking
<1>5. ASSUME NEW h \in Helpers, Helping(h) PROVE LegalStep
  BY <1>5 DEF Helping, HelperReady, HelperStarted, HelperCommit,
       HelperDecline, HelperLate, HelperUnreadable, HelperAct, HelperRecord,
       HelperProject, HelperAgain, HelperFreeze, HelperFreezeWrite, Prepare
<1>6. ASSUME NEW h \in Helpers, Reap(h) \/ HelperDie(h) \/ HelperFault(h)
      PROVE  LegalStep
  BY <1>6 DEF Reap, HelperDie, HelperFault, MayTear
<1>7. ASSUME NEW s \in Surfaces,
             SurfaceCrash(s) \/ SurfaceBusy(s) \/ SurfaceFault(s)
      PROVE  LegalStep
  BY <1>7 DEF SurfaceCrash, SurfaceBusy, SurfaceFault, MayTear
<1> QED BY <1>1, <1>2, <1>3, <1>4, <1>5, <1>6, <1>7
      DEF Next, Carry, Failing

\* A complete event appended to the journal is one snapshot() accepts,
\* however surfaces, helpers and crashes interleave.
THEOREM JournalStaysReadable == Spec => LegalAppends
<1>1. IInv /\ [Next]_vars => [LegalStep]_vars
  BY AppendsLegal
<1> QED BY <1>1, Inductive, PTL DEF Spec, LegalAppends

-----------------------------------------------------------------------------
(* The continuation is dispatched once *)

\* The surface is on its way from an execution to the continuation: it seals the claim,
\* it recovers for an execution of its own, or it is about to dispatch.
Underway(s) ==
    \/ pc[s] \in {"exec_ready", "exec_seal", "recovered", "resume", "dispatch"}
    \/ /\ pc[s] \in {"recover", "rec_seal", "rec_spawn", "rec_bind", "rec_project",
                     "rec_wait"}
       /\ call[s] \in {"execute", "settle"}

\* One surface goes that way, and only once: it sets out with the first event of the
\* journal, which is written once.
OneWay ==
    category # "cron" =>
        /\ \A s, t \in Surfaces : Underway(s) /\ Underway(t) => s = t
        /\ \A s \in Surfaces : Underway(s) => dispatched = 0
        /\ dispatched < 2
        /\ journal.phase = "absent" =>
              dispatched = 0 /\ \A s \in Surfaces : ~Underway(s)

\* A step on which nobody sets out or arrives.
Along ==
    /\ category' = category /\ dispatched' = dispatched
    /\ \A t \in Surfaces : Underway(t)' => Underway(t)
    /\ journal'.phase = "absent" => journal.phase = "absent"

LEMMA AlongKeeps == OneWay /\ Along => OneWay'
BY DEF OneWay, Along

\* A surface sets out in ExecuteArm, and, for a cron job, in ExecuteRetry.
LEMMA ExecutingAlong ==
    ASSUME NEW s \in Surfaces, IInv, OneWay, Executing(s)
    PROVE  OneWay'
<1> USE DEF IInv, TypeOK, Along, Underway, Go, request
<1>1. CASE RestoreClaim(s) \/ ExecuteRefused(s)
  BY <1>1, AlongKeeps DEF RestoreClaim, ExecuteRefused, history
<1>2. CASE ExecuteArm(s)
  <2>1. /\ journal.phase = "absent" /\ journal'.phase = "armed"
        /\ category' = category /\ dispatched' = dispatched
        /\ \A t \in Surfaces : Underway(t)' => t = s \/ Underway(t)
    BY <1>2 DEF ExecuteArm, Append, history
  <2> QED BY <2>1 DEF OneWay
<1>3. CASE ExecuteReady(s)
  BY <1>3, AlongKeeps DEF ExecuteReady, Append, history
<1>4. CASE ExecuteRetry(s)
  BY <1>4 DEF ExecuteRetry, MayRetry, OneWay
<1>5. CASE ExecuteSeal(s)
  BY <1>5, AlongKeeps DEF ExecuteSeal, history
<1> QED BY <1>1, <1>2, <1>3, <1>4, <1>5 DEF Executing

\* Recovery takes nobody on the way who was not on it.
LEMMA RecoveryAlong ==
    ASSUME NEW s \in Surfaces, IInv, Recovery(s)
    PROVE  Along
<1> USE DEF IInv, TypeOK, Along, Underway, Go, Return, request, history, Append, Call
<1>1. CASE RecoverFrozen(s) \/ RecoverMissing(s) \/ RecoverTorn(s) \/ RecoverFreeze(s)
           \/ RecoverFreezeWrite(s)
  BY <1>1 DEF RecoverFrozen, RecoverMissing, RecoverTorn, RecoverFreeze, RecoverFreezeWrite
<1>2. CASE RecoverPreArm(s) \/ RecoverOwned(s) \/ RecoverTerminal(s)
  BY <1>2 DEF RecoverPreArm, RecoverOwned, RecoverTerminal, Readable, Recovering
<1>3. CASE RecoverArmed(s) \/ RecoverUnowned(s) \/ RecoverOffice(s)
  BY <1>3 DEF RecoverArmed, RecoverUnowned, RecoverOffice, OrphanedAttempt, Readable,
              Recovering
<1>4. CASE RecoverMail(s) \/ RecoverUnknown(s)
  BY <1>4 DEF RecoverMail, RecoverUnknown, OrphanedAttempt, Readable, Recovering
<1>5. CASE RecoverSeal(s) \/ RecoverSpawn(s) \/ RecoverProject(s)
  BY <1>5 DEF RecoverSeal, RecoverSpawn, RecoverProject
<1>6. CASE RecoverBind(s)
  BY <1>6 DEF RecoverBind
<1>7. CASE RecoverWait(s)
  BY <1>7 DEF RecoverWait
<1> QED BY <1>1, <1>2, <1>3, <1>4, <1>5, <1>6, <1>7 DEF Recovery

\* A surface arrives in ContinueDispatch.
LEMMA ContinuingAlong ==
    ASSUME NEW s \in Surfaces, IInv, OneWay, Continuing(s)
    PROVE  OneWay'
<1> USE DEF IInv, TypeOK, Along, Underway, Go, request
<1>1. CASE Resume(s) \/ ContinueBegin(s) \/ ContinueEnd(s)
  BY <1>1, AlongKeeps DEF Resume, CallOver, ContinueBegin, ContinueEnd, history
<1>2. CASE ContinueDispatch(s)
  <2>1. /\ Underway(s) /\ ~Underway(s)' /\ category' = category /\ journal' = journal
        /\ dispatched = 0 => dispatched' = 1
        /\ \A t \in Surfaces : Underway(t)' => Underway(t)
    BY <1>2 DEF ContinueDispatch
  <2> QED BY <2>1 DEF OneWay
<1> QED BY <1>1, <1>2 DEF Continuing

\* Everything else leaves the way alone or leaves it.
LEMMA OthersAlong ==
    ASSUME IInv,
           \/ \E s \in Surfaces : Deciding(s) \/ Start(s) \/ Rechecks(s) \/ RecheckConfirm(s)
           \/ \E h \in Helpers : Helping(h) \/ Reap(h)
           \/ Failing
           \/ UNCHANGED vars
    PROVE  Along
<1> USE DEF IInv, TypeOK, Along, Underway, Go, request, surface, history, Append
<1>1. ASSUME NEW s \in Surfaces, Deciding(s) \/ Start(s) PROVE Along
  BY <1>1 DEF Deciding, Claim, Reject, ApproveExecuting, Start
<1>2. ASSUME NEW s \in Surfaces, Rechecks(s) \/ RecheckConfirm(s) PROVE Along
  BY <1>2 DEF Rechecks, RecheckTorn, RecheckConfirmed, RecheckOpen, RecheckSubmitted,
              RecheckConfirm
<1>3. ASSUME NEW h \in Helpers, Helping(h) \/ Reap(h) PROVE Along
  <2>1. UNCHANGED <<category, surface, dispatched>>
        /\ (journal'.phase = "absent" => journal.phase = "absent")
    BY <1>3 DEF Helping, HelperReady, HelperStarted, HelperCommit, HelperDecline, HelperLate,
                HelperUnreadable, HelperAct, HelperRecord, HelperProject, HelperAgain,
                HelperFreeze, HelperFreezeWrite, Reap
  <2> QED BY <2>1
<1>4. ASSUME NEW s \in Surfaces, SurfaceCrash(s) \/ SurfaceBusy(s) \/ SurfaceFault(s)
      PROVE  Along
  BY <1>4 DEF SurfaceCrash, SurfaceBusy, SurfaceFault, MayTear, CallOver, Unlocked
<1>5. ASSUME NEW h \in Helpers, HelperDie(h) \/ HelperFault(h) PROVE Along
  BY <1>5 DEF HelperDie, HelperFault, MayTear
<1>6. CASE UNCHANGED vars
  BY <1>6 DEF vars
<1> QED BY <1>1, <1>2, <1>3, <1>4, <1>5, <1>6 DEF Failing

\* The worker that waits for the approval is resumed at most once, whoever recovers and
\* however often a success is projected again; a cron approval alone may be continued by
\* each retry.
THEOREM ContinuationOnce == Spec => []ContinuedOnce
<1>1. Init => OneWay
  BY DEF Init, OneWay, Underway
<1>2. IInv /\ OneWay /\ [Next]_vars => OneWay'
  BY ExecutingAlong, RecoveryAlong, ContinuingAlong, OthersAlong, AlongKeeps DEF Next, Carry
<1>3. OneWay => ContinuedOnce
  BY DEF OneWay, ContinuedOnce
<1> QED BY <1>1, <1>2, <1>3, Inductive, PTL DEF Spec

-----------------------------------------------------------------------------
(* No attempt against the owner's word *)

\* The claim is being sealed; the lock is held meanwhile.
BeingSealed == \E s \in Surfaces : pc[s] \in {"exec_ready", "exec_seal"}

\* A rejection is on the record, or in the copy of a writer that may bring it back.
Refused ==
    \/ resolver = "rejecter"
    \/ \E p \in Surfaces \cup Helpers : copy[p].resolver = "rejecter"

\* While nothing fails, a journal that exists is the work of a claim that has been sealed,
\* or is being sealed: nobody has given it back, and nobody rejected it before.
Undisturbed ==
    /\ journal.phase # "retryable_failure"
    /\ \A h \in Helpers : verdict[h] # "busy"
    /\ journal.phase # "absent" =>
          /\ status \notin {"pending", "rejected"}
          /\ status = "approving" => BeingSealed
    /\ Refused =>
          journal.phase = "absent" /\ status \in {"rejected", "execution_frozen"}
    /\ status \in {"error", "action_outcome_unknown"} => journal.phase \in Terminal

Calm == mishaps = 0 => Undisturbed

\* Nobody gives a claim back while it is sealed.
LEMMA SealingLocks == ASSUME IInv, BeingSealed PROVE lock # NoOne
BY RosterAssumption DEF IInv, LockHeld, Section, BeingSealed

\* A refusal comes from Reject only: reading and writing back spread one that is there.
LEMMA RefusedBefore ==
    ASSUME IInv, Refused', resolver' # "rejecter" \/ resolver' = resolver,
           \/ UNCHANGED copy
           \/ \E p \in Surfaces \cup Helpers : ReadRecord(p) \/ Forget(p)
    PROVE  Refused
BY DEF IInv, TypeOK, Refused, ReadRecord, Forget, Blank

LEMMA RefusedBeforeWrite ==
    ASSUME IInv, Refused', NEW p \in Surfaces \cup Helpers, NEW new, WriteBack(p, new)
    PROVE  Refused
BY DEF IInv, TypeOK, Refused, WriteBack, RestoreFields, Forget, Blank

\* A step that leaves the journal alone and gives the record a status its journal allows.
LEMMA CalmRecord ==
    ASSUME Undisturbed, UNCHANGED <<journal, verdict>>, Refused' => Refused,
           \/ status' = status /\ (BeingSealed => BeingSealed')
           \/ status' = "execution_frozen"
           \/ /\ journal.phase # "absent"
              /\ status' \in {"executing", "resuming", "approved", "resume_pending"}
           \/ /\ journal.phase \in Terminal
              /\ status' \in {"error", "action_outcome_unknown"}
    PROVE  Undisturbed'
BY DEF Undisturbed, Terminal

\* A step that appends to the journal and leaves the record alone.
LEMMA CalmJournal ==
    ASSUME Undisturbed, UNCHANGED <<status, resolver, copy, verdict>>,
           journal.phase # "absent",
           journal'.phase \notin {"absent", "retryable_failure"},
           journal.phase \in Terminal => journal'.phase \in Terminal,
           BeingSealed => BeingSealed'
    PROVE  Undisturbed'
BY DEF Undisturbed, Refused

\* A projected outcome is neither a proposal nor a claim again.
LEMMA ProjectionCalm ==
    ASSUME IInv, Undisturbed, journal.phase \in Terminal,
           Resolve(Projection(journal.phase)), UNCHANGED <<journal, verdict, copy>>
    PROVE  Undisturbed'
<1>1. Projection(journal.phase) \in {"approved", "resume_pending", "error",
                                     "action_outcome_unknown"}
  BY DEF Undisturbed, Terminal, Projection
<1>2. status' = Projection(journal.phase) /\ resolver' = resolver
  BY <1>1 DEF Resolve
<1> QED BY <1>1, <1>2, RefusedBefore, CalmRecord DEF Terminal

\* The steps of a surface that claims and seals.
LEMMA ClaimingCalm ==
    ASSUME NEW s \in Surfaces, IInv, Undisturbed, Deciding(s) \/ Executing(s)
    PROVE  Undisturbed'
<1> USE DEF IInv, TypeOK, Go, Append, helping, surface
<1>0. /\ pc' = pc \/ (pc[s] \notin {"exec_ready", "exec_seal"} /\ \E l : Go(s, l))
         => (BeingSealed => BeingSealed')
      /\ Go(s, "exec_ready") \/ Go(s, "exec_seal") => BeingSealed'
  BY DEF BeingSealed
<1>1. CASE Claim(s)
  <2>1. ~Refused /\ journal.phase = "absent"
    BY <1>1 DEF Claim, Undisturbed
  <2>2. ~Refused'
    BY <1>1, <2>1, RefusedBefore DEF Claim
  <2> QED BY <1>1, <2>1, <2>2 DEF Claim, Undisturbed
<1>2. CASE Reject(s)
  BY <1>2 DEF Reject, Undisturbed
<1>3. CASE ApproveExecuting(s) \/ ExecuteRefused(s)
  <2>1. UNCHANGED <<record, copy, journal, verdict>> /\ (BeingSealed => BeingSealed')
    BY <1>0, <1>3 DEF ApproveExecuting, ExecuteRefused
  <2> QED BY <2>1, RefusedBefore, CalmRecord DEF record
<1>4. CASE RestoreClaim(s)
  <2>1. UNCHANGED <<copy, journal, verdict>> /\ lock = NoOne
        /\ pc[s] \notin {"exec_ready", "exec_seal"} /\ \E l : Go(s, l)
    BY <1>4 DEF RestoreClaim
  <2>2. CASE status = "approving"
    <3>1. ~Refused /\ journal.phase = "absent" /\ status' = "pending" /\ resolver' = "nobody"
      BY <1>4, <2>1, <2>2, SealingLocks DEF RestoreClaim, Resolve, Undisturbed
    <3>2. ~Refused'
      BY <2>1, <3>1, RefusedBefore
    <3> QED BY <2>1, <3>1, <3>2 DEF Undisturbed
  <2>3. CASE status # "approving"
    <3>1. UNCHANGED <<status, resolver>>
      BY <1>4, <2>3 DEF RestoreClaim
    <3> QED BY <1>0, <2>1, <3>1, RefusedBefore, CalmRecord
  <2> QED BY <2>2, <2>3
<1>5. CASE ExecuteArm(s)
  <2>1. ~Refused /\ BeingSealed' /\ UNCHANGED <<record, copy, verdict>>
        /\ status = "approving" /\ journal'.phase = "armed"
    BY <1>0, <1>5 DEF ExecuteArm, Undisturbed
  <2>2. ~Refused'
    BY <2>1, RefusedBefore DEF record
  <2> QED BY <2>1, <2>2 DEF Undisturbed, record
<1>6. CASE ExecuteReady(s)
  <2>1. /\ UNCHANGED <<record, copy, verdict>> /\ BeingSealed'
        /\ journal.phase = "armed" /\ journal'.phase = "ready"
    BY <1>0, <1>6 DEF ExecuteReady, PhaseKnown
  <2> QED BY <2>1, CalmJournal DEF record, Terminal
<1>7. CASE ExecuteRetry(s)
  BY <1>7 DEF ExecuteRetry, MayRetry, Undisturbed
<1>8. CASE ExecuteSeal(s)
  <2>1. /\ UNCHANGED <<journal, verdict, copy>> /\ journal.phase = "ready"
        /\ status' = "executing" /\ resolver' = resolver
    BY <1>8 DEF ExecuteSeal, Resolve, PhaseKnown
  <2> QED BY <2>1, RefusedBefore, CalmRecord
<1> QED BY <1>1, <1>2, <1>3, <1>4, <1>5, <1>6, <1>7, <1>8 DEF Deciding, Executing

\* The steps of a surface that recovers, continues or rechecks.
LEMMA CarryingCalm ==
    ASSUME NEW s \in Surfaces, IInv, Undisturbed,
           Start(s) \/ Recovery(s) \/ Continuing(s) \/ Rechecks(s) \/ RecheckConfirm(s)
    PROVE  Undisturbed'
<1> USE DEF IInv, TypeOK, Go, Append, helping, surface, record
<1>0. ASSUME pc' = pc \/ (pc[s] \notin {"exec_ready", "exec_seal"} /\ \E l : Go(s, l))
      PROVE  BeingSealed => BeingSealed'
  BY <1>0 DEF BeingSealed
<1>1. CASE Start(s) \/ RecoverFrozen(s) \/ RecoverMissing(s) \/ RecoverOwned(s)
           \/ RecoverWait(s) \/ RecoverSpawn(s) \/ Resume(s)
  <2>1. UNCHANGED <<record, copy, journal, verdict>>
        /\ pc[s] \notin {"exec_ready", "exec_seal"} /\ \E l : Go(s, l)
    BY <1>1 DEF Start, RecoverFrozen, RecoverMissing, RecoverOwned, RecoverWait, RecoverSpawn,
                Resume, Readable, Recovering, Return
  <2> QED BY <2>1, <1>0, RefusedBefore, CalmRecord
<1>2. CASE RecoverFreeze(s) \/ ContinueDispatch(s)
  <2>1. UNCHANGED <<record, journal, verdict>> /\ ReadRecord(s)
        /\ pc[s] \notin {"exec_ready", "exec_seal"} /\ \E l : Go(s, l)
    BY <1>2 DEF RecoverFreeze, ContinueDispatch
  <2> QED BY <2>1, <1>0, RefusedBefore, CalmRecord
<1>3. CASE RecoverTorn(s) \/ RecoverSeal(s) \/ RecheckTorn(s)
  <2>1. /\ UNCHANGED <<copy, journal, verdict>> /\ resolver' = resolver
        /\ \/ status' = "execution_frozen"
           \/ status' = "executing" /\ journal.phase # "absent"
    BY <1>3 DEF RecoverTorn, RecoverSeal, RecheckTorn, Freeze, Resolve, PhaseKnown
  <2> QED BY <2>1, RefusedBefore, CalmRecord
<1>4. CASE RecoverPreArm(s)
  <2>1. ~Refused /\ status' = "pending" /\ resolver' = "nobody" /\ UNCHANGED copy
    BY <1>4 DEF RecoverPreArm, Resolve, Undisturbed
  <2>2. ~Refused'
    BY <2>1, RefusedBefore
  <2> QED BY <1>4, <2>1, <2>2 DEF RecoverPreArm, Undisturbed
<1>5. CASE RecoverArmed(s) \/ RecoverOffice(s) \/ RecoverMail(s) \/ RecoverUnknown(s)
           \/ RecoverUnowned(s)
  <2>1. /\ lock = NoOne /\ UNCHANGED <<record, copy, verdict>>
        /\ journal.phase \notin Terminal \cup {"absent"}
        /\ journal'.phase \notin {"absent", "retryable_failure"}
    BY <1>5 DEF RecoverArmed, RecoverUnowned, RecoverOffice, RecoverMail, RecoverUnknown,
                OrphanedAttempt, Readable, Recovering, Terminal
  <2> QED BY <2>1, SealingLocks, CalmJournal
<1>6. CASE RecoverBind(s)
  <2>1. /\ UNCHANGED <<record, copy, verdict>>
        /\ journal.phase \notin Terminal \cup {"absent"}
        /\ journal'.phase \notin {"absent", "retryable_failure"}
        /\ pc[s] \notin {"exec_ready", "exec_seal"} /\ \E l : Go(s, l)
    BY <1>6 DEF RecoverBind, Return, PhaseKnown, Terminal
  <2> QED BY <2>1, <1>0, CalmJournal
<1>7. CASE RecoverProject(s) \/ RecoverTerminal(s)
  <2>1. journal.phase \in Terminal /\ Resolve(Projection(journal.phase))
        /\ UNCHANGED <<journal, verdict, copy>>
    BY <1>7 DEF RecoverProject, RecoverTerminal, ProjectTerminal, PhaseKnown, Terminal
  <2> QED BY <2>1, ProjectionCalm
<1>8. CASE RecoverFreezeWrite(s)
  <2>1. /\ UNCHANGED <<journal, verdict>> /\ WriteBack(s, "execution_frozen")
        /\ pc[s] \notin {"exec_ready", "exec_seal"} /\ \E l : Go(s, l)
    BY <1>8 DEF RecoverFreezeWrite
  <2> QED BY <2>1, <1>0, RefusedBeforeWrite, WriteBackSound, CalmRecord
<1>9. CASE ContinueBegin(s)
  <2>1. /\ UNCHANGED <<journal, verdict, copy>> /\ resolver' = resolver
        /\ pc[s] \notin {"exec_ready", "exec_seal"} /\ \E l : Go(s, l)
        /\ \/ status' = status
           \/ status' = "resuming" /\ journal.phase # "absent"
    BY <1>9 DEF ContinueBegin, Resolve, HonestStatus
  <2> QED BY <2>1, <1>0, RefusedBefore, CalmRecord
<1>10. CASE ContinueEnd(s)
  <2>1. /\ UNCHANGED <<journal, verdict>> /\ journal.phase = "succeeded"
        /\ pc[s] \notin {"exec_ready", "exec_seal"} /\ \E l : Go(s, l)
    BY <1>10 DEF ContinueEnd, PhaseKnown
  <2>2. PICK new \in {"approved", "error"} : WriteBack(s, new)
    BY <1>10 DEF ContinueEnd
  <2>3. (Refused' => Refused) /\ status' \in {status, new}
    BY <2>2, RefusedBeforeWrite, WriteBackSound
  <2> QED BY <2>1, <2>2, <2>3, <1>0, CalmRecord DEF Terminal
<1>11. CASE RecheckConfirmed(s)
  <2>1. /\ UNCHANGED <<copy, journal, verdict, pc>> /\ resolver' = resolver
        /\ journal.phase = "succeeded"
        /\ status' \in {status, "approved", "resume_pending"}
    BY <1>11 DEF RecheckConfirmed, Rechecking, Resolve, Projection
  <2> QED BY <2>1, <1>0, RefusedBefore, CalmRecord
<1>12. CASE RecheckOpen(s)
  BY <1>12, <1>0, RefusedBefore, CalmRecord DEF RecheckOpen
<1>13. CASE RecheckSubmitted(s)
  <2>1. /\ lock = NoOne /\ UNCHANGED <<record, copy, verdict>>
        /\ journal.phase # "absent" /\ journal'.phase = "succeeded"
    BY <1>13 DEF RecheckSubmitted, MayObserve, Rechecking
  <2> QED BY <2>1, SealingLocks, CalmJournal DEF Terminal
<1>14. CASE RecheckConfirm(s)
  <2>1. /\ journal.phase \in Terminal /\ Resolve(Projection(journal.phase))
        /\ UNCHANGED <<journal, verdict, copy>>
    BY <1>14 DEF RecheckConfirm, PhaseKnown, Terminal
  <2> QED BY <2>1, ProjectionCalm
<1> QED BY <1>1, <1>2, <1>3, <1>4, <1>5, <1>6, <1>7, <1>8, <1>9, <1>10, <1>11, <1>12,
      <1>13, <1>14 DEF Recovery, Continuing, Rechecks

\* The steps of a helper: an action that finds its store busy is a mishap.
LEMMA HelpingCalm ==
    ASSUME NEW h \in Helpers, IInv, Undisturbed, Helping(h) \/ Reap(h),
           mishaps = 0, mishaps' = 0
    PROVE  Undisturbed'
<1> USE DEF IInv, TypeOK, Append, Become, surface, record
<1>0. BeingSealed => BeingSealed'
  BY DEF Helping, HelperReady, HelperStarted, HelperCommit, HelperDecline, HelperLate,
         HelperUnreadable, HelperAct, HelperRecord, HelperProject, HelperAgain, HelperFreeze,
         HelperFreezeWrite, Reap, BeingSealed
<1>1. CASE HelperReady(h) \/ HelperStarted(h) \/ HelperCommit(h)
  <2>1. /\ UNCHANGED <<record, copy, verdict>>
        /\ journal.phase \notin Terminal \cup {"absent"}
        /\ journal'.phase \notin {"absent", "retryable_failure"}
    BY <1>1 DEF HelperReady, HelperStarted, HelperCommit, PhaseKnown, Terminal
  <2> QED BY <2>1, <1>0, CalmJournal
<1>2. CASE HelperDecline(h) \/ HelperUnreadable(h) \/ HelperAgain(h) \/ Reap(h)
  BY <1>0, <1>2, RefusedBefore, CalmRecord
     DEF HelperDecline, HelperUnreadable, HelperAgain, Reap
<1>3. CASE HelperLate(h) \/ HelperProject(h)
  <2>1. journal.phase \in Terminal /\ Resolve(Projection(journal.phase))
        /\ UNCHANGED <<journal, verdict, copy>>
    BY <1>3 DEF HelperLate, HelperProject, ProjectTerminal, PhaseKnown
  <2> QED BY <2>1, ProjectionCalm
<1>4. CASE HelperAct(h)
  <2>1. UNCHANGED <<record, copy, journal>>
        /\ \E v \in {"done", "open", "raised"} : verdict' = [verdict EXCEPT ![h] = v]
    <3>1. PICK v \in {"done", "open", "raised", "busy", "again"} :
             /\ verdict' = [verdict EXCEPT ![h] = v]
             /\ mishaps' = IF v \in {"busy", "again"} THEN mishaps + 1 ELSE mishaps
      BY <1>4 DEF HelperAct
    <3>2. v \in {"done", "open", "raised"}
      BY <3>1
    <3>3. UNCHANGED <<record, copy, journal>>
      BY <1>4 DEF HelperAct
    <3> QED BY <3>1, <3>2, <3>3
  <2>2. Refused' => Refused
    BY <2>1, RefusedBefore
  <2> QED BY <1>0, <2>1, <2>2 DEF Undisturbed
<1>5. CASE HelperRecord(h)
  <2>1. /\ UNCHANGED <<record, copy, verdict>> /\ journal.phase = "attempt_committed"
        /\ journal'.phase \notin {"absent", "retryable_failure"}
    BY <1>5 DEF HelperRecord, Undisturbed
  <2> QED BY <1>0, <2>1, CalmJournal DEF Terminal
<1>6. CASE HelperFreeze(h)
  BY <1>0, <1>6, RefusedBefore, CalmRecord DEF HelperFreeze
<1>7. CASE HelperFreezeWrite(h)
  <2>1. UNCHANGED <<journal, verdict>> /\ WriteBack(h, "execution_frozen")
    BY <1>7 DEF HelperFreezeWrite
  <2> QED BY <2>1, <1>0, RefusedBeforeWrite, WriteBackSound, CalmRecord
<1> QED BY <1>1, <1>2, <1>3, <1>4, <1>5, <1>6, <1>7 DEF Helping

\* No step takes a mishap back, and every failure is one.
LEMMA MishapsGrow ==
    ASSUME IInv, [Next]_vars
    PROVE  mishaps \in Nat /\ mishaps' >= mishaps /\ (Failing => mishaps' = mishaps + 1)
<1>0. mishaps \in Nat
  BY ScopeAssumption DEF IInv, TypeOK
<1>1. Failing => mishaps' = mishaps + 1
  BY DEF Failing, SurfaceCrash, SurfaceBusy, SurfaceFault, HelperDie, HelperFault, Mishap
<1>2. ASSUME NEW s \in Surfaces, Deciding(s) \/ Executing(s) \/ Start(s) \/ Rechecks(s)
      PROVE  mishaps' = mishaps
  BY <1>2 DEF Deciding, Claim, Reject, ApproveExecuting, Executing, RestoreClaim,
       ExecuteRefused, ExecuteArm, ExecuteReady, ExecuteRetry, ExecuteSeal, Start, Rechecks,
       RecheckTorn, RecheckConfirmed, RecheckOpen, RecheckSubmitted
<1>3. ASSUME NEW s \in Surfaces, Recovery(s) PROVE mishaps' = mishaps
  BY <1>3 DEF Recovery, RecoverFrozen, RecoverPreArm, RecoverMissing, RecoverTorn,
       RecoverArmed, RecoverSeal, RecoverUnowned, RecoverOwned, RecoverOffice, RecoverMail,
       RecoverUnknown, RecoverProject, RecoverTerminal, RecoverSpawn, RecoverBind,
       RecoverWait, RecoverFreeze, RecoverFreezeWrite
<1>4. ASSUME NEW s \in Surfaces, Continuing(s) \/ RecheckConfirm(s) PROVE mishaps' = mishaps
  BY <1>4 DEF Continuing, Resume, ContinueBegin, ContinueDispatch, ContinueEnd,
       RecheckConfirm
<1>5. ASSUME NEW h \in Helpers, Helping(h) \/ Reap(h) PROVE mishaps' \in {mishaps, mishaps + 1}
  BY <1>5 DEF Helping, HelperReady, HelperStarted, HelperCommit, HelperDecline, HelperLate,
       HelperUnreadable, HelperAct, HelperRecord, HelperProject, HelperAgain, HelperFreeze,
       HelperFreezeWrite, Reap
<1> QED BY <1>0, <1>1, <1>2, <1>3, <1>4, <1>5 DEF Next, Carry, vars

LEMMA CalmStep == ASSUME IInv, Calm, [Next]_vars PROVE Calm'
<1> SUFFICES ASSUME mishaps' = 0 PROVE Undisturbed'
  BY DEF Calm
<1>1. mishaps = 0 /\ Undisturbed /\ ~Failing
  BY MishapsGrow DEF Calm
<1>2. CASE UNCHANGED vars
  BY <1>1, <1>2 DEF vars, Undisturbed, Refused, BeingSealed, record, surface, helping
<1> QED BY <1>1, <1>2, ClaimingCalm, CarryingCalm, HelpingCalm DEF Next, Carry

\* Only these two steps let a helper through.
LEMMA OnlyCommits ==
    ASSUME IInv, Next, NEW h \in Helpers, ~Running(h), Running(h)'
    PROVE  HelperReady(h) \/ HelperCommit(h)
<1> USE DEF IInv, TypeOK, Running, Become, helping
<1>1. ASSUME NEW s \in Surfaces, Deciding(s) \/ Executing(s) \/ Start(s) \/ Rechecks(s)
      PROVE  FALSE
  BY <1>1 DEF Deciding, Claim, Reject, ApproveExecuting, Executing, RestoreClaim,
       ExecuteRefused, ExecuteArm, ExecuteReady, ExecuteRetry, ExecuteSeal, Start, Rechecks,
       RecheckTorn, RecheckConfirmed, RecheckOpen, RecheckSubmitted
<1>2. ASSUME NEW s \in Surfaces, Recovery(s) PROVE FALSE
  BY <1>2 DEF Recovery, RecoverFrozen, RecoverPreArm, RecoverMissing, RecoverTorn,
       RecoverArmed, RecoverSeal, RecoverUnowned, RecoverOwned, RecoverOffice, RecoverMail,
       RecoverUnknown, RecoverProject, RecoverTerminal, RecoverSpawn, RecoverBind,
       RecoverWait, RecoverFreeze, RecoverFreezeWrite
<1>3. ASSUME NEW s \in Surfaces, Continuing(s) \/ RecheckConfirm(s) PROVE FALSE
  BY <1>3 DEF Continuing, Resume, ContinueBegin, ContinueDispatch, ContinueEnd,
       RecheckConfirm
<1>4. ASSUME Failing PROVE FALSE
  BY <1>4 DEF Failing, SurfaceCrash, SurfaceBusy, SurfaceFault, HelperDie, HelperFault
<1>5. ASSUME NEW g \in Helpers, Helping(g) \/ Reap(g)
      PROVE  g = h /\ (HelperReady(h) \/ HelperCommit(h))
  BY <1>5 DEF Helping, HelperReady, HelperStarted, HelperCommit, HelperDecline, HelperLate,
       HelperUnreadable, HelperAct, HelperRecord, HelperProject, HelperAgain, HelperFreeze,
       HelperFreezeWrite, Reap
<1> QED BY <1>1, <1>2, <1>3, <1>4, <1>5 DEF Next, Carry

\* As long as nothing has failed, a helper commits its attempt only while the record is
\* executing, or frozen by a late write, and never once the owner has rejected it.
THEOREM CommitsAreNotRefused == Spec => CommitNotRefused
<1> DEFINE Claimed == status \in {"executing", "execution_frozen"} /\ resolver # "rejecter"
<1>1. Init => Calm
  BY DEF Init, Calm, Undisturbed, Refused, Blank
<1>2. IInv /\ Calm /\ [Next]_vars => Calm'
  BY CalmStep
<1>3. IInv /\ Calm /\ [Next]_vars
        => [mishaps = 0 => \A h \in Helpers :
              ~Running(h) /\ Running(h)' =>
                 /\ status \in {"executing", "execution_frozen"}
                 /\ resolver # "rejecter"]_vars
  <2> SUFFICES ASSUME IInv, Calm, Next, mishaps = 0, NEW h \in Helpers, ~Running(h), Running(h)'
               PROVE  Claimed
    OBVIOUS
  <2>1. journal.phase \in {"ready", "helper_started"} /\ ~BeingSealed
    <3>1. CASE HelperReady(h)
      BY <3>1, SealingLocks DEF HelperReady, Prepare
    <3>2. CASE HelperCommit(h)
      BY <3>2, RosterAssumption
         DEF HelperCommit, IInv, LockHeld, PhaseKnown, Section, BeingSealed
    <3> QED BY <3>1, <3>2, OnlyCommits
  <2>2. /\ resolver # "rejecter"
        /\ status \notin {"pending", "rejected", "approving", "error", "action_outcome_unknown"}
    BY <2>1 DEF Calm, Undisturbed, Refused, Terminal
  <2>3. status \notin {"approved", "resume_pending", "resuming"}
    BY <2>1 DEF IInv, HonestStatus
  <2> QED BY <2>2, <2>3 DEF IInv, TypeOK, Status
<1> QED BY <1>1, <1>2, <1>3, Inductive, PTL DEF Spec, CommitNotRefused
=============================================================================
