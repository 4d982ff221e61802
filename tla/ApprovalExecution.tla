-------------------------- MODULE ApprovalExecution --------------------------
(***************************************************************************)
(* One approval record of birkin, from the proposal to the projected       *)
(* outcome: the pending JSON record, the append-only execution journal     *)
(* beside it, the surfaces (terminal, web, gateway processes) that claim,  *)
(* reject, execute and recover it, and the helper processes they launch.   *)
(*                                                                         *)
(* Records never interact: each has its own lock file and journal.  Every  *)
(* durable write is a step of its own, because a process may stop between  *)
(* any two; a section under the record lock is a chain of steps that holds *)
(* "lock".  Sections with one write are one step.  The record is also      *)
(* rewritten outside the lock, by _freeze and by the end of a              *)
(* continuation: there its reading and its writing are two steps.          *)
(***************************************************************************)
EXTENDS Naturals

CONSTANTS
    Surfaces,      \* processes that act on approvals
    Helpers,       \* helper processes, each named by its one owner token
    NoOne,         \* holder of a free lock, owner of an unowned journal
    Categories,    \* the categories a proposal may have, see Category
    Continued,     \* the values of "has a worker continuation"
    MaxMishaps,    \* bound on crashes, I/O errors, timeouts and retries
    TornAppends    \* whether a crash may leave half a journal line

\* "plain" stands for every category without a recovery rule of its own.
Category == {"plain", "cron", "mail_send", "office"}

ASSUME RosterAssumption ==
    /\ Surfaces \cap Helpers = {}
    /\ NoOne \notin Surfaces \cup Helpers

ASSUME ScopeAssumption ==
    /\ Categories \subseteq Category
    /\ Continued \subseteq BOOLEAN
    /\ MaxMishaps \in Nat
    /\ TornAppends \in BOOLEAN

VARIABLES
    category,    \* sealed part of the record: which action was proposed
    continued,   \* sealed part of the record: continuation is not None
    status,      \* the record's status
    resolver,    \* whose identity fields the record carries
    recheck,     \* mail_recheck_state of the record
    journal,     \* phase, owner token and result of the journal's last event
    lock,        \* holder of the record's file lock
    copy,        \* what an unlocked resolve_pending has read of the record
    pc,          \* where each surface is
    call,        \* why a surface is in recover_one
    child,       \* helper a surface has just spawned or waits for
    helper,      \* life of each helper
    verdict,     \* what the action returned to a helper
    acted,       \* helpers that were in the action: it may have taken effect
    dispatched,  \* times the continuation was dispatched, up to 2
    mishaps      \* crashes, errors, timeouts and retries so far

request == <<category, continued>>
record == <<status, resolver, recheck>>
surface == <<pc, call, child>>
helping == <<helper, verdict>>
history == <<acted, dispatched>>
vars == <<request, record, copy, journal, lock, surface, helping, history,
          mishaps>>

-----------------------------------------------------------------------------
(* The journal and the record *)

Terminal == {"succeeded", "failed", "retryable_failure",
             "action_outcome_unknown"}

Phase == {"absent", "torn", "armed", "ready", "helper_started",
          "attempt_committed"} \cup Terminal

\* What the last event says of the action's result; "text" is any result of
\* a category whose result is not interpreted.
Result == {"none", "text", "submitted", "open", "needs_review"}

\* The transitions snapshot() accepts; any other event makes the journal
\* unreadable for good.
Legal(old, new) ==
    \/ <<old, new>> \in
         {<<"absent", "armed">>, <<"armed", "ready">>,
          <<"ready", "helper_started">>, <<"ready", "attempt_committed">>,
          <<"helper_started", "helper_started">>,
          <<"helper_started", "attempt_committed">>}
    \/ old = "attempt_committed" /\ new \in Terminal
    \/ category = "office" /\ old = "attempt_committed" /\ new = "ready"
    \/ category = "cron" /\ old = "retryable_failure" /\ new = "ready"
    \/ category = "mail_send" /\ old = "action_outcome_unknown"
                              /\ new = "succeeded"

Append(phase, owner, result) ==
    journal' = [phase |-> phase, owner |-> owner, result |-> result]

Status == {"pending", "approving", "executing", "approved", "resume_pending",
           "resuming", "rejected", "error", "action_outcome_unknown",
           "execution_frozen"}

\* resolve_pending without identities: going back to pending drops the
\* resolver's identity, every other status keeps it.
Resolve(new) ==
    /\ status' = new
    /\ resolver' = IF new = "pending" THEN "nobody" ELSE resolver

\* _freeze inside the locked section.
Freeze == Resolve("execution_frozen") /\ UNCHANGED recheck

Resolver == {"nobody", "approver", "rejecter"}

RecheckState == {"absent", "open", "needs_review", "submitted"}

Copy == [resolver : Resolver, recheck : RecheckState]

Blank == [resolver |-> "nobody", recheck |-> "absent"]

Forget(p) == copy' = [copy EXCEPT ![p] = Blank]

\* resolve_pending outside the lock: it reads the whole record ...
ReadRecord(p) ==
    copy' = [copy EXCEPT ![p] = [resolver |-> resolver, recheck |-> recheck]]

RestoreFields(p) == resolver' = copy[p].resolver /\ recheck' = copy[p].recheck

\* ... and writes the whole record back later, with the new status.  A locked
\* section of one step (the lock is free here) that has read the record before
\* the write may put its own status, or its own record, in its place.
WriteBack(p, new) ==
    /\ \/ status' = new /\ RestoreFields(p)
       \/ lock = NoOne /\ UNCHANGED status
                       /\ (RestoreFields(p) \/ UNCHANGED <<resolver, recheck>>)
    /\ Forget(p)

\* Mutant of Projection: an attempt whose outcome is unknown reads as done.
ProjectionHopeful(phase) ==
    CASE phase \in {"succeeded", "action_outcome_unknown"} ->
           IF continued THEN "resume_pending" ELSE "approved"
      [] phase = "failed" -> "error"
      [] phase = "retryable_failure" -> "pending"

\* project_terminal: the status that tells the owner what the journal knows.
Projection(phase) ==
    CASE phase = "succeeded" ->
           IF continued THEN "resume_pending" ELSE "approved"
      [] phase = "failed" -> "error"
      [] phase = "retryable_failure" -> "pending"
      [] phase = "action_outcome_unknown" -> "action_outcome_unknown"

\* Mutant of ProjectTerminal: the recheck state is seeded with no receipt.
ProjectTerminalUnchecked ==
    /\ Resolve(Projection(journal.phase))
    /\ recheck' = IF journal.phase = "action_outcome_unknown"
                  THEN journal.result ELSE recheck

\* An unconfirmed mail receipt seeds the recheck state once.
ProjectTerminal ==
    /\ Resolve(Projection(journal.phase))
    /\ recheck' = IF /\ journal.phase = "action_outcome_unknown"
                     /\ journal.result # "none"
                     /\ recheck = "absent"
                    THEN journal.result ELSE recheck

-----------------------------------------------------------------------------
(* Processes *)

Location == {"idle", "claimed", "exec_ready", "exec_seal", "recover",
             "rec_seal", "rec_spawn", "rec_bind", "rec_project", "rec_wait",
             "recovered", "freeze", "freeze_write", "resume", "dispatch",
             "resumed", "resume_failed", "confirm", "down"}

\* execute: execute_claimed, waits for the helper, then resumes.
\* settle: the same call after the helper exited.
\* retry: approve on a record that is already executing.
\* startup: recover_all.
Call == {"execute", "settle", "retry", "startup"}

Life == {"unborn", "waiting", "started", "committed", "returned",
         "recording", "freezing", "overwriting", "exit0", "exit1", "gone"}

Verdict == {"none", "done", "open", "raised", "busy", "again"}

\* Mutant of OwnerAlive: a platform that cannot tell the process generation.
OwnerUnseen(o) == FALSE

\* A helper that exited is a zombie until its parent reaps it; until then its
\* pid and generation look alive.
OwnerAlive(o) == o \in Helpers /\ helper[o] \notin {"unborn", "gone"}

Running(h) == helper[h] \in {"committed", "returned"}

Waits(s) == call[s] = "execute" \/ (call[s] = "retry" /\ category = "office")

Go(s, where) == pc' = [pc EXCEPT ![s] = where]

\* Mutant of Return: recover_all, too, goes on to the continuation.
ReturnResuming(s) == Go(s, "recovered")

\* recover_one returned: execute_claimed looks at the status once more.
Return(s) ==
    Go(s, IF call[s] \in {"execute", "settle"} THEN "recovered" ELSE "idle")

\* Why the surface was in recover_one does not matter any more.
CallOver(s) == call' = [call EXCEPT ![s] = "startup"]

Become(h, life) == helper' = [helper EXCEPT ![h] = life]

Init ==
    /\ category \in Categories
    /\ continued \in Continued
    /\ status = "pending"
    /\ resolver = "nobody"
    /\ recheck = "absent"
    /\ journal = [phase |-> "absent", owner |-> NoOne, result |-> "none"]
    /\ lock = NoOne
    /\ copy = [p \in Surfaces \cup Helpers |-> Blank]
    /\ pc = [s \in Surfaces |-> "idle"]
    /\ call = [s \in Surfaces |-> "startup"]
    /\ child = [s \in Surfaces |-> NoOne]
    /\ helper = [h \in Helpers |-> "unborn"]
    /\ verdict = [h \in Helpers |-> "none"]
    /\ acted = {}
    /\ dispatched = 0
    /\ mishaps = 0

-----------------------------------------------------------------------------
(* Deciding: each is one read and one write under the record lock *)

Claim(s) ==
    /\ pc[s] = "idle" /\ lock = NoOne
    /\ status = "pending"
    /\ status' = "approving" /\ resolver' = "approver"
    /\ Go(s, "claimed")
    /\ UNCHANGED <<request, recheck, copy, journal, lock, call, child,
                   helping, history, mishaps>>

Reject(s) ==
    /\ pc[s] = "idle" /\ lock = NoOne
    /\ status = "pending"
    /\ status' = "rejected" /\ resolver' = "rejecter"
    /\ UNCHANGED <<request, recheck, copy, journal, lock, surface, helping,
                   history, mishaps>>

\* A gateway that cannot start a worker for its claim gives the claim back.
RestoreClaim(s) ==
    /\ pc[s] = "claimed" /\ lock = NoOne
    /\ IF status = "approving" THEN Resolve("pending")
                               ELSE UNCHANGED <<status, resolver>>
    /\ Go(s, "idle")
    /\ UNCHANGED <<request, recheck, copy, journal, lock, call, child,
                   helping, history, mishaps>>

-----------------------------------------------------------------------------
(* execute_claimed: seal the claimed action in the journal *)

\* Mutant of MayRetry: a cron job that failed is run again.
MayRetryFailed ==
    category = "cron" /\ journal.phase \in {"retryable_failure", "failed"}

\* A journal that exists has spent its authority, save for a cron job whose
\* attempt found the cron store busy.
MayRetry == category = "cron" /\ journal.phase = "retryable_failure"

ExecuteRefused(s) ==
    /\ pc[s] = "claimed" /\ lock = NoOne
    /\ \/ status # "approving"
       \/ journal.phase # "absent" /\ ~MayRetry
    /\ Go(s, "idle")
    /\ UNCHANGED <<request, record, copy, journal, lock, call, child,
                   helping, history, mishaps>>

\* Mutant of ExecuteArm: the status is not read again under the lock.
ExecuteArmStale(s) ==
    /\ pc[s] = "claimed" /\ lock = NoOne
    /\ journal.phase = "absent"
    /\ Append("armed", NoOne, "none")
    /\ lock' = s
    /\ Go(s, "exec_ready")
    /\ UNCHANGED <<request, record, copy, call, child, helping, history,
                   mishaps>>

ExecuteArm(s) ==
    /\ pc[s] = "claimed" /\ lock = NoOne
    /\ status = "approving" /\ journal.phase = "absent"
    /\ Append("armed", NoOne, "none")
    /\ lock' = s
    /\ Go(s, "exec_ready")
    /\ UNCHANGED <<request, record, copy, call, child, helping, history,
                   mishaps>>

ExecuteReady(s) ==
    /\ pc[s] = "exec_ready"
    /\ Append("ready", NoOne, "none")
    /\ Go(s, "exec_seal")
    /\ UNCHANGED <<request, record, copy, lock, call, child, helping,
                   history, mishaps>>

ExecuteRetry(s) ==
    /\ pc[s] = "claimed" /\ lock = NoOne
    /\ status = "approving" /\ MayRetry
    /\ Append("ready", NoOne, "none")
    /\ lock' = s
    /\ Go(s, "exec_seal")
    /\ UNCHANGED <<request, record, copy, call, child, helping, history,
                   mishaps>>

ExecuteSeal(s) ==
    /\ pc[s] = "exec_seal"
    /\ Resolve("executing")
    /\ lock' = NoOne
    /\ Go(s, "recover")
    /\ call' = [call EXCEPT ![s] = "execute"]
    /\ UNCHANGED <<request, recheck, copy, journal, child, helping, history,
                   mishaps>>

-----------------------------------------------------------------------------
(* Entering recover_one: both entries read the record without the lock *)

\* approve() on a record that is executing.
ApproveExecuting(s) ==
    /\ pc[s] = "idle"
    /\ status = "executing"
    /\ category = "office" => resolver = "approver"
    /\ \/ category = "office"
       \/ journal.phase \in {"absent", "torn"} \cup Terminal
    /\ Go(s, "recover")
    /\ call' = [call EXCEPT ![s] = "retry"]
    /\ UNCHANGED <<request, record, copy, journal, lock, child, helping,
                   history, mishaps>>

\* A surface starts, anew or after a crash: recover_all scans the directory.
Stranded == journal.phase # "absent" \/ status \in {"approving", "executing"}

Start(s) ==
    /\ \/ pc[s] = "idle" /\ Stranded
       \/ pc[s] = "down"
    /\ Go(s, IF Stranded THEN "recover" ELSE "idle")
    /\ call' = [call EXCEPT ![s] = "startup"]
    /\ UNCHANGED <<request, record, copy, journal, lock, child, helping,
                   history, mishaps>>

-----------------------------------------------------------------------------
(* recover_one under the record lock *)

Recovering(s) == pc[s] = "recover" /\ lock = NoOne

RecoverFrozen(s) ==
    /\ Recovering(s)
    /\ status = "execution_frozen"
    /\ Go(s, "idle")
    /\ UNCHANGED <<request, record, copy, journal, lock, call, child,
                   helping, history, mishaps>>

\* A claim without a journal: nothing was armed, the authority is given back.
RecoverPreArm(s) ==
    /\ Recovering(s)
    /\ status = "approving" /\ journal.phase = "absent"
    /\ Resolve("pending")
    /\ Return(s)
    /\ UNCHANGED <<request, recheck, copy, journal, lock, call, child,
                   helping, history, mishaps>>

\* No journal and no claim: "journal is missing" is raised out of the locked
\* section, and the freeze is written after the lock is released.
RecoverMissing(s) ==
    /\ Recovering(s)
    /\ journal.phase = "absent"
    /\ status \notin {"approving", "executing", "execution_frozen"}
    /\ Go(s, "freeze")
    /\ UNCHANGED <<request, record, copy, journal, lock, call, child,
                   helping, history, mishaps>>

RecoverTorn(s) ==
    /\ Recovering(s)
    /\ journal.phase = "torn" /\ status # "execution_frozen"
    /\ Freeze
    /\ Go(s, "idle")
    /\ UNCHANGED <<request, copy, journal, lock, call, child, helping,
                   history, mishaps>>

Readable(s) == Recovering(s) /\ status # "execution_frozen"

RecoverArmed(s) ==
    /\ Readable(s)
    /\ journal.phase = "armed"
    /\ Append("ready", NoOne, "none")
    /\ lock' = s
    /\ Go(s, "rec_seal")
    /\ UNCHANGED <<request, record, copy, call, child, helping, history,
                   mishaps>>

RecoverSeal(s) ==
    /\ pc[s] = "rec_seal"
    /\ Resolve("executing")
    /\ Go(s, "rec_spawn")
    /\ UNCHANGED <<request, recheck, copy, journal, lock, call, child,
                   helping, history, mishaps>>

\* Mutant of RecoverUnowned: a helper that died uncommitted is forgotten.
RecoverReadyOnly(s) ==
    /\ Readable(s)
    /\ journal.phase = "ready"
    /\ lock' = s
    /\ Go(s, "rec_spawn")
    /\ UNCHANGED <<request, record, copy, journal, call, child, helping,
                   history, mishaps>>

\* Work nobody owns: ready, or started by a helper that died uncommitted.
RecoverUnowned(s) ==
    /\ Readable(s)
    /\ \/ journal.phase = "ready"
       \/ journal.phase = "helper_started" /\ ~OwnerAlive(journal.owner)
    /\ lock' = s
    /\ Go(s, "rec_spawn")
    /\ UNCHANGED <<request, record, copy, journal, call, child, helping,
                   history, mishaps>>

RecoverOwned(s) ==
    /\ Readable(s)
    /\ journal.phase \in {"helper_started", "attempt_committed"}
    /\ OwnerAlive(journal.owner)
    /\ Return(s)
    /\ UNCHANGED <<request, record, copy, journal, lock, call, child,
                   helping, history, mishaps>>

OrphanedAttempt(s) ==
    /\ Readable(s)
    /\ journal.phase = "attempt_committed"
    /\ ~OwnerAlive(journal.owner)

\* Mutant of RecoverOffice: every lost attempt is taken up again.
RecoverAnyAttempt(s) ==
    /\ OrphanedAttempt(s)
    /\ Append("ready", NoOne, "none")
    /\ lock' = s
    /\ Go(s, "rec_spawn")
    /\ UNCHANGED <<request, record, copy, call, child, helping, history,
                   mishaps>>

\* Only a resumable Office job gets a second attempt.
RecoverOffice(s) ==
    /\ OrphanedAttempt(s)
    /\ category = "office"
    /\ Append("ready", NoOne, "none")
    /\ lock' = s
    /\ Go(s, "rec_spawn")
    /\ UNCHANGED <<request, record, copy, call, child, helping, history,
                   mishaps>>

\* A mail is looked up, never sent again.  The provider may report it as sent
\* whoever sent it, the helper or the owner by hand; an unreachable provider
\* leaves no result.
Observed == {"open", "needs_review", "none", "submitted"}

RecoverMail(s) ==
    /\ OrphanedAttempt(s)
    /\ category = "mail_send"
    /\ \E seen \in Observed :
         Append(IF seen = "submitted" THEN "succeeded"
                                      ELSE "action_outcome_unknown",
                NoOne, seen)
    /\ lock' = s
    /\ Go(s, "rec_project")
    /\ UNCHANGED <<request, record, copy, call, child, helping, history,
                   mishaps>>

RecoverUnknown(s) ==
    /\ OrphanedAttempt(s)
    /\ category \in {"plain", "cron"}
    /\ Append("action_outcome_unknown", NoOne, "none")
    /\ lock' = s
    /\ Go(s, "rec_project")
    /\ UNCHANGED <<request, record, copy, call, child, helping, history,
                   mishaps>>

RecoverProject(s) ==
    /\ pc[s] = "rec_project"
    /\ ProjectTerminal
    /\ lock' = NoOne
    /\ Return(s)
    /\ UNCHANGED <<request, copy, journal, call, child, helping, history,
                   mishaps>>

\* A journal that is already terminal is projected again, whatever the
\* record says by now.
RecoverTerminal(s) ==
    /\ Readable(s)
    /\ journal.phase \in Terminal
    /\ ProjectTerminal
    /\ Return(s)
    /\ UNCHANGED <<request, copy, journal, lock, call, child, helping,
                   history, mishaps>>

-----------------------------------------------------------------------------
(* launch_helper, and waiting for the helper *)

RecoverSpawn(s) ==
    /\ pc[s] = "rec_spawn"
    /\ \E h \in Helpers :
         /\ helper[h] = "unborn"
         /\ Become(h, "waiting")
         /\ child' = [child EXCEPT ![s] = h]
    /\ Go(s, "rec_bind")
    /\ UNCHANGED <<request, record, copy, journal, lock, call, verdict,
                   history, mishaps>>

RecoverBind(s) ==
    /\ pc[s] = "rec_bind"
    /\ Append("helper_started", child[s], "none")
    /\ lock' = NoOne
    /\ IF Waits(s)
         THEN Go(s, "rec_wait") /\ UNCHANGED child
         ELSE Return(s) /\ child' = [child EXCEPT ![s] = NoOne]
    /\ UNCHANGED <<request, record, copy, call, helping, history, mishaps>>

\* process.wait() reaps the helper; a terminal journal or a clean exit is
\* followed by recover_one without waiting, a failed exit ends the call.
RecoverWait(s) ==
    /\ pc[s] = "rec_wait"
    /\ helper[child[s]] \in {"exit0", "exit1"}
    /\ Become(child[s], "gone")
    /\ Go(s, IF \/ journal.phase \in Terminal
                \/ helper[child[s]] = "exit0"
             THEN "recover" ELSE "idle")
    /\ call' = [call EXCEPT ![s] =
                  IF call[s] = "execute" THEN "settle" ELSE "startup"]
    /\ child' = [child EXCEPT ![s] = NoOne]
    /\ UNCHANGED <<request, record, copy, journal, lock, verdict, history,
                   mishaps>>

\* The freeze of an exception that left recover_one's locked section: the
\* lock is free for others before, between and after its two steps.
RecoverFreeze(s) ==
    /\ pc[s] = "freeze"
    /\ ReadRecord(s)
    /\ Go(s, "freeze_write")
    /\ UNCHANGED <<request, record, journal, lock, call, child, helping,
                   history, mishaps>>

RecoverFreezeWrite(s) ==
    /\ pc[s] = "freeze_write"
    /\ WriteBack(s, "execution_frozen")
    /\ Go(s, "idle")
    /\ UNCHANGED <<request, journal, lock, call, child, helping, history,
                   mishaps>>

-----------------------------------------------------------------------------
(* execute_continuation: the status leaves "resuming" without the lock *)

Resume(s) ==
    /\ pc[s] = "recovered"
    /\ Go(s, IF status = "resume_pending" THEN "resume" ELSE "idle")
    /\ CallOver(s)
    /\ UNCHANGED <<request, record, copy, journal, lock, child,
                   helping, history, mishaps>>

ContinueBegin(s) ==
    /\ pc[s] = "resume" /\ lock = NoOne
    /\ IF status = "resume_pending"
         THEN Resolve("resuming") /\ Go(s, "dispatch")
         ELSE UNCHANGED <<status, resolver>> /\ Go(s, "idle")
    /\ UNCHANGED <<request, recheck, copy, journal, lock, call, child,
                   helping, history, mishaps>>

\* The dispatch, and the reading half of the resolve_pending that follows.
ContinueDispatch(s) ==
    /\ pc[s] = "dispatch"
    /\ ReadRecord(s)
    /\ dispatched' = IF dispatched < 2 THEN dispatched + 1 ELSE dispatched
    /\ \E end \in {"resumed", "resume_failed"} : Go(s, end)
    /\ UNCHANGED <<request, record, journal, lock, call, child, helping,
                   acted, mishaps>>

ContinueEnd(s) ==
    /\ pc[s] \in {"resumed", "resume_failed"}
    /\ WriteBack(s, IF pc[s] = "resumed" THEN "approved" ELSE "error")
    /\ Go(s, "idle")
    /\ UNCHANGED <<request, journal, lock, call, child, helping,
                   history, mishaps>>

-----------------------------------------------------------------------------
(* recheck_unknown_mail_send: the owner asks the provider again *)

Rechecking(s) ==
    /\ pc[s] = "idle" /\ lock = NoOne
    /\ category = "mail_send"
    /\ status \in {"action_outcome_unknown", "approved", "resume_pending"}

RecheckTorn(s) ==
    /\ Rechecking(s)
    /\ journal.phase = "torn"
    /\ Freeze
    /\ UNCHANGED <<request, copy, journal, lock, surface, helping, history,
                   mishaps>>

RecheckConfirmed(s) ==
    /\ Rechecking(s)
    /\ journal.phase = "succeeded" /\ journal.result = "submitted"
    /\ Resolve(IF status = "action_outcome_unknown"
               THEN Projection(journal.phase) ELSE status)
    /\ recheck' = "submitted"
    /\ UNCHANGED <<request, copy, journal, lock, surface, helping, history,
                   mishaps>>

\* needs_review and submitted are final; recheckable is False with them.
MayObserve(s) ==
    /\ Rechecking(s)
    /\ journal.phase = "action_outcome_unknown"
    /\ status = "action_outcome_unknown"
    /\ recheck \notin {"needs_review", "submitted"}

RecheckOpen(s) ==
    /\ MayObserve(s)
    /\ recheck' \in {"open", "needs_review"}
    /\ UNCHANGED <<request, status, resolver, copy, journal, lock, surface,
                   helping, history, mishaps>>

RecheckSubmitted(s) ==
    /\ MayObserve(s)
    /\ Append("succeeded", NoOne, "submitted")
    /\ lock' = s
    /\ Go(s, "confirm")
    /\ UNCHANGED <<request, record, copy, call, child, helping, history,
                   mishaps>>

RecheckConfirm(s) ==
    /\ pc[s] = "confirm"
    /\ Resolve(Projection(journal.phase))
    /\ recheck' = "submitted"
    /\ lock' = NoOne
    /\ Go(s, "idle")
    /\ UNCHANGED <<request, copy, journal, call, child, helping, history,
                   mishaps>>

-----------------------------------------------------------------------------
(* The helper process *)

\* The journal hands the work to h: its parent died before binding it, or
\* bound it by its token.
Prepare(h) == helper[h] = "waiting" /\ lock = NoOne

HelperReady(h) ==
    /\ Prepare(h)
    /\ journal.phase = "ready"
    /\ Append("attempt_committed", h, "none")
    /\ Become(h, "committed")
    /\ UNCHANGED <<request, record, copy, lock, surface, verdict, history,
                   mishaps>>

HelperStarted(h) ==
    /\ Prepare(h)
    /\ journal.phase = "helper_started" /\ journal.owner = h
    /\ Append("helper_started", h, "none")
    /\ lock' = h
    /\ Become(h, "started")
    /\ UNCHANGED <<request, record, copy, surface, verdict, history, mishaps>>

HelperCommit(h) ==
    /\ helper[h] = "started"
    /\ Append("attempt_committed", h, "none")
    /\ lock' = NoOne
    /\ Become(h, "committed")
    /\ UNCHANGED <<request, record, copy, surface, verdict, history, mishaps>>

\* Somebody else's work, or none yet.
HelperDecline(h) ==
    /\ Prepare(h)
    /\ \/ journal.phase \in {"helper_started", "attempt_committed"}
            /\ journal.owner # h
       \/ journal.phase = "armed"
    /\ Become(h, "exit0")
    /\ UNCHANGED <<request, record, copy, journal, lock, surface, verdict,
                   history, mishaps>>

\* The work is over: the helper projects it again and leaves.
HelperLate(h) ==
    /\ Prepare(h)
    /\ journal.phase \in Terminal
    /\ ProjectTerminal
    /\ Become(h, "exit0")
    /\ UNCHANGED <<request, copy, journal, lock, surface, verdict, history,
                   mishaps>>

HelperUnreadable(h) ==
    /\ Prepare(h)
    /\ journal.phase \in {"absent", "torn"}
    /\ Become(h, "exit1")
    /\ UNCHANGED <<request, record, copy, journal, lock, surface, verdict,
                   history, mishaps>>

\* execute_action returns or raises.  A return ("done") need not mean that
\* anything was done: a refused command or one that timed out returns a text.
\* Whatever came back, the action may have taken effect, and counts as taken
\* ("acted") from here on; only a busy cron store is known to be untouched.
HelperAct(h) ==
    /\ helper[h] = "committed"
    /\ \E v \in {"done", "open", "raised", "busy", "again"} :
         /\ v = "open" => category = "mail_send"
         /\ v = "busy" => category = "cron" /\ mishaps < MaxMishaps
         /\ v = "again" => category = "office" /\ mishaps < MaxMishaps
         /\ verdict' = [verdict EXCEPT ![h] = v]
         /\ acted' = IF v = "busy" THEN acted ELSE acted \cup {h}
         /\ mishaps' = IF v \in {"busy", "again"} THEN mishaps + 1 ELSE mishaps
    /\ Become(h, "returned")
    /\ UNCHANGED <<request, record, copy, journal, lock, surface, dispatched>>

HelperRecord(h) ==
    /\ helper[h] = "returned" /\ lock = NoOne
    /\ verdict[h] # "again"
    /\ journal.phase = "attempt_committed"
    /\ \/ /\ verdict[h] = "done"
          /\ Append("succeeded", NoOne,
                    IF category = "mail_send" THEN "submitted" ELSE "text")
       \/ /\ verdict[h] = "open"
          /\ \E seen \in {"open", "needs_review"} :
               Append("action_outcome_unknown", NoOne, seen)
       \/ /\ verdict[h] = "busy"
          /\ Append("retryable_failure", NoOne, "none")
       \/ /\ verdict[h] = "raised"
          /\ Append("failed", NoOne, "none")
    /\ lock' = h
    /\ Become(h, "recording")
    /\ UNCHANGED <<request, record, copy, surface, verdict, history, mishaps>>

HelperProject(h) ==
    /\ helper[h] = "recording"
    /\ ProjectTerminal
    /\ lock' = NoOne
    /\ Become(h, IF verdict[h] \in {"done", "open"} THEN "exit0" ELSE "exit1")
    /\ UNCHANGED <<request, copy, journal, surface, verdict, history,
                   mishaps>>

\* A retryable Office error leaves the attempt committed, to be resumed.
HelperAgain(h) ==
    /\ helper[h] = "returned" /\ lock = NoOne
    /\ verdict[h] = "again"
    /\ Become(h, "exit1")
    /\ UNCHANGED <<request, record, copy, journal, lock, surface, verdict,
                   history, mishaps>>

\* The helper's freeze is made without the lock, too.
HelperFreeze(h) ==
    /\ helper[h] = "freezing"
    /\ ReadRecord(h)
    /\ Become(h, "overwriting")
    /\ UNCHANGED <<request, record, journal, lock, surface, verdict, history,
                   mishaps>>

HelperFreezeWrite(h) ==
    /\ helper[h] = "overwriting"
    /\ WriteBack(h, "execution_frozen")
    /\ Become(h, "exit1")
    /\ UNCHANGED <<request, journal, lock, surface, verdict, history, mishaps>>

\* The parent's next spawn, or its death, reaps a helper nobody waits for.
Reap(h) ==
    /\ helper[h] \in {"exit0", "exit1"}
    /\ \A s \in Surfaces : ~(pc[s] = "rec_wait" /\ child[s] = h)
    /\ Become(h, "gone")
    /\ UNCHANGED <<request, record, copy, journal, lock, surface, verdict,
                   history, mishaps>>

-----------------------------------------------------------------------------
(* Mishaps, at most MaxMishaps of them *)

Mishap == mishaps < MaxMishaps /\ mishaps' = mishaps + 1

Release(p) == lock' = IF lock = p THEN NoOne ELSE lock

\* A process that is killed, or gets an error, while it appends may leave
\* half a line behind.
MayTear(p, appending) ==
    \/ UNCHANGED journal
    \/ /\ TornAppends /\ appending /\ lock \in {NoOne, p}
       /\ journal.phase # "torn"
       /\ Append("torn", NoOne, "none")

\* What a surface appends next, if it gets the lock.
Confirming(s) ==
    pc[s] = "idle" /\ MayObserve(s)

Appending(s) ==
    \/ pc[s] \in {"exec_ready", "rec_bind"}
    \/ pc[s] = "claimed" /\ status = "approving"
                         /\ (journal.phase = "absent" \/ MayRetry)
    \/ pc[s] = "recover" /\ status # "execution_frozen"
                         /\ journal.phase \in {"armed", "attempt_committed"}
                         /\ ~OwnerAlive(journal.owner)
    \/ Confirming(s)

HelperAppending(h) ==
    \/ helper[h] = "started"
    \/ helper[h] = "waiting" /\ \/ journal.phase = "ready"
                                \/ /\ journal.phase = "helper_started"
                                   /\ journal.owner = h
    \/ helper[h] = "returned" /\ verdict[h] # "again"

\* The surface's process dies; the helpers it launched live on.
SurfaceCrash(s) ==
    /\ pc[s] \notin {"idle", "down"} \/ Confirming(s)
    /\ Mishap
    /\ Release(s)
    /\ MayTear(s, Appending(s))
    /\ Go(s, "down")
    /\ child' = [child EXCEPT ![s] = NoOne]
    /\ Forget(s) /\ CallOver(s)
    /\ UNCHANGED <<request, record, helping, history>>

\* The lock is still taken after five seconds: the call returns "busy".
SurfaceBusy(s) ==
    /\ pc[s] \in {"claimed", "recover", "resume"}
    /\ lock # NoOne
    /\ Mishap
    /\ Go(s, "idle")
    /\ UNCHANGED <<request, record, copy, journal, lock, call, child,
                   helping, history>>

Unlocked == {"freeze", "freeze_write", "resumed", "resume_failed"}

\* An OSError, also of an append whose line reached the file: execute_claimed
\* reports it and stops, a recheck and a continuation let it out, _freeze
\* swallows it, and recover_one leaves its locked section to freeze the
\* record; launch_helper first kills its child.
SurfaceFault(s) ==
    /\ pc[s] \in {"claimed", "exec_ready", "exec_seal", "recover", "rec_seal",
                  "rec_spawn", "rec_bind", "rec_project", "confirm"}
                 \cup Unlocked
    /\ lock \in {NoOne, s} \/ pc[s] \in Unlocked
    /\ Mishap
    /\ Release(s)
    /\ \/ MayTear(s, Appending(s))
       \/ pc[s] = "rec_bind" /\ Append("helper_started", child[s], "none")
    /\ Go(s, IF pc[s] \in {"claimed", "exec_ready", "exec_seal", "confirm"}
                         \cup Unlocked
             THEN "idle" ELSE "freeze")
    /\ Forget(s) /\ CallOver(s)
    /\ helper' = IF pc[s] = "rec_bind"
                 THEN [helper EXCEPT ![child[s]] = "gone"] ELSE helper
    /\ child' = [child EXCEPT ![s] = NoOne]
    /\ UNCHANGED <<request, record, verdict, history>>

Alive == {"waiting", "started", "committed", "returned", "recording",
          "freezing", "overwriting"}

\* The helper is killed, gives up on a lock held for thirty seconds, or ends
\* with the OSError of its own freeze.
HelperDie(h) ==
    /\ helper[h] \in Alive
    /\ Mishap
    /\ Release(h)
    /\ MayTear(h, HelperAppending(h))
    /\ Forget(h)
    /\ Become(h, "exit1")
    /\ UNCHANGED <<request, record, surface, verdict, history>>

\* An OSError of the helper's own reads and writes, also of an append whose
\* line reached the file: the helper freezes the record.
HelperFault(h) ==
    /\ helper[h] \in Alive \ {"freezing", "overwriting"}
    /\ lock \in {NoOne, h}
    /\ Mishap
    /\ Release(h)
    /\ MayTear(h, HelperAppending(h))
    /\ Become(h, "freezing")
    /\ UNCHANGED <<request, record, copy, surface, verdict, history>>

-----------------------------------------------------------------------------
(* The specification *)

Deciding(s) == Claim(s) \/ Reject(s) \/ ApproveExecuting(s)

Executing(s) ==
    \/ RestoreClaim(s) \/ ExecuteRefused(s) \/ ExecuteArm(s)
    \/ ExecuteReady(s) \/ ExecuteRetry(s) \/ ExecuteSeal(s)

Recovery(s) ==
    \/ RecoverFrozen(s) \/ RecoverPreArm(s) \/ RecoverMissing(s)
    \/ RecoverTorn(s) \/ RecoverArmed(s) \/ RecoverSeal(s)
    \/ RecoverUnowned(s) \/ RecoverOwned(s) \/ RecoverOffice(s)
    \/ RecoverMail(s) \/ RecoverUnknown(s) \/ RecoverProject(s)
    \/ RecoverTerminal(s) \/ RecoverSpawn(s) \/ RecoverBind(s)
    \/ RecoverWait(s) \/ RecoverFreeze(s) \/ RecoverFreezeWrite(s)

Continuing(s) ==
    Resume(s) \/ ContinueBegin(s) \/ ContinueDispatch(s) \/ ContinueEnd(s)

Rechecks(s) ==
    \/ RecheckTorn(s) \/ RecheckConfirmed(s) \/ RecheckOpen(s)
    \/ RecheckSubmitted(s)

Helping(h) ==
    \/ HelperReady(h) \/ HelperStarted(h) \/ HelperCommit(h)
    \/ HelperDecline(h) \/ HelperLate(h) \/ HelperUnreadable(h)
    \/ HelperAct(h) \/ HelperRecord(h) \/ HelperProject(h)
    \/ HelperAgain(h) \/ HelperFreeze(h) \/ HelperFreezeWrite(h)

Failing ==
    \/ \E s \in Surfaces : SurfaceCrash(s) \/ SurfaceBusy(s) \/ SurfaceFault(s)
    \/ \E h \in Helpers : HelperDie(h) \/ HelperFault(h)

\* What a process does once it has begun; it needs nobody's decision.
Carry(s) == Executing(s) \/ Recovery(s) \/ Continuing(s) \/ RecheckConfirm(s)

Next ==
    \/ \E s \in Surfaces : Deciding(s) \/ Carry(s) \/ Start(s) \/ Rechecks(s)
    \/ \E h \in Helpers : Helping(h) \/ Reap(h)
    \/ Failing

Spec == Init /\ [][Next]_vars

\* Processes run, and the polled record lock is granted to each in the end.
\* Surfaces are started again: a service manager restarts the gateway, the
\* owner opens the terminal or the web page.
Fairness ==
    /\ \A s \in Surfaces : SF_vars(Carry(s)) /\ SF_vars(Start(s))
    /\ \A h \in Helpers : SF_vars(Helping(h)) /\ WF_vars(Reap(h))

FairSpec == Spec /\ Fairness

-----------------------------------------------------------------------------
(* Properties *)

TypeOK ==
    /\ category \in Category
    /\ continued \in BOOLEAN
    /\ status \in Status
    /\ resolver \in Resolver
    /\ recheck \in RecheckState
    /\ copy \in [Surfaces \cup Helpers -> Copy]
    /\ journal \in [phase : Phase, owner : Helpers \cup {NoOne},
                    result : Result]
    /\ lock \in Surfaces \cup Helpers \cup {NoOne}
    /\ pc \in [Surfaces -> Location]
    /\ call \in [Surfaces -> Call]
    /\ child \in [Surfaces -> Helpers \cup {NoOne}]
    /\ helper \in [Helpers -> Life]
    /\ verdict \in [Helpers -> Verdict]
    /\ acted \subseteq Helpers
    /\ dispatched \in 0..2
    /\ mishaps \in 0..MaxMishaps

\* One approval, one effect: whatever crashes and whoever recovers, no two
\* helpers enter an action that may take effect, save an Office job, whose
\* steps resume.
OneEffect ==
    category # "office" => \A g, h \in acted : g = h

\* At most one helper is past its commit and not yet recorded, and the
\* journal's last event names it: recovery never takes an attempt away from
\* a live helper, so the outcome a helper appends always follows its commit.
OneRunner ==
    \A h \in Helpers : Running(h) =>
        /\ journal.phase = "attempt_committed"
        /\ journal.owner = h

\* The owner is told no more than birkin knows: a record that reads as
\* approved, or as waiting for its continuation, has a journalled success,
\* also after a record was written back that had been read long before; and a
\* success is journalled only of an action that returned to a helper or of a
\* mail the provider reports as sent, never of an attempt that was lost, that
\* raised or that is unconfirmed.  (A return is all the code asks for: an
\* action that did nothing may return, too.)
HonestStatus ==
    /\ status \in {"approved", "resume_pending", "resuming"}
         => journal.phase = "succeeded"
    /\ journal.phase = "succeeded" =>
         \/ \E h \in Helpers : verdict[h] = "done"
         \/ category = "mail_send" /\ journal.result = "submitted"

\* The writers agree with the reader: whatever interleaving of surfaces,
\* helpers and crashes, a complete event appended to the journal is one the
\* reader's transition table accepts, so only a torn line makes it unreadable.
LegalStep ==
    \/ journal' = journal
    \/ journal'.phase = "torn"
    \/ Legal(journal.phase, journal'.phase)

LegalAppends == [][LegalStep]_vars

\* As long as no process has failed, no attempt is committed against the
\* owner's word: the record is executing, or frozen by a surface that read it
\* before the claim, and nobody has rejected it.  A claim that was given back
\* or rejected meanwhile lets no helper through.  (It need not name the
\* approver: a freeze that is written outside the lock brings back the fields
\* of the pending record it has read.)
CommitNotRefused ==
    [][mishaps = 0 => \A h \in Helpers :
          ~Running(h) /\ Running(h)' =>
             /\ status \in {"executing", "execution_frozen"}
             /\ resolver # "rejecter"]_vars

\* The worker that waits for the approval is resumed at most once, although
\* recovery projects a success again and again.
ContinuedOnce == category # "cron" => dispatched < 2

\* What the approval promises, under this mapping: the gate is held while a
\* helper runs, and closed once the journal has spent the authority or has
\* become unreadable.
Spent == {"attempt_committed", "succeeded", "failed",
          "action_outcome_unknown", "torn"}

Gate == IF \E h \in Helpers : Running(h) THEN "held"
        ELSE IF journal.phase \in Spent THEN "closed" ELSE "open"

Promise == INSTANCE OneShot WITH
    Workers <- Helpers,
    Nobody <- NoOne,
    resumable <- (category = "office"),
    gate <- Gate,
    holder <- (IF Gate = "held" THEN journal.owner ELSE NoOne),
    takers <- acted

KeepsPromise == Promise!Spec

\* An approval in flight does not stay in flight: it is settled, given back
\* to the owner or frozen.
InFlight == status \in {"approving", "executing"}

Settles == InFlight ~> ~InFlight

-----------------------------------------------------------------------------
(* Why it holds: the strengthening that makes the invariants inductive *)

\* Only the holder of the record lock is inside a section of several writes.
Section == {"exec_ready", "exec_seal", "rec_seal", "rec_spawn", "rec_bind",
            "rec_project", "confirm"}

LockHeld ==
    /\ \A s \in Surfaces : pc[s] \in Section => lock = s
    /\ \A h \in Helpers : helper[h] \in {"started", "recording"} => lock = h

\* What a surface or a helper in the middle of a handler knows of the journal.
PhaseKnown ==
    /\ \A s \in Surfaces :
         /\ pc[s] = "exec_ready" => journal.phase = "armed"
         /\ pc[s] \in {"exec_seal", "rec_seal"} => journal.phase = "ready"
         /\ pc[s] \in {"rec_spawn", "rec_bind"}
              => journal.phase \in {"ready", "helper_started"}
         /\ pc[s] \in {"rec_bind", "rec_wait"} => child[s] \in Helpers
         /\ pc[s] = "rec_project"
              => journal.phase \in {"succeeded", "action_outcome_unknown"}
         /\ pc[s] \in {"confirm", "dispatch", "resumed", "resume_failed"}
              => journal.phase = "succeeded"
    /\ \A h \in Helpers :
         /\ helper[h] = "started" => journal.phase = "helper_started"
         /\ helper[h] = "recording" => journal.phase \in Terminal
    /\ journal.phase = "action_outcome_unknown"
         => journal.result \in {"none", "open", "needs_review"}

\* Where an effect may exist: unless the action is resumable, only once the
\* journal has spent the authority.
EffectKnown ==
    category # "office" =>
         /\ acted # {} => journal.phase \in Spent
         /\ \A h \in Helpers : helper[h] = "committed" => acted = {}
         /\ \A h \in Helpers :
              helper[h] = "returned" /\ verdict[h] = "busy" => acted = {}

IInv ==
    /\ TypeOK /\ LockHeld /\ PhaseKnown
    /\ OneRunner /\ OneEffect /\ HonestStatus /\ EffectKnown

-----------------------------------------------------------------------------
(* What the repository says of approvals and the code does not keep *)

\* Contention is retryable, not corrupt: with no crash, no I/O error and no
\* torn line there is nothing to freeze.
NeverFrozen == status # "execution_frozen"

\* Rejection executes neither phase: no helper is at work on a rejected
\* action.
RejectedNeverRuns == status = "rejected" => \A h \in Helpers : ~Running(h)

\* A restore after a busy cron store does not overwrite a changed state: a
\* rejection is not turned back into a pending proposal.
RejectionKept == [][status = "rejected" => status' # "pending"]_vars
=============================================================================
