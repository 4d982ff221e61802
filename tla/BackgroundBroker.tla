-------------------------- MODULE BackgroundBroker --------------------------
(***************************************************************************)
(* The broker of background jobs (birkin/background.py): a bounded queue,  *)
(* a fixed set of worker threads, and for each job a history of events     *)
(* that is written to a receipt after every change.                        *)
(*                                                                         *)
(* One step is one critical section of the broker's lock, or one operation *)
(* on the queue or the semaphore.  A job's status is the kind of its last  *)
(* event that is not a report of progress: the code sets the one and       *)
(* appends the other together, under the lock.                             *)
(*                                                                         *)
(* The write of a receipt may fail (a full disk), and a task may end its   *)
(* worker with an interrupt that is no ordinary exception.                 *)
(***************************************************************************)
EXTENDS Naturals, Sequences, FiniteSets

CONSTANTS
    Jobs,           \* the jobs that may ever be submitted
    Workers,
    Stop,           \* the marker that ends a worker
    MaxReports,     \* bound on the reports of progress of one job
    MaxMishaps      \* bound on failing writes and interrupts

ASSUME BrokerAssumption ==
    /\ IsFiniteSet(Workers) /\ IsFiniteSet(Jobs) /\ Stop \notin Jobs
    /\ MaxReports \in Nat /\ MaxMishaps \in Nat

VARIABLES
    events,     \* the history of each job
    receipt,    \* the history in its receipt
    completed,  \* the jobs whose waiters are woken
    refused,    \* the jobs whose submission failed
    queue,
    slots,      \* what is left of the semaphore
    pc,         \* what each worker does next
    job,        \* the job in its hands, Stop if there is none
    closed,
    stopSent,   \* the markers are sent, or being sent,
    unsent,     \* and how many of them are still to be put
    mishaps

history == <<events, receipt, completed, refused>>
work == <<pc, job>>
door == <<closed, stopSent, unsent>>
vars == <<history, queue, slots, work, door, mishaps>>

Size == Cardinality(Workers)
Outcome == {"succeeded", "failed", "cancelled"}
Kind == {"queued", "running", "progress"} \cup Outcome

Goto(w, l) == pc' = [pc EXCEPT ![w] = l]
At(w, l) == pc[w] = l
Carry(w, l) == Goto(w, l) /\ UNCHANGED job
Rest(w) == Goto(w, "idle") /\ job' = [job EXCEPT ![w] = Stop]
Mishap == mishaps < MaxMishaps /\ mishaps' = mishaps + 1

Reports(j) == {i \in DOMAIN events[j] : events[j][i] = "progress"}
Queued(j) == events[j] = <<"queued">>
Cancelled(j) == "cancelled" \in {events[j][i] : i \in DOMAIN events[j]}

Happen(j, kind) == events' = [events EXCEPT ![j] = Append(@, kind)]
Written(j) == receipt' = [receipt EXCEPT ![j] = events'[j]] /\ UNCHANGED mishaps
Unwritten == UNCHANGED receipt /\ Mishap
Wake(j) == completed' = completed \cup {j}

-----------------------------------------------------------------------------
\* The callers.

\* Mutant of Submit: a closed broker takes the job.
SubmitLate(j) ==
    /\ events[j] = <<>> /\ slots > 0
    /\ slots' = slots - 1
    /\ Happen(j, "queued")
    /\ \/ Written(j) /\ queue' = Append(queue, j) /\ UNCHANGED refused
       \/ Unwritten /\ refused' = refused \cup {j} /\ UNCHANGED queue
    /\ UNCHANGED <<completed, work, door>>

\* A failing write raises, and keeps the slot and the record.
Submit(j) ==
    /\ events[j] = <<>> /\ ~closed /\ slots > 0
    /\ slots' = slots - 1
    /\ Happen(j, "queued")
    /\ \/ Written(j) /\ queue' = Append(queue, j) /\ UNCHANGED refused
       \/ Unwritten /\ refused' = refused \cup {j} /\ UNCHANGED queue
    /\ UNCHANGED <<completed, work, door>>

\* Mutant of Cancel: the slot is given back, and again by the worker.
CancelReleasing(j) ==
    /\ Queued(j) /\ j \notin refused
    /\ Happen(j, "cancelled")
    /\ \/ Written(j) /\ Wake(j)
       \/ Unwritten /\ UNCHANGED completed
    /\ slots' = slots + 1
    /\ UNCHANGED <<refused, queue, work, door>>

\* The job stays in the queue until a worker meets it.
Cancel(j) ==
    /\ Queued(j) /\ j \notin refused
    /\ Happen(j, "cancelled")
    /\ \/ Written(j) /\ Wake(j)
       \/ Unwritten /\ UNCHANGED completed
    /\ UNCHANGED <<refused, queue, slots, work, door>>

StopAll == stopSent' = TRUE /\ unsent' = Size

CancelAll(js) ==
    events' = [j \in Jobs |-> IF j \in js THEN Append(events[j], "cancelled") ELSE events[j]]

\* Mutant of Close: the jobs cancelled by the closing are not written.
CloseUnwritten ==
    LET waiting == {j \in Jobs : Queued(j)} IN
    /\ ~closed /\ closed' = TRUE
    /\ StopAll
    /\ \/ UNCHANGED history
       \/ CancelAll(waiting) /\ completed' = completed \cup waiting
          /\ UNCHANGED <<receipt, refused>>
    /\ UNCHANGED <<queue, slots, work, mishaps>>

\* close(wait=True) lets the queued jobs run, close(wait=False) cancels them: a write that
\* fails on the way raises, and no marker is sent.
Close ==
    LET waiting == {j \in Jobs : Queued(j)} IN
    /\ ~closed /\ closed' = TRUE
    /\ \/ UNCHANGED <<history, mishaps>> /\ StopAll
       \/ /\ CancelAll(waiting) /\ StopAll
          /\ receipt' = [j \in Jobs |-> IF j \in waiting THEN events'[j] ELSE receipt[j]]
          /\ completed' = completed \cup waiting
          /\ UNCHANGED <<refused, mishaps>>
       \/ \E done \in SUBSET waiting : \E j \in waiting \ done :
             /\ CancelAll(done \cup {j}) /\ UNCHANGED <<stopSent, unsent>>
             /\ receipt' = [i \in Jobs |-> IF i \in done THEN events'[i] ELSE receipt[i]]
             /\ completed' = completed \cup done
             /\ Mishap /\ UNCHANGED refused
    /\ UNCHANGED <<queue, slots, work>>

\* A closed broker is closed again after a failing close.
CloseAgain ==
    /\ closed /\ ~stopSent
    /\ StopAll
    /\ UNCHANGED <<history, queue, slots, work, closed, mishaps>>

\* Mutant of SendStop: one marker for all workers.
SendStopOnce ==
    /\ unsent > 0
    /\ queue' = Append(queue, Stop) /\ unsent' = 0
    /\ UNCHANGED <<history, slots, work, closed, stopSent, mishaps>>

SendStop ==
    /\ unsent > 0
    /\ queue' = Append(queue, Stop) /\ unsent' = unsent - 1
    /\ UNCHANGED <<history, slots, work, closed, stopSent, mishaps>>

-----------------------------------------------------------------------------
\* A worker.

Take(w) ==
    /\ At(w, "idle") /\ queue # <<>>
    /\ queue' = Tail(queue)
    /\ IF Head(queue) = Stop THEN Carry(w, "stopped")
       ELSE Goto(w, "taken") /\ job' = [job EXCEPT ![w] = Head(queue)]
    /\ UNCHANGED <<history, slots, door, mishaps>>

Release(w) ==
    /\ At(w, "taken")
    /\ slots' = slots + 1 /\ Carry(w, "check")
    /\ UNCHANGED <<history, queue, door, mishaps>>

\* Mutant of Check: the slot of a cancelled job is given back here, too.
CheckReleasing(w) ==
    /\ At(w, "check")
    /\ IF Cancelled(job[w]) THEN slots' = slots + 1 /\ Rest(w)
       ELSE UNCHANGED slots /\ Carry(w, "start")
    /\ UNCHANGED <<history, queue, door, mishaps>>

Check(w) ==
    /\ At(w, "check")
    /\ IF Cancelled(job[w]) THEN Rest(w) ELSE Carry(w, "start")
    /\ UNCHANGED <<history, queue, slots, door, mishaps>>

\* Mutant of Start: the job is not looked at again.
StartUnchecked(w) ==
    /\ At(w, "start")
    /\ Happen(job[w], "running") /\ UNCHANGED completed
    /\ \/ Written(job[w]) /\ Carry(w, "task")
       \/ Unwritten /\ Carry(w, "unwritten")
    /\ UNCHANGED <<refused, queue, slots, door>>

\* The lock was released in between: the job may be cancelled by now.
Start(w) ==
    LET j == job[w] IN
    /\ At(w, "start")
    /\ \/ Cancelled(j) /\ Wake(j) /\ Rest(w) /\ UNCHANGED <<events, receipt, mishaps>>
       \/ /\ ~Cancelled(j)
          /\ Happen(j, "running") /\ UNCHANGED completed
          /\ \/ Written(j) /\ Carry(w, "task")
             \/ Unwritten /\ Carry(w, "unwritten")
    /\ UNCHANGED <<refused, queue, slots, door>>

\* The task may catch the error of a report that was not written, or fail of it.
Progress(w) ==
    LET j == job[w] IN
    /\ At(w, "task") /\ Cardinality(Reports(j)) < MaxReports
    /\ Happen(j, "progress")
    /\ \/ Written(j) /\ UNCHANGED work
       \/ Unwritten /\ (UNCHANGED work \/ Carry(w, "raised"))
    /\ UNCHANGED <<completed, refused, queue, slots, door>>

Task(w) ==
    /\ At(w, "task")
    /\ Carry(w, "returned") \/ Carry(w, "raised")
    /\ UNCHANGED <<history, queue, slots, door, mishaps>>

\* Mutant of Finish: the waiters are woken before the outcome is written.
FinishEarly(w) ==
    LET j == job[w] IN
    /\ pc[w] \in {"returned", "raised"}
    /\ Happen(j, IF At(w, "returned") THEN "succeeded" ELSE "failed")
    /\ Wake(j)
    /\ \/ Written(j) /\ Rest(w)
       \/ Unwritten /\ Carry(w, "unwritten")
    /\ UNCHANGED <<refused, queue, slots, door>>

Finish(w) ==
    LET j == job[w] IN
    /\ pc[w] \in {"returned", "raised"}
    /\ Happen(j, IF At(w, "returned") THEN "succeeded" ELSE "failed")
    /\ \/ Written(j) /\ Wake(j) /\ Rest(w)
       \/ Unwritten /\ UNCHANGED completed /\ Carry(w, "unwritten")
    /\ UNCHANGED <<refused, queue, slots, door>>

\* A job whose receipt could not be written fails, in memory only.
Fail(w) ==
    /\ At(w, "unwritten")
    /\ Happen(job[w], "failed") /\ Wake(job[w]) /\ Rest(w)
    /\ UNCHANGED <<receipt, refused, queue, slots, door, mishaps>>

\* An interrupt passes through: the waiters are woken, the worker is gone.
Interrupt(w) ==
    /\ At(w, "task")
    /\ Wake(job[w]) /\ Carry(w, "dead") /\ Mishap
    /\ UNCHANGED <<events, receipt, refused, queue, slots, door>>

-----------------------------------------------------------------------------

Init ==
    /\ events = [j \in Jobs |-> <<>>] /\ receipt = [j \in Jobs |-> <<>>]
    /\ completed = {} /\ refused = {}
    /\ queue = <<>> /\ slots = Size
    /\ pc = [w \in Workers |-> "idle"] /\ job = [w \in Workers |-> Stop]
    /\ closed = FALSE /\ stopSent = FALSE /\ unsent = 0
    /\ mishaps = 0

Caller == (\E j \in Jobs : Submit(j) \/ Cancel(j)) \/ Close \/ CloseAgain

Worker(w) ==
    Take(w) \/ Release(w) \/ Check(w) \/ Start(w) \/ Task(w) \/ Finish(w) \/ Fail(w)

Next ==
    \/ Caller \/ SendStop
    \/ \E w \in Workers : Worker(w) \/ Progress(w) \/ Interrupt(w)

Spec == Init /\ [][Next]_vars

\* The threads run, and so does every task, which comes to an end.
FairSpec ==
    /\ Spec
    /\ WF_vars(SendStop)
    /\ \A w \in Workers : WF_vars(Worker(w))

-----------------------------------------------------------------------------
\* Properties

Label == {"idle", "taken", "check", "start", "task", "returned", "raised", "unwritten",
          "stopped", "dead"}

\* The variables have their types; the semaphore is never released beyond its bound.
TypeOK ==
    /\ events \in [Jobs -> Seq(Kind)] /\ receipt \in [Jobs -> Seq(Kind)]
    /\ completed \subseteq Jobs /\ refused \subseteq Jobs
    /\ queue \in Seq(Jobs \cup {Stop}) /\ slots \in 0 .. Size
    /\ pc \in [Workers -> Label] /\ job \in [Workers -> Jobs \cup {Stop}]
    /\ closed \in BOOLEAN /\ stopSent \in BOOLEAN /\ unsent \in 0 .. Size
    /\ mishaps \in 0 .. MaxMishaps

\* The place of an event in a life: what comes later has a higher one, but for the
\* failure that takes the place of an outcome that could not be written.
Rank(kind) ==
    CASE kind = "queued" -> 1 [] kind = "running" -> 2 [] kind = "progress" -> 3
      [] kind = "succeeded" -> 4 [] kind = "failed" -> 5 [] kind = "cancelled" -> 6

Follows(now, then) ==
    /\ Rank(now) < Rank(then) \/ (now = then /\ now \in {"progress", "failed"})
    /\ now # "cancelled"
    /\ then = "cancelled" => now = "queued"

Legal(s) == \A i \in 1 .. Len(s) - 1 : Follows(s[i], s[i + 1])

\* A job is started at most once and never after it was cancelled, although a worker that
\* took it and looked at it may find it cancelled before it starts (background.py:196).
LegalHistory == \A j \in Jobs : Legal(events[j])

InQueue == {i \in DOMAIN queue : queue[i] # Stop}

\* Each slot is free, or held by one job that is queued or just taken, or was lost with a
\* submission that failed: so no more jobs are queued than there are workers.
SlotsKept ==
    slots + Cardinality(InQueue) + Cardinality({w \in Workers : At(w, "taken")})
          + Cardinality(refused) = Size

\* A receipt is behind its job only because a write failed.
ReceiptsPaidFor ==
    /\ \A j \in Jobs : Len(receipt[j]) <= Len(events[j])
                       /\ receipt[j] = SubSeq(events[j], 1, Len(receipt[j]))
    /\ Cardinality({j \in Jobs : receipt[j] # events[j]}) <= mishaps

Settled(j) == events[j] # <<>> /\ events[j][Len(events[j])] \in Outcome

\* What a waiter reads is final: its job has an outcome, unless an interrupt took its
\* worker, and nothing happens to the job afterwards.
AnswerFinal ==
    [][\A j \in completed :
          /\ Settled(j) \/ \E w \in Workers : At(w, "dead") /\ job[w] = j
          /\ events'[j] = events[j]]_vars

\* An accepted job completes, also when the broker is closed meanwhile, unless the write of
\* its cancellation failed or no worker is left.
Completes ==
    \A j \in Jobs :
        (events[j] # <<>> /\ j \notin refused) ~>
            \/ j \in completed
            \/ (Cancelled(j) /\ receipt[j] # events[j])
            \/ \A w \in Workers : At(w, "dead")

\* The join of close(wait=True) returns.
Stops == stopSent ~> \A w \in Workers : pc[w] \in {"stopped", "dead"}

=============================================================================
