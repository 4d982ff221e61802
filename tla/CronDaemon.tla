----------------------------- MODULE CronDaemon -----------------------------
(***************************************************************************)
(* The store of scheduled jobs (birkin/cron.py) and the daemons that poll  *)
(* it (birkin/scheduler.py).  Only one daemon ought to run, but what tells *)
(* them so is a heartbeat that is read before it is written, goes stale    *)
(* during a long job, and is cleared by whoever stops.                     *)
(*                                                                         *)
(* Time advances in ticks: each is long enough for every schedule to come  *)
(* round once and for one night of Morpheus.  A daemon reads the clock at  *)
(* the start of a round only.  A change of the store is one step, since it *)
(* reads and writes the file under its lock; the file may be misread, in   *)
(* part (a bad entry) or as empty, and is then written without the rest.   *)
(***************************************************************************)
EXTENDS Naturals, FiniteSets

CONSTANTS
    Daemons, Jobs,
    Kept,           \* the daemons that launchd starts again whenever they end
    Once,           \* the jobs that run once; the others recur
    MaxTick,        \* bound on time
    MaxMishaps,     \* bound on crashes, stops, lock timeouts and misreads
    MaxChanges      \* bound on the owner's changes of a job

ASSUME DaemonAssumption ==
    /\ IsFiniteSet(Jobs) /\ IsFiniteSet(Daemons)
    /\ Once \subseteq Jobs /\ Kept \subseteq Daemons
    /\ MaxTick \in Nat /\ MaxMishaps \in Nat /\ MaxChanges \in Nat

VARIABLES
    clock,
    job,        \* each job's record
    status,     \* the heartbeat file
    pc,         \* what each daemon does next
    now,        \* the clock as it read it
    night,      \* the tick of its next Morpheus run
    todo,       \* the due jobs of its round
    held,       \* the occurrence it has claimed, as <<job, tick>>
    taken,      \* the occurrences claimed by anyone
    runs,       \* how often each was run
    nights,     \* how often Morpheus ran at each tick
    overlaps,   \* how often a daemon began beside another
    mishaps,
    changes     \* how often the owner changed a job

daemon == <<pc, now, night, todo, held>>
log == <<taken, runs, nights, overlaps>>
vars == <<clock, job, status, daemon, log, mishaps, changes>>

Ticks == 0 .. MaxTick + 1
Never == MaxTick + 1      \* later than any clock
Free == <<>>

Mishap == mishaps < MaxMishaps /\ mishaps' = mishaps + 1
Calm == UNCHANGED mishaps
At(d, l) == pc[d] = l
Goto(d, l) == pc' = [pc EXCEPT ![d] = l]

Gone == [place |-> "gone", enabled |-> TRUE, next |-> 0]
Stored(j) == job[j].place = "stored"
Comes(j, t) == Stored(j) /\ job[j].next <= t
Due(j, t) == Comes(j, t) /\ job[j].enabled

-----------------------------------------------------------------------------
\* The store.

\* A rewrite of the file: without the records that were misread, which is a mishap.
Save(jobs) ==
    \/ job' = jobs /\ Calm
    \/ \E lost \in SUBSET {j \in Jobs : jobs[j].place = "stored"} :
          /\ lost # {} /\ \A j \in lost : jobs[j] = job[j]
          /\ job' = [j \in Jobs |-> IF j \in lost THEN Gone ELSE jobs[j]]
          /\ Mishap

Store == UNCHANGED <<clock, status, daemon, log>>
Change == changes < MaxChanges /\ changes' = changes + 1 /\ Store

Add(j) ==
    /\ job[j].place = "new"
    /\ Save([job EXCEPT ![j] = [place |-> "stored", enabled |-> TRUE, next |-> clock + 1]])
    /\ Store /\ UNCHANGED changes

Remove(j) ==
    /\ Stored(j)
    /\ Save([job EXCEPT ![j] = Gone])
    /\ Change

SetEnabled(j) ==
    /\ Stored(j)
    /\ Save([job EXCEPT ![j].enabled = ~@])
    /\ Change

\* The run after the next one, or after now if the next one is late; a job that runs once
\* has none, and stays in the file.
SkipNext(j) ==
    /\ Stored(j)
    /\ LET anchor == IF job[j].next > clock THEN job[j].next ELSE clock IN
       /\ anchor <= MaxTick
       /\ Save([job EXCEPT ![j].next = IF j \in Once THEN Never ELSE anchor + 1])
    /\ Change

-----------------------------------------------------------------------------
\* A daemon.

Up(d) == pc[d] \notin {"down", "cleared"}

Look(d) ==
    /\ At(d, "down") /\ status # "fresh"
    /\ Goto(d, "cleared")
    /\ UNCHANGED <<clock, job, status, now, night, todo, held, log, mishaps, changes>>

\* The status was not locked: another daemon may have begun by now.
Begin(d) ==
    /\ At(d, "cleared")
    /\ status' = "fresh"
    /\ night' = [night EXCEPT ![d] = clock + 1]
    /\ overlaps' = IF \E e \in Daemons \ {d} : Up(e) THEN overlaps + 1 ELSE overlaps
    /\ Goto(d, "round")
    /\ UNCHANGED <<clock, job, now, todo, held, taken, runs, nights, mishaps, changes>>

Round(d) ==
    /\ At(d, "round")
    /\ now' = [now EXCEPT ![d] = clock]
    /\ Goto(d, IF clock >= night[d] THEN "night" ELSE "due")
    /\ UNCHANGED <<clock, job, status, night, todo, held, log, mishaps, changes>>

\* Mutant of Morpheus: the next night is not set.
MorpheusAgain(d) ==
    /\ At(d, "night")
    /\ nights' = [nights EXCEPT ![now[d]] = @ + 1]
    /\ Goto(d, "due")
    /\ UNCHANGED <<clock, job, status, now, night, todo, held, taken, runs, overlaps, mishaps, changes>>

Morpheus(d) ==
    /\ At(d, "night")
    /\ nights' = [nights EXCEPT ![now[d]] = @ + 1]
    /\ night' = [night EXCEPT ![d] = now[d] + 1]
    /\ Goto(d, "due")
    /\ UNCHANGED <<clock, job, status, now, todo, held, taken, runs, overlaps, mishaps, changes>>

\* Mutant of DueJobs: only what is due at this very tick.
DueExactly(d) ==
    /\ At(d, "due")
    /\ todo' = [todo EXCEPT ![d] = {j \in Jobs : Due(j, now[d]) /\ job[j].next = now[d]}]
    /\ Goto(d, "jobs")
    /\ UNCHANGED <<clock, job, status, now, night, held, log, mishaps, changes>>

DueJobs(d) ==
    /\ At(d, "due")
    /\ \/ todo' = [todo EXCEPT ![d] = {j \in Jobs : Due(j, now[d])}] /\ Calm
       \/ \E js \in SUBSET {j \in Jobs : Due(j, now[d])} :
             todo' = [todo EXCEPT ![d] = js] /\ Mishap
    /\ Goto(d, "jobs")
    /\ UNCHANGED <<clock, job, status, now, night, held, log, changes>>

\* Mutant of Armed: the schedule is armed from the run that was due.
ArmedLate(d, j) ==
    [job EXCEPT ![j] = IF j \in Once THEN Gone ELSE [@ EXCEPT !.next = now[d]]]

\* Mutant of Armed: a reminder that came is marked.
ArmedDone(d, j) ==
    [job EXCEPT ![j] = IF j \in Once THEN [@ EXCEPT !.place = "done"]
                       ELSE [@ EXCEPT !.next = now[d] + 1]]

Armed(d, j) ==
    [job EXCEPT ![j] = IF j \in Once THEN Gone
                       ELSE [@ EXCEPT !.next = now[d] + 1]]

\* Mutant of ClaimIfDue: a job that was disabled meanwhile is let go, after it was armed.
ClaimThenLook(d, j) ==
    /\ At(d, "jobs") /\ j \in todo[d] /\ Comes(j, now[d])
    /\ todo' = [todo EXCEPT ![d] = @ \ {j}]
    /\ Save(Armed(d, j))
    /\ taken' = taken \cup {<<j, job[j].next>>}
    /\ held' = [held EXCEPT ![d] = IF job[j].enabled THEN <<j, job[j].next>> ELSE @]
    /\ Goto(d, IF job[j].enabled THEN "run" ELSE "jobs")
    /\ UNCHANGED <<clock, status, now, night, runs, nights, overlaps, changes>>

\* The claim: the next run is armed before this one begins.  Whether the job is enabled
\* is not looked at again.
ClaimIfDue(d, j) ==
    /\ At(d, "jobs") /\ j \in todo[d]
    /\ todo' = [todo EXCEPT ![d] = @ \ {j}]
    /\ \/ /\ Comes(j, now[d])
          /\ Save(Armed(d, j))
          /\ held' = [held EXCEPT ![d] = <<j, job[j].next>>]
          /\ taken' = taken \cup {<<j, job[j].next>>}
          /\ Goto(d, "run")
       \/ /\ ~Comes(j, now[d]) /\ Calm
          /\ UNCHANGED <<job, held, taken, pc, changes>>
       \* the lock is not to be had, or this record is misread
       \/ Mishap /\ UNCHANGED <<job, held, taken, pc>>
    /\ UNCHANGED <<clock, status, now, night, runs, nights, overlaps, changes>>

RunJob(d) ==
    /\ At(d, "run")
    /\ runs' = [runs EXCEPT ![held[d][1]][held[d][2]] = @ + 1]
    /\ held' = [held EXCEPT ![d] = Free]
    /\ Goto(d, "jobs")
    /\ UNCHANGED <<clock, job, status, now, night, todo, taken, nights, overlaps, mishaps, changes>>

WriteStatus(d) ==
    /\ At(d, "jobs") /\ todo[d] = {}
    /\ status' = "fresh"
    /\ now' = [now EXCEPT ![d] = 0]
    /\ Goto(d, "round")
    /\ UNCHANGED <<clock, job, night, todo, held, log, mishaps, changes>>

Down(d) ==
    /\ Goto(d, "down")
    /\ now' = [now EXCEPT ![d] = 0] /\ night' = [night EXCEPT ![d] = 0]
    /\ todo' = [todo EXCEPT ![d] = {}] /\ held' = [held EXCEPT ![d] = Free]
    /\ Mishap
    /\ UNCHANGED <<clock, job, log, changes>>

\* Whoever stops clears the status, be it another daemon's.
Stop(d) == Up(d) /\ status' = "none" /\ Down(d)

Crash(d) == ~At(d, "down") /\ UNCHANGED status /\ Down(d)

-----------------------------------------------------------------------------
\* Time.

Tick ==
    /\ clock < MaxTick
    /\ clock' = clock + 1
    /\ UNCHANGED <<job, status, daemon, log, mishaps, changes>>

\* Only a daemon that is in a job or in Morpheus is away from its loop for so long.
Age ==
    /\ status = "fresh"
    /\ \A d \in Daemons : pc[d] \in {"down", "cleared", "night", "run"}
    /\ status' = "stale"
    /\ UNCHANGED <<clock, job, daemon, log, mishaps, changes>>

Init ==
    /\ clock = 0
    /\ job = [j \in Jobs |-> [place |-> "new", enabled |-> TRUE, next |-> 0]]
    /\ status = "none"
    /\ pc = [d \in Daemons |-> "down"]
    /\ now = [d \in Daemons |-> 0] /\ night = [d \in Daemons |-> 0]
    /\ todo = [d \in Daemons |-> {}] /\ held = [d \in Daemons |-> Free]
    /\ taken = {} /\ runs = [j \in Jobs |-> [t \in Ticks |-> 0]]
    /\ nights = [t \in Ticks |-> 0] /\ overlaps = 0
    /\ mishaps = 0 /\ changes = 0

Daemon(d) ==
    \/ Look(d) \/ Begin(d)
    \/ Round(d) \/ Morpheus(d) \/ DueJobs(d) \/ RunJob(d) \/ WriteStatus(d)
    \/ \E j \in Jobs : ClaimIfDue(d, j)

Next ==
    \/ \E d \in Daemons : Daemon(d) \/ Stop(d) \/ Crash(d)
    \/ \E j \in Jobs : Add(j) \/ Remove(j) \/ SetEnabled(j) \/ SkipNext(j)
    \/ Tick \/ Age

Spec == Init /\ [][Next]_vars

\* A daemon that runs goes on, heartbeats age, and launchd starts a kept daemon again
\* (KeepAlive, scheduler.py:562) until it gets past the heartbeat.  Nobody need start any
\* other: Linux does so at a boot (626), Windows at a logon (521, 603), once.
FairSpec ==
    /\ Spec
    /\ \A d \in Daemons : WF_vars((At(d, "down") => d \in Kept) /\ Daemon(d))
    /\ WF_vars(Age)

-----------------------------------------------------------------------------
\* Properties

Occurrences == Jobs \X Ticks

\* The variables have their types.
TypeOK ==
    /\ clock \in 0 .. MaxTick
    /\ job \in [Jobs -> [place : {"new", "stored", "gone"}, enabled : BOOLEAN, next : Ticks]]
    /\ status \in {"none", "fresh", "stale"}
    /\ pc \in [Daemons -> {"down", "cleared", "round", "night", "due", "jobs", "run"}]
    /\ now \in [Daemons -> 0 .. MaxTick] /\ night \in [Daemons -> Ticks]
    /\ todo \in [Daemons -> SUBSET Jobs]
    /\ held \in [Daemons -> Occurrences \cup {Free}]
    /\ taken \subseteq Occurrences /\ runs \in [Jobs -> [Ticks -> Nat]]
    /\ nights \in [Ticks -> Nat] /\ overlaps \in Nat
    /\ mishaps \in 0 .. MaxMishaps /\ changes \in 0 .. MaxChanges

\* However many daemons poll, and however old the clock they read, each occurrence of a
\* job is run at most once, and not before it has come.
RunsOnce ==
    \A j \in Jobs : \A t \in Ticks : runs[j][t] > 0 => runs[j][t] = 1 /\ t <= clock

\* A claimed occurrence is run by its claimer, unless the claimer dies of it: each one lost
\* is paid for by a crash or a stop.
LossesPaidFor ==
    Cardinality({o \in taken : runs[o[1]][o[2]] = 0 /\ \A d \in Daemons : held[d] # o})
        <= mishaps

\* Morpheus runs more than once a night only if a daemon got past the heartbeat while
\* another one was running.
NightsPaidFor == \A t \in Ticks : nights[t] <= 1 + overlaps

\* A heartbeat cannot wedge the schedule shut where a daemon is kept alive: an enabled job
\* whose time has come is claimed in the end, or the owner changes it.  (Where the daemon
\* is started once, a crash and a quick reboot leave a heartbeat that wedges it.)
NotMissed == Kept # {} => \A j \in Jobs : []<>~Due(j, clock)

\* The store and its daemons, to an observer of the occurrences only.
Promise == INSTANCE AtMostOnce WITH
    Workers <- Daemons,
    Work <- Occurrences,
    Nothing <- Free,
    claimed <- taken,
    hand <- held,
    done <- [o \in Occurrences |-> runs[o[1]][o[2]]],
    faults <- mishaps

\* Whatever the heartbeat lets through, an occurrence is claimed once (cron.py:619), run
\* by its claimer alone (scheduler.py:322), and lost only with the daemon that holds it.
KeepsClaims == Promise!Spec

=============================================================================
