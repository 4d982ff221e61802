-------------------------- MODULE CronDaemonProofs --------------------------
(***************************************************************************)
(* Proofs about CronDaemon, for any number of daemons, jobs and ticks.     *)
(* That an occurrence runs once rests on the schedule moving forward only: *)
(* whatever the store and the daemons do, an occurrence that was claimed   *)
(* stays behind the next run of its job.                                   *)
(***************************************************************************)
EXTENDS CronDaemon, FiniteSetTheorems, TLAPS

Record == [place : {"new", "stored", "gone"}, enabled : BOOLEAN, next : Ticks]

\* Occurrence t of job j will not come again.
Passed(j, t) == job[j].place = "gone" \/ (Stored(j) /\ t < job[j].next)

\* A daemon's clock is never ahead, and it begins Morpheus only when it is time.
Clocks == \A d \in Daemons : now[d] <= clock /\ (At(d, "night") => night[d] <= now[d])

\* A claimed occurrence has come, and will not come again.
Claims == \A j \in Jobs : \A t \in Ticks : <<j, t>> \in taken => t <= clock /\ Passed(j, t)

\* A daemon that holds an occurrence is alone with it, and has not run it yet.
Holders ==
    \A d \in Daemons :
        /\ held[d] # Free <=> At(d, "run")
        /\ held[d] # Free => held[d] \in taken /\ runs[held[d][1]][held[d][2]] = 0
        /\ held[d] # Free => \A e \in Daemons \ {d} : held[e] # held[d]

\* What ran was claimed, and ran once.
Counted ==
    \A j \in Jobs : \A t \in Ticks : runs[j][t] <= 1 /\ (runs[j][t] > 0 => <<j, t>> \in taken)

Inv == TypeOK /\ Clocks /\ Claims /\ Holders /\ Counted

\* The initial state satisfies the invariant.
LEMMA InitInv == Init => Inv
<1> SUFFICES ASSUME Init PROVE Inv
    OBVIOUS
<1>1. TypeOK
    BY DaemonAssumption DEF Init, TypeOK, Ticks, Occurrences, Free
<1>2. Clocks /\ Claims /\ Holders /\ Counted
    BY DaemonAssumption DEF Init, Clocks, Claims, Holders, Counted, At, Ticks
<1> QED BY <1>1, <1>2 DEF Inv

\* A rewrite leaves each record as it was meant to be, or without it.
LEMMA SaveResult ==
    ASSUME TypeOK, NEW jobs \in [Jobs -> Record], Save(jobs)
    PROVE  /\ job' \in [Jobs -> Record]
           /\ \A j \in Jobs : job'[j] = jobs[j] \/ job'[j] = Gone
           /\ mishaps' \in 0 .. MaxMishaps /\ mishaps <= mishaps'
<1>1. Gone \in Record
    BY DaemonAssumption DEF Gone, Record, Ticks
<1>2. CASE job' = jobs /\ Calm
    BY <1>2 DEF Calm, TypeOK
<1>3. CASE \E lost \in SUBSET {j \in Jobs : jobs[j].place = "stored"} :
              /\ job' = [j \in Jobs |-> IF j \in lost THEN Gone ELSE jobs[j]]
              /\ Mishap
    BY <1>1, <1>3, DaemonAssumption DEF Mishap, TypeOK
<1> QED BY <1>2, <1>3 DEF Save

\* The owner's changes preserve the invariant.
LEMMA OwnerInv ==
    ASSUME Inv, NEW j \in Jobs, Add(j) \/ Remove(j) \/ SetEnabled(j) \/ SkipNext(j)
    PROVE  Inv'
<1> DEFINE Forward(jobs) ==
        \A k \in Jobs : \/ jobs[k] = job[k] \/ jobs[k] = Gone
                        \/ job[k].place = "new"
                        \/ /\ Stored(k) /\ jobs[k].place = "stored"
                           /\ job[k].next <= jobs[k].next
<1>1. ASSUME NEW jobs \in [Jobs -> Record], Forward(jobs), Save(jobs), Store,
             changes' \in 0 .. MaxChanges
      PROVE  Inv'
    <2>1. /\ job' \in [Jobs -> Record]
          /\ \A k \in Jobs : job'[k] = jobs[k] \/ job'[k] = Gone
          /\ mishaps' \in 0 .. MaxMishaps
        BY <1>1, SaveResult DEF Inv
    <2>2. TypeOK'
        BY <1>1, <2>1 DEF Inv, TypeOK, Store, daemon, log, Record
    <2>3. Claims'
        <3> SUFFICES ASSUME NEW k \in Jobs, NEW t \in Ticks, <<k, t>> \in taken
                     PROVE  t <= clock /\ Passed(k, t)'
            BY <1>1 DEF Claims, Store, log
        <3>1. t <= clock /\ Passed(k, t)
            BY DEF Inv, Claims
        <3>2. job[k] \in Record /\ job'[k] \in Record
            BY <2>1 DEF Inv, TypeOK, Record
        <3>3. CASE job'[k] = Gone
            BY <3>1, <3>3 DEF Passed, Gone
        <3>4. CASE job'[k] = jobs[k]
            BY <1>1, <3>1, <3>2, <3>4, DaemonAssumption
               DEF Passed, Stored, Gone, Record, Ticks
        <3> QED BY <2>1, <3>3, <3>4
    <2>4. Clocks' /\ Holders' /\ Counted'
        BY <1>1 DEF Inv, Clocks, Holders, Counted, Store, daemon, log, At
    <2> QED BY <2>2, <2>3, <2>4 DEF Inv
<1>2. /\ job \in [Jobs -> Record] /\ clock \in 0 .. MaxTick /\ Gone \in Record
      /\ changes \in 0 .. MaxChanges
    BY DaemonAssumption DEF Inv, TypeOK, Record, Gone, Ticks
<1>0. Change => changes' \in 0 .. MaxChanges
    BY <1>2, DaemonAssumption DEF Change
<1>3. CASE Add(j)
    <2> DEFINE jobs == [job EXCEPT ![j] = [place |-> "stored", enabled |-> TRUE,
                                           next |-> clock + 1]]
    <2>1. jobs \in [Jobs -> Record] /\ Forward(jobs)
        BY <1>2, <1>3, DaemonAssumption DEF Add, Record, Ticks
    <2>2. Save(jobs) /\ Store /\ changes' = changes
        BY <1>3 DEF Add
    <2> QED BY <1>1, <1>2, <2>1, <2>2
<1>4. CASE Remove(j)
    <2> DEFINE jobs == [job EXCEPT ![j] = Gone]
    <2>1. jobs \in [Jobs -> Record] /\ Forward(jobs)
        BY <1>2
    <2>2. Save(jobs) /\ Change
        BY <1>4 DEF Remove
    <2> HIDE DEF jobs
    <2> QED BY <1>1, <1>0, <2>1, <2>2 DEF Change
<1>5. CASE SetEnabled(j)
    <2> DEFINE jobs == [job EXCEPT ![j].enabled = ~@]
    <2>1. /\ job[j].place \in {"new", "stored", "gone"} /\ job[j].next \in Ticks
          /\ job[j] = [place |-> job[j].place, enabled |-> job[j].enabled,
                       next |-> job[j].next]
        BY <1>2 DEF Record
    <2>2. \A b \in BOOLEAN : [job[j] EXCEPT !.enabled = b] \in Record
        BY <2>1 DEF Record
    <2>3. jobs \in [Jobs -> Record]
        <3> DEFINE b == ~job[j].enabled
        <3>1. b \in BOOLEAN
            OBVIOUS
        <3>2. jobs = [job EXCEPT ![j] = [job[j] EXCEPT !.enabled = b]]
            OBVIOUS
        <3> HIDE DEF b
        <3> QED BY <1>2, <2>2, <3>1, <3>2
    <2>4. Forward(jobs)
        BY <1>2, <1>5, DaemonAssumption DEF SetEnabled, Stored, Record, Ticks
    <2>5. Save(jobs) /\ Change
        BY <1>5 DEF SetEnabled
    <2> HIDE DEF jobs
    <2> QED BY <1>1, <1>0, <2>3, <2>4, <2>5 DEF Change
<1>6. CASE SkipNext(j)
    <2> DEFINE anchor == IF job[j].next > clock THEN job[j].next ELSE clock
               jobs == [job EXCEPT ![j].next = IF j \in Once THEN Never ELSE anchor + 1]
    <2>1. anchor <= MaxTick /\ anchor \in Nat /\ job[j].next <= anchor /\ Stored(j)
        BY <1>2, <1>6, DaemonAssumption DEF SkipNext, Record, Ticks
    <2>2. Never \in Ticks /\ anchor + 1 \in Ticks /\ anchor < Never
        BY <2>1, DaemonAssumption DEF Never, Ticks
    <2>3. jobs \in [Jobs -> Record] /\ Forward(jobs)
        BY <1>2, <2>1, <2>2, DaemonAssumption DEF Stored, Record, Ticks
    <2>4. Save(jobs) /\ Change
        BY <1>6 DEF SkipNext
    <2> HIDE DEF jobs
    <2> QED BY <1>1, <1>0, <2>3, <2>4 DEF Change
<1> QED BY <1>3, <1>4, <1>5, <1>6

\* A claim arms the schedule past what was claimed.
LEMMA ClaimInv ==
    ASSUME Inv, NEW d \in Daemons, NEW j \in Jobs, ClaimIfDue(d, j)
    PROVE  Inv'
<1>1. /\ At(d, "jobs") /\ todo' = [todo EXCEPT ![d] = @ \ {j}] /\ held[d] = Free
      /\ UNCHANGED <<clock, status, now, night, runs, nights, overlaps, changes>>
    BY DEF ClaimIfDue, Inv, Holders, At
<1>2. CASE UNCHANGED <<job, held, taken, pc>> /\ (Calm \/ Mishap)
    <2>1. mishaps' \in 0 .. MaxMishaps
        BY <1>2, DaemonAssumption DEF Inv, TypeOK, Calm, Mishap
    <2> QED
        BY <1>1, <1>2, <2>1
           DEF Inv, TypeOK, Clocks, Claims, Holders, Counted, Passed, Stored, At
<1>3. CASE /\ Comes(j, now[d])
           /\ Save(Armed(d, j))
           /\ held' = [held EXCEPT ![d] = <<j, job[j].next>>]
           /\ taken' = taken \cup {<<j, job[j].next>>}
           /\ Goto(d, "run")
    <2> DEFINE t0 == job[j].next
               jobs == Armed(d, j)
    <2>1. /\ job \in [Jobs -> Record] /\ Stored(j) /\ t0 <= now[d] /\ now[d] <= clock
          /\ clock \in 0 .. MaxTick /\ now[d] \in 0 .. MaxTick /\ t0 \in Ticks
          /\ Gone \in Record /\ pc \in [Daemons -> {"down", "cleared", "round", "night",
                                                    "due", "jobs", "run"}]
          /\ held \in [Daemons -> Occurrences \cup {Free}] /\ taken \subseteq Occurrences
        <3>1. /\ job \in [Jobs -> Record] /\ clock \in 0 .. MaxTick /\ now[d] \in 0 .. MaxTick
              /\ pc \in [Daemons -> {"down", "cleared", "round", "night", "due", "jobs", "run"}]
              /\ held \in [Daemons -> Occurrences \cup {Free}] /\ taken \subseteq Occurrences
            BY DEF Inv, TypeOK, Record
        <3>2. Stored(j) /\ t0 <= now[d] /\ now[d] <= clock
            BY <1>3 DEF Inv, Clocks, Comes
        <3>3. t0 \in Ticks
            BY <3>1 DEF Record
        <3>4. Gone \in Record
            BY DaemonAssumption DEF Record, Ticks, Gone
        <3> QED BY <3>1, <3>2, <3>3, <3>4
    <2>2. jobs \in [Jobs -> Record]
        BY <2>1, DaemonAssumption DEF Armed, Record, Ticks
    <2>3. /\ \A k \in Jobs \ {j} : jobs[k] = job[k]
          /\ jobs[j] = Gone \/ (jobs[j].place = "stored" /\ t0 < jobs[j].next)
        BY <2>1, DaemonAssumption DEF Armed, Stored, Record, Ticks
    <2>4. /\ job' \in [Jobs -> Record] /\ mishaps' \in 0 .. MaxMishaps
          /\ \A k \in Jobs : job'[k] = jobs[k] \/ job'[k] = Gone
        <3> HIDE DEF jobs
        <3> QED BY <1>3, <2>2, SaveResult DEF Inv, jobs
    <2>5. /\ <<j, t0>> \in Occurrences /\ <<j, t0>> # Free /\ <<j, t0>> \notin taken
          /\ <<j, t0>>[1] = j /\ <<j, t0>>[2] = t0
        <3>1. ~Passed(j, t0)
            BY <2>1, DaemonAssumption DEF Passed, Stored, Ticks
        <3> QED BY <2>1, <3>1 DEF Inv, Claims, Occurrences, Free
    <2>6. runs[j][t0] = 0
        BY <2>1, <2>5 DEF Inv, TypeOK, Counted
    <2>7. TypeOK'
        BY <1>1, <1>3, <2>1, <2>4, <2>5 DEF Inv, TypeOK, Goto, Record
    <2>8. Clocks'
        BY <1>1, <1>3, <2>1 DEF Inv, Clocks, At, Goto
    <2>9. Claims'
        <3> SUFFICES ASSUME NEW k \in Jobs, NEW t \in Ticks, <<k, t>> \in taken'
                     PROVE  t <= clock /\ Passed(k, t)'
            BY <1>1 DEF Claims
        <3>1. \/ k = j /\ t = t0
              \/ t <= clock /\ Passed(k, t)
            BY <1>3 DEF Inv, Claims
        <3>2. k = j => t <= t0
            BY <2>1, <3>1, DaemonAssumption DEF Passed, Stored, Ticks, Record
        <3>3. t <= clock
            BY <2>1, <3>1, DaemonAssumption DEF Ticks
        <3>4. CASE job'[k] = Gone
            BY <3>3, <3>4 DEF Passed, Gone
        <3>5. CASE job'[k] = jobs[k] /\ k # j
            BY <2>3, <3>1, <3>3, <3>5 DEF Passed, Stored
        <3>6. CASE job'[k] = jobs[k] /\ k = j
            <4>1. jobs[j] \in Record
                BY <2>2
            <4> QED
                BY <2>1, <2>3, <3>2, <3>3, <3>6, <4>1, DaemonAssumption
                   DEF Passed, Stored, Gone, Ticks, Record
        <3> QED BY <2>4, <3>4, <3>5, <3>6
    <2>10. Holders'
        <3>1. /\ \A e \in Daemons \ {d} : held'[e] = held[e] /\ pc'[e] = pc[e]
              /\ held'[d] = <<j, t0>> /\ pc'[d] = "run" /\ runs' = runs
            BY <1>1, <1>3, <2>1 DEF Goto
        <3>2. \A e \in Daemons \ {d} : held[e] # <<j, t0>>
            BY <2>5 DEF Inv, Holders
        <3> QED BY <1>3, <2>5, <2>6, <3>1, <3>2 DEF Inv, Holders, At
    <2>11. Counted'
        BY <1>1, <1>3 DEF Inv, Counted
    <2> QED BY <2>7, <2>8, <2>9, <2>10, <2>11 DEF Inv
<1> QED BY <1>2, <1>3 DEF ClaimIfDue, Calm, Mishap

\* A step that claims nothing and runs nothing preserves the invariant if it preserves the
\* types and the clocks.
LEMMA QuietInv ==
    ASSUME Inv, TypeOK', Clocks', UNCHANGED <<job, held, taken, runs>>, clock <= clock',
           \A d \in Daemons : At(d, "run")' <=> At(d, "run")
    PROVE  Inv'
<1>1. Claims'
    <2>1. \A j \in Jobs : \A t \in Ticks : Passed(j, t)' <=> Passed(j, t)
        BY DEF Passed, Stored
    <2> QED BY <2>1, DaemonAssumption DEF Inv, TypeOK, Claims, Ticks
<1>2. Holders' /\ Counted'
    BY DEF Inv, Holders, Counted
<1> QED BY <1>1, <1>2 DEF Inv

\* A round, and the start of a daemon, preserve the invariant.
LEMMA RoundInv ==
    ASSUME Inv, NEW d \in Daemons,
           \/ Look(d) \/ Begin(d) \/ Round(d) \/ Morpheus(d) \/ DueJobs(d) \/ WriteStatus(d)
    PROVE  Inv'
<1> DEFINE Labels == {"down", "cleared", "round", "night", "due", "jobs", "run"}
<1>1. /\ pc \in [Daemons -> Labels] /\ now \in [Daemons -> 0 .. MaxTick]
      /\ night \in [Daemons -> Ticks] /\ nights \in [Ticks -> Nat] /\ overlaps \in Nat
      /\ clock \in 0 .. MaxTick /\ todo \in [Daemons -> SUBSET Jobs]
    BY DEF Inv, TypeOK
<1>2. /\ UNCHANGED <<clock, job, held, taken, runs>> /\ changes' = changes
      /\ status' \in {"none", "fresh", "stale"}
    BY DEF Look, Begin, Round, Morpheus, DueJobs, WriteStatus, Inv, TypeOK, log
<1>3. mishaps' \in 0 .. MaxMishaps
    BY DaemonAssumption DEF Look, Begin, Round, Morpheus, DueJobs, WriteStatus, Inv, TypeOK,
                            Calm, Mishap
<1>4. \E l \in Labels \ {"run"} : pc' = [pc EXCEPT ![d] = l] /\ pc[d] # "run"
    BY DEF Look, Begin, Round, Morpheus, DueJobs, WriteStatus, At, Goto
<1>5. todo' \in [Daemons -> SUBSET Jobs]
    BY <1>1 DEF Look, Begin, Round, Morpheus, DueJobs, WriteStatus
<1>6. nights' \in [Ticks -> Nat] /\ overlaps' \in Nat
    <2>1. CASE Begin(d)
        BY <1>1, <2>1 DEF Begin
    <2>2. CASE Morpheus(d)
        <3>1. now[d] \in Ticks
            BY <1>1, DaemonAssumption DEF Ticks
        <3>2. nights[now[d]] + 1 \in Nat
            BY <1>1, <3>1
        <3> QED BY <1>1, <2>2, <3>1, <3>2 DEF Morpheus
    <2>3. CASE Look(d) \/ Round(d) \/ DueJobs(d) \/ WriteStatus(d)
        BY <1>1, <2>3 DEF Look, Round, DueJobs, WriteStatus, log
    <2> QED BY <2>1, <2>2, <2>3
<1>7. now' \in [Daemons -> 0 .. MaxTick] /\ night' \in [Daemons -> Ticks] /\ Clocks'
    <2>1. CASE Look(d) \/ DueJobs(d)
        BY <1>1, <2>1 DEF Look, DueJobs, Inv, Clocks, At, Goto
    <2>2. CASE Begin(d)
        BY <1>1, <2>2, DaemonAssumption DEF Begin, Inv, Clocks, At, Goto, Ticks
    <2>3. CASE Round(d)
        BY <1>1, <2>3, DaemonAssumption DEF Round, Inv, Clocks, At, Goto, Ticks
    <2>4. CASE Morpheus(d)
        BY <1>1, <2>4, DaemonAssumption DEF Morpheus, Inv, Clocks, At, Goto, Ticks
    <2>5. CASE WriteStatus(d)
        BY <1>1, <2>5, DaemonAssumption DEF WriteStatus, Inv, Clocks, At, Goto
    <2> QED BY <2>1, <2>2, <2>3, <2>4, <2>5
<1>8. TypeOK'
    BY <1>1, <1>2, <1>3, <1>4, <1>5, <1>6, <1>7 DEF Inv, TypeOK
<1>9. \A e \in Daemons : At(e, "run")' <=> At(e, "run")
    BY <1>1, <1>4 DEF At
<1> QED BY <1>1, <1>2, <1>7, <1>8, <1>9, QuietInv, DaemonAssumption

\* A daemon that ran what it held, or went down with it, holds nothing.
LEMMA FreeInv ==
    ASSUME Inv, NEW d \in Daemons, RunJob(d) \/ Stop(d) \/ Crash(d)
    PROVE  Inv'
<1>1. /\ held' = [held EXCEPT ![d] = Free] /\ UNCHANGED <<clock, job, taken, nights, overlaps>>
      /\ \E l \in {"jobs", "down"} : pc' = [pc EXCEPT ![d] = l]
      /\ changes' = changes
    BY DEF RunJob, Stop, Crash, Down, Goto, log
<1>2. /\ mishaps' \in 0 .. MaxMishaps /\ status' \in {"none", "fresh", "stale"}
      /\ now' \in [Daemons -> 0 .. MaxTick] /\ night' \in [Daemons -> Ticks]
      /\ todo' \in [Daemons -> SUBSET Jobs]
    <2>1. CASE RunJob(d)
        BY <2>1 DEF RunJob, Inv, TypeOK
    <2>2. CASE Stop(d) \/ Crash(d)
        <3>1. mishaps' = mishaps + 1 /\ mishaps < MaxMishaps /\ mishaps \in 0 .. MaxMishaps
              /\ status' \in {"none", status}
            BY <2>2 DEF Stop, Crash, Down, Mishap, Inv, TypeOK
        <3>2. 0 \in 0 .. MaxTick /\ 0 \in Ticks /\ mishaps' \in 0 .. MaxMishaps
            BY <3>1, DaemonAssumption DEF Ticks
        <3>3. /\ now' = [now EXCEPT ![d] = 0] /\ night' = [night EXCEPT ![d] = 0]
              /\ todo' = [todo EXCEPT ![d] = {}]
            BY <2>2 DEF Stop, Crash, Down
        <3> QED BY <3>1, <3>2, <3>3 DEF Inv, TypeOK
    <2> QED BY <2>1, <2>2
<1>3. /\ pc \in [Daemons -> {"down", "cleared", "round", "night", "due", "jobs", "run"}]
      /\ held \in [Daemons -> Occurrences \cup {Free}] /\ taken \subseteq Occurrences
      /\ runs \in [Jobs -> [Ticks -> Nat]] /\ now \in [Daemons -> 0 .. MaxTick]
      /\ clock \in 0 .. MaxTick /\ night \in [Daemons -> Ticks]
    BY DEF Inv, TypeOK
<1>4. \/ runs' = runs
      \/ /\ At(d, "run") /\ held[d] # Free
         /\ runs' = [runs EXCEPT ![held[d][1]][held[d][2]] = @ + 1]
    BY DEF RunJob, Stop, Crash, Down, log, Inv, Holders
<1>5. runs' \in [Jobs -> [Ticks -> Nat]] /\ Counted'
    <2>1. CASE runs' = runs
        BY <1>1, <1>3, <2>1 DEF Inv, Counted
    <2>2. CASE /\ At(d, "run") /\ held[d] # Free
               /\ runs' = [runs EXCEPT ![held[d][1]][held[d][2]] = @ + 1]
        <3>1. PICK j \in Jobs, t \in Ticks : held[d] = <<j, t>>
            BY <1>3, <2>2 DEF Occurrences
        <3>2. held[d][1] = j /\ held[d][2] = t /\ runs[j][t] = 0 /\ <<j, t>> \in taken
            BY <2>2, <3>1 DEF Inv, Holders
        <3>3. runs' = [runs EXCEPT ![j] = [runs[j] EXCEPT ![t] = runs[j][t] + 1]]
            BY <2>2, <3>2
        <3>4. runs' = [runs EXCEPT ![j] = [runs[j] EXCEPT ![t] = 1]]
            BY <3>2, <3>3
        <3>5. runs' \in [Jobs -> [Ticks -> Nat]]
            BY <1>3, <3>4
        <3>6. ASSUME NEW k \in Jobs, NEW u \in Ticks
              PROVE  runs'[k][u] <= 1 /\ (runs'[k][u] > 0 => <<k, u>> \in taken')
            <4>1. CASE k = j /\ u = t
                <5>1. runs'[k][u] = 1
                    BY <1>3, <3>4, <4>1
                <5> QED BY <1>1, <3>2, <4>1, <5>1
            <4>2. CASE k # j \/ u # t
                <5>1. runs'[k][u] = runs[k][u]
                    BY <1>3, <3>4, <4>2
                <5> QED BY <1>1, <5>1 DEF Inv, Counted
            <4> QED BY <4>1, <4>2
        <3> QED BY <3>5, <3>6 DEF Counted
    <2> QED BY <1>4, <2>1, <2>2
<1>6. Holders'
    <2> SUFFICES ASSUME NEW e \in Daemons
                 PROVE  /\ held'[e] # Free <=> At(e, "run")'
                        /\ held'[e] # Free =>
                              /\ held'[e] \in taken' /\ runs'[held'[e][1]][held'[e][2]] = 0
                              /\ \A f \in Daemons \ {e} : held'[f] # held'[e]
        BY DEF Holders
    <2>1. CASE e = d
        BY <1>1, <1>3, <2>1 DEF At
    <2>2. CASE e # d
        <3>1. held'[e] = held[e] /\ pc'[e] = pc[e]
            BY <1>1, <1>3, <2>2
        <3>2. held[e] # Free => runs'[held[e][1]][held[e][2]] = 0
            <4> SUFFICES ASSUME held[e] # Free PROVE runs'[held[e][1]][held[e][2]] = 0
                OBVIOUS
            <4>1. PICK j \in Jobs, t \in Ticks : held[e] = <<j, t>>
                BY <1>3 DEF Occurrences
            <4>2. held[e][1] = j /\ held[e][2] = t /\ runs[j][t] = 0 /\ held[d] # <<j, t>>
                <5>1. runs[held[e][1]][held[e][2]] = 0 /\ held[d] # held[e]
                    BY <2>2 DEF Inv, Holders
                <5> QED BY <4>1, <5>1
            <4>3. CASE runs' = runs
                BY <4>1, <4>2, <4>3
            <4>4. CASE /\ At(d, "run") /\ held[d] # Free
                       /\ runs' = [runs EXCEPT ![held[d][1]][held[d][2]] = @ + 1]
                <5>1. PICK k \in Jobs, u \in Ticks : held[d] = <<k, u>>
                    BY <1>3, <4>4 DEF Occurrences
                <5>2. runs' = [runs EXCEPT ![k][u] = @ + 1] /\ (k # j \/ u # t)
                    BY <4>2, <4>4, <5>1
                <5> QED BY <1>3, <4>1, <4>2, <5>2
            <4> QED BY <1>4, <4>3, <4>4
        <3>3. \A f \in Daemons : held'[f] = held[f] \/ held'[f] = Free
            BY <1>1, <1>3
        <3> QED BY <1>1, <2>2, <3>1, <3>2, <3>3 DEF Inv, Holders, At
    <2> QED BY <2>1, <2>2
<1>7. Claims'
    <2>1. \A j \in Jobs : \A t \in Ticks : Passed(j, t)' <=> Passed(j, t)
        BY <1>1 DEF Passed, Stored
    <2> QED BY <1>1, <2>1 DEF Inv, Claims
<1>8. Clocks'
    BY <1>1, <1>3, DaemonAssumption
       DEF RunJob, Stop, Crash, Down, Inv, Clocks, At, Goto
<1>9. TypeOK'
    BY <1>1, <1>2, <1>3, <1>5 DEF Inv, TypeOK
<1> QED BY <1>5, <1>6, <1>7, <1>8, <1>9 DEF Inv

\* The passing of time preserves the invariant, and so does every step.
LEMMA NextInv == Inv /\ [Next]_vars => Inv'
<1> SUFFICES ASSUME Inv, [Next]_vars PROVE Inv'
    OBVIOUS
<1>1. CASE UNCHANGED vars
    <2>1. TypeOK' /\ Clocks'
        BY <1>1 DEF Inv, TypeOK, Clocks, At, vars, daemon, log
    <2> QED BY <1>1, <2>1, QuietInv DEF vars, daemon, log, At, Inv, TypeOK
<1>2. CASE Tick \/ Age
    <2>1. /\ UNCHANGED <<job, daemon, log, mishaps, changes>>
          /\ clock' \in 0 .. MaxTick /\ clock <= clock'
          /\ status' \in {"none", "fresh", "stale"}
        BY <1>2, DaemonAssumption DEF Tick, Age, Inv, TypeOK
    <2>2. TypeOK'
        BY <2>1 DEF Inv, TypeOK, daemon, log
    <2>3. Clocks'
        BY <2>1, DaemonAssumption DEF Inv, TypeOK, Clocks, At, daemon
    <2> QED BY <2>1, <2>2, <2>3, QuietInv DEF daemon, log, At
<1> QED BY <1>1, <1>2, OwnerInv, ClaimInv, RoundInv, FreeInv DEF Next, Daemon

\* The variables have their types.
THEOREM TypeCorrect == Spec => []TypeOK
<1> QED BY InitInv, NextInv, PTL DEF Spec, Inv

\* However many daemons poll, an occurrence of a job is run at most once, and not before it
\* has come.
THEOREM EachOccurrenceOnce == Spec => []RunsOnce
<1>1. Inv => RunsOnce
    <2> SUFFICES ASSUME Inv, NEW j \in Jobs, NEW t \in Ticks, runs[j][t] > 0
                 PROVE  runs[j][t] = 1 /\ t <= clock
        BY DEF RunsOnce
    <2>1. runs[j][t] \in Nat
        BY DEF Inv, TypeOK
    <2>2. runs[j][t] <= 1 /\ <<j, t>> \in taken
        BY DEF Inv, Counted
    <2>3. t <= clock
        BY <2>2 DEF Inv, Claims
    <2> QED BY <2>1, <2>2, <2>3
<1> QED BY <1>1, InitInv, NextInv, PTL DEF Spec

-----------------------------------------------------------------------------
\* What is lost, and who pays for it.

\* The claimed occurrences that nobody ran and nobody holds.
Lost == {o \in taken : runs[o[1]][o[2]] = 0 /\ \A d \in Daemons : held[d] # o}

\* There are finitely many of them.
LEMMA LostFinite == Inv => IsFiniteSet(Lost)
<1> SUFFICES ASSUME Inv PROVE IsFiniteSet(Lost)
    OBVIOUS
<1>1. IsFiniteSet(Ticks)
    BY FS_Interval, DaemonAssumption DEF Ticks
<1>2. IsFiniteSet(Occurrences)
    BY <1>1, FS_Product, DaemonAssumption DEF Occurrences
<1>3. Lost \subseteq Occurrences
    BY DEF Lost, Inv, TypeOK
<1> QED BY <1>2, <1>3, FS_Subset

\* Only a daemon that goes down adds to them, and only what it held.
LEMMA LostStep ==
    ASSUME Inv, [Next]_vars
    PROVE  \/ Lost' \subseteq Lost /\ mishaps <= mishaps'
           \/ \E d \in Daemons : Lost' \subseteq Lost \cup {held[d]} /\ mishaps' = mishaps + 1
<1>1. mishaps \in Nat
    BY DEF Inv, TypeOK
<1>2. CASE UNCHANGED <<taken, runs, held>> /\ mishaps <= mishaps'
    BY <1>2 DEF Lost
<1>3. ASSUME NEW d \in Daemons, NEW j \in Jobs, ClaimIfDue(d, j)
      PROVE  Lost' \subseteq Lost /\ mishaps <= mishaps'
    <2>0. mishaps <= mishaps' /\ runs' = runs
        BY <1>1, <1>3 DEF ClaimIfDue, Save, Calm, Mishap
    <2>1. CASE UNCHANGED <<held, taken>>
        BY <2>0, <2>1 DEF Lost
    <2>2. CASE /\ Save(Armed(d, j))
               /\ held' = [held EXCEPT ![d] = <<j, job[j].next>>]
               /\ taken' = taken \cup {<<j, job[j].next>>}
        <3>1. runs' = runs /\ held[d] = Free /\ held'[d] = <<j, job[j].next>>
              /\ \A e \in Daemons \ {d} : held'[e] = held[e]
            BY <1>3, <2>2 DEF ClaimIfDue, Inv, TypeOK, Holders, At
        <3>2. ASSUME NEW o \in taken PROVE o # Free
            <4>1. PICK k \in Jobs, u \in Ticks : o = <<k, u>>
                BY DEF Inv, TypeOK, Occurrences
            <4> QED BY <4>1 DEF Free
        <3>3. ASSUME NEW o \in Lost' PROVE o \in Lost
            <4>1. /\ o \in taken' /\ runs'[o[1]][o[2]] = 0 /\ held'[d] # o
                  /\ \A e \in Daemons \ {d} : held'[e] # o
                BY DEF Lost
            <4>2. o \in taken
                BY <2>2, <3>1, <4>1
            <4>3. \A e \in Daemons : held[e] # o
                BY <3>1, <3>2, <4>1, <4>2
            <4>4. runs[o[1]][o[2]] = 0
                BY <3>1, <4>1
            <4> QED BY <4>2, <4>3, <4>4 DEF Lost
        <3> QED BY <2>0, <3>3
    <2> QED BY <1>3, <2>1, <2>2 DEF ClaimIfDue
<1>4. ASSUME NEW d \in Daemons, RunJob(d)
      PROVE  Lost' \subseteq Lost /\ mishaps <= mishaps'
    <2>1. /\ taken' = taken /\ mishaps' = mishaps /\ held[d] # Free
          /\ held' = [held EXCEPT ![d] = Free] /\ held[d] \in taken
          /\ runs' = [runs EXCEPT ![held[d][1]][held[d][2]] = @ + 1]
        BY <1>4 DEF RunJob, Inv, Holders
    <2>2. PICK j \in Jobs, t \in Ticks : held[d] = <<j, t>>
        BY <2>1 DEF Inv, TypeOK, Occurrences
    <2>3. held[d][1] = j /\ held[d][2] = t
        BY <2>2
    <2>4. runs' = [runs EXCEPT ![j][t] = @ + 1]
        BY <2>1, <2>3
    <2> SUFFICES ASSUME NEW o \in Lost' PROVE o \in Lost
        BY <1>1, <2>1
    <2>5. o \in taken /\ o \in Occurrences /\ runs'[o[1]][o[2]] = 0
        BY <2>1 DEF Lost, Inv, TypeOK
    <2>6. PICK k \in Jobs, u \in Ticks : o = <<k, u>>
        BY <2>5 DEF Occurrences
    <2>7. o[1] = k /\ o[2] = u
        BY <2>6
    <2>8. runs \in [Jobs -> [Ticks -> Nat]]
        BY DEF Inv, TypeOK
    <2>9. ~(k = j /\ u = t)
        <3> SUFFICES ASSUME k = j, u = t PROVE FALSE
            OBVIOUS
        <3>1. runs'[j][t] = runs[j][t] + 1 /\ runs[j][t] \in Nat
            BY <2>4, <2>8
        <3> QED BY <2>5, <2>7, <3>1
    <2>10. runs[k][u] = 0 /\ o # held[d]
        BY <2>2, <2>4, <2>5, <2>6, <2>7, <2>8, <2>9
    <2>11. \A e \in Daemons \ {d} : held[e] # o
        <3>1. \A e \in Daemons \ {d} : held'[e] = held[e]
            BY <2>1 DEF Inv, TypeOK
        <3> QED BY <3>1 DEF Lost
    <2> QED BY <2>5, <2>7, <2>10, <2>11 DEF Lost
<1>5. ASSUME NEW d \in Daemons, Stop(d) \/ Crash(d)
      PROVE  Lost' \subseteq Lost \cup {held[d]} /\ mishaps' = mishaps + 1
    <2>1. /\ taken' = taken /\ runs' = runs /\ mishaps' = mishaps + 1
          /\ held' = [held EXCEPT ![d] = Free]
        BY <1>5 DEF Stop, Crash, Down, Mishap, log
    <2>2. \A e \in Daemons \ {d} : held'[e] = held[e]
        BY <2>1 DEF Inv, TypeOK
    <2> QED BY <2>1, <2>2 DEF Lost
<1>6. ASSUME NEW j \in Jobs, Add(j) \/ Remove(j) \/ SetEnabled(j) \/ SkipNext(j)
      PROVE  UNCHANGED <<taken, runs, held>> /\ mishaps <= mishaps'
    BY <1>1, <1>6
       DEF Add, Remove, SetEnabled, SkipNext, Change, Store, daemon, log, Save, Calm, Mishap
<1>7. ASSUME NEW d \in Daemons,
             \/ Look(d) \/ Begin(d) \/ Round(d) \/ Morpheus(d) \/ DueJobs(d) \/ WriteStatus(d)
      PROVE  UNCHANGED <<taken, runs, held>> /\ mishaps <= mishaps'
    BY <1>1, <1>7
       DEF Look, Begin, Round, Morpheus, DueJobs, WriteStatus, log, Calm, Mishap
<1>8. CASE Tick \/ Age \/ UNCHANGED vars
    BY <1>1, <1>2, <1>8 DEF Tick, Age, vars, daemon, log
<1> QED BY <1>2, <1>3, <1>4, <1>5, <1>6, <1>7, <1>8 DEF Next, Daemon

\* Each claimed occurrence that is lost is paid for by a mishap of its own: a crash or a
\* stop of its claimer.
THEOREM LossesArePaidFor == Spec => []LossesPaidFor
<1> DEFINE Paid == Cardinality(Lost) <= mishaps
<1>1. Paid <=> LossesPaidFor
    BY DEF LossesPaidFor, Lost
<1>2. Init => Paid
    <2> SUFFICES ASSUME Init PROVE Paid
        OBVIOUS
    <2>1. Lost = {}
        BY DEF Init, Lost
    <2> QED BY <2>1, FS_EmptySet DEF Init
<1>3. Inv /\ Paid /\ [Next]_vars => Paid'
    <2> SUFFICES ASSUME Inv, Paid, [Next]_vars PROVE Paid'
        OBVIOUS
    <2>1. mishaps \in Nat /\ mishaps' \in Nat
        BY NextInv DEF Inv, TypeOK
    <2>2. IsFiniteSet(Lost) /\ Cardinality(Lost) \in Nat
        BY LostFinite, FS_CardinalityType
    <2>3. CASE Lost' \subseteq Lost /\ mishaps <= mishaps'
        <3>1. Cardinality(Lost') <= Cardinality(Lost) /\ Cardinality(Lost') \in Nat
            BY <2>2, <2>3, FS_Subset, FS_CardinalityType
        <3> QED BY <2>1, <2>2, <2>3, <3>1
    <2>4. ASSUME NEW d \in Daemons,
                 Lost' \subseteq Lost \cup {held[d]}, mishaps' = mishaps + 1
          PROVE  Paid'
        <3>1. /\ IsFiniteSet(Lost \cup {held[d]})
              /\ Cardinality(Lost \cup {held[d]}) <= Cardinality(Lost) + 1
              /\ Cardinality(Lost \cup {held[d]}) \in Nat
            <4>1. /\ IsFiniteSet(Lost \cup {held[d]})
                  /\ Cardinality(Lost \cup {held[d]})
                        = IF held[d] \in Lost THEN Cardinality(Lost) ELSE Cardinality(Lost) + 1
                BY <2>2, FS_AddElement
            <4> QED BY <2>2, <4>1
        <3>2. /\ Cardinality(Lost') <= Cardinality(Lost \cup {held[d]})
              /\ Cardinality(Lost') \in Nat
            BY <2>4, <3>1, FS_Subset, FS_CardinalityType
        <3> QED BY <2>1, <2>2, <2>4, <3>1, <3>2
    <2> QED BY <2>3, <2>4, LostStep
<1> QED BY <1>1, <1>2, <1>3, InitInv, NextInv, PTL DEF Spec

-----------------------------------------------------------------------------
\* How often Morpheus runs.

\* The daemons that may still run Morpheus at tick t.
Waiting(t) == {d \in Daemons : Up(d) /\ (t <= clock => night[d] <= t)}

\* Morpheus has not run ahead of the clock, and each daemon that waits for its night is
\* alone or began beside another one.
NightInv ==
    \A t \in Ticks :
        /\ t > clock => nights[t] = 0
        /\ nights[t] + Cardinality(Waiting(t)) <= 1 + overlaps

\* Sets of daemons are finite.
LEMMA Daemonic == ASSUME NEW S \in SUBSET Daemons
                  PROVE  IsFiniteSet(S) /\ Cardinality(S) \in Nat
BY FS_Subset, FS_CardinalityType, DaemonAssumption

\* A step after which no other daemon waits, and Morpheus has run no more, preserves it.
LEMMA NightKept ==
    ASSUME Inv, NightInv, overlaps' = overlaps, nights' = nights, clock' \in 0 .. MaxTick,
           clock <= clock',
           \A t \in Ticks : Waiting(t)' \subseteq Waiting(t)
    PROVE  NightInv'
<1> SUFFICES ASSUME NEW t \in Ticks
             PROVE  /\ t > clock' => nights'[t] = 0
                    /\ nights'[t] + Cardinality(Waiting(t)') <= 1 + overlaps'
    BY DEF NightInv
<1>1. Waiting(t) \in SUBSET Daemons /\ Waiting(t)' \in SUBSET Daemons
    BY DEF Waiting
<1>2. /\ Cardinality(Waiting(t)') <= Cardinality(Waiting(t))
      /\ Cardinality(Waiting(t)') \in Nat /\ Cardinality(Waiting(t)) \in Nat
    BY <1>1, Daemonic, FS_Subset
<1>3. nights[t] \in Nat /\ overlaps \in Nat /\ clock \in Nat /\ t \in Nat
    BY DaemonAssumption DEF Inv, TypeOK, Ticks
<1>4. /\ t > clock => nights[t] = 0
      /\ nights[t] + Cardinality(Waiting(t)) <= 1 + overlaps
    BY DEF NightInv
<1> QED BY <1>2, <1>3, <1>4

\* A daemon that begins waits only for nights to come, and counts if it is not alone.
LEMMA NightBegin == ASSUME Inv, NightInv, NEW d \in Daemons, Begin(d) PROVE NightInv'
<1> SUFFICES ASSUME NEW t \in Ticks
             PROVE  /\ t > clock' => nights'[t] = 0
                    /\ nights'[t] + Cardinality(Waiting(t)') <= 1 + overlaps'
    BY DEF NightInv
<1>1. /\ At(d, "cleared") /\ pc' = [pc EXCEPT ![d] = "round"] /\ clock' = clock
      /\ nights' = nights /\ night' = [night EXCEPT ![d] = clock + 1]
      /\ overlaps' = IF \E e \in Daemons \ {d} : Up(e) THEN overlaps + 1 ELSE overlaps
    BY DEF Begin, Goto
<1>2. /\ nights[t] \in Nat /\ overlaps \in Nat /\ clock \in Nat /\ t \in Nat
      /\ pc \in [Daemons -> {"down", "cleared", "round", "night", "due", "jobs", "run"}]
      /\ night \in [Daemons -> Ticks]
    BY DaemonAssumption DEF Inv, TypeOK, Ticks
<1>3. /\ t > clock => nights[t] = 0
      /\ nights[t] + Cardinality(Waiting(t)) <= 1 + overlaps
    BY DEF NightInv
<1>4. Waiting(t) \in SUBSET Daemons /\ Waiting(t)' \in SUBSET Daemons
    BY DEF Waiting
<1>5. \A e \in Daemons \ {d} : pc'[e] = pc[e] /\ night'[e] = night[e]
    BY <1>1, <1>2
<1>6. CASE t <= clock
    <2>1. night'[d] = clock + 1
        BY <1>1, <1>2
    <2>2. Waiting(t)' \subseteq Waiting(t)
        BY <1>1, <1>2, <1>5, <1>6, <2>1 DEF Waiting, Up
    <2>3. /\ Cardinality(Waiting(t)') <= Cardinality(Waiting(t))
          /\ Cardinality(Waiting(t)') \in Nat /\ Cardinality(Waiting(t)) \in Nat
        BY <1>4, <2>2, Daemonic, FS_Subset
    <2> QED BY <1>1, <1>2, <1>3, <1>6, <2>3
<1>7. CASE t > clock
    <2>1. Waiting(t)' \subseteq Waiting(t) \cup {d}
        BY <1>1, <1>2, <1>5, <1>7 DEF Waiting, Up
    <2>2. /\ IsFiniteSet(Waiting(t)) /\ Cardinality(Waiting(t)) \in Nat
          /\ Cardinality(Waiting(t)') \in Nat
        BY <1>4, Daemonic
    <2>3. /\ IsFiniteSet(Waiting(t) \cup {d})
          /\ Cardinality(Waiting(t) \cup {d})
                = IF d \in Waiting(t) THEN Cardinality(Waiting(t))
                  ELSE Cardinality(Waiting(t)) + 1
        BY <2>2, FS_AddElement
    <2>4. Cardinality(Waiting(t)') <= Cardinality(Waiting(t) \cup {d})
        BY <2>1, <2>3, FS_Subset
    <2>5. Cardinality(Waiting(t)') <= Cardinality(Waiting(t)) + 1
        BY <2>2, <2>3, <2>4
    <2>6. CASE \E e \in Daemons \ {d} : Up(e)
        BY <1>1, <1>2, <1>3, <1>7, <2>2, <2>5, <2>6
    <2>7. CASE ~ \E e \in Daemons \ {d} : Up(e)
        <3>1. Waiting(t) = {}
            BY <1>1, <2>7 DEF Waiting, Up, At
        <3>2. Cardinality(Waiting(t)) = 0
            BY <3>1, FS_EmptySet
        <3> QED BY <1>1, <1>2, <1>3, <1>7, <2>2, <2>5, <2>7, <3>2
    <2> QED BY <2>6, <2>7
<1> QED BY <1>2, <1>6, <1>7

\* A daemon that runs Morpheus waits for that night no more.
LEMMA NightRun == ASSUME Inv, NightInv, NEW d \in Daemons, Morpheus(d) PROVE NightInv'
<1> SUFFICES ASSUME NEW t \in Ticks
             PROVE  /\ t > clock' => nights'[t] = 0
                    /\ nights'[t] + Cardinality(Waiting(t)') <= 1 + overlaps'
    BY DEF NightInv
<1>1. /\ At(d, "night") /\ pc' = [pc EXCEPT ![d] = "due"] /\ clock' = clock
      /\ nights' = [nights EXCEPT ![now[d]] = @ + 1] /\ overlaps' = overlaps
      /\ night' = [night EXCEPT ![d] = now[d] + 1]
    BY DEF Morpheus, Goto
<1>2. /\ nights[t] \in Nat /\ overlaps \in Nat /\ clock \in Nat /\ t \in Nat
      /\ pc \in [Daemons -> {"down", "cleared", "round", "night", "due", "jobs", "run"}]
      /\ night \in [Daemons -> Ticks] /\ nights \in [Ticks -> Nat] /\ now[d] \in Nat
      /\ night[d] \in Nat
    BY DaemonAssumption DEF Inv, TypeOK, Ticks
<1>3. now[d] <= clock /\ night[d] <= now[d]
    BY <1>1 DEF Inv, Clocks
<1>4. /\ t > clock => nights[t] = 0
      /\ nights[t] + Cardinality(Waiting(t)) <= 1 + overlaps
    BY DEF NightInv
<1>5. Waiting(t) \in SUBSET Daemons /\ Waiting(t)' \in SUBSET Daemons
    BY DEF Waiting
<1>6. \A e \in Daemons \ {d} : pc'[e] = pc[e] /\ night'[e] = night[e]
    BY <1>1, <1>2
<1>7. night'[d] = now[d] + 1 /\ Up(d)
    BY <1>1, <1>2 DEF Up, At
<1>8. Waiting(t)' \subseteq Waiting(t)
    BY <1>1, <1>2, <1>3, <1>6, <1>7 DEF Waiting, Up
<1>9. /\ Cardinality(Waiting(t)') <= Cardinality(Waiting(t)) /\ IsFiniteSet(Waiting(t))
      /\ Cardinality(Waiting(t)') \in Nat /\ Cardinality(Waiting(t)) \in Nat
    BY <1>5, <1>8, Daemonic, FS_Subset
<1>10. CASE t = now[d]
    <2>1. d \in Waiting(t) /\ d \notin Waiting(t)'
        BY <1>1, <1>2, <1>3, <1>7, <1>10 DEF Waiting
    <2>2. Cardinality(Waiting(t)') # Cardinality(Waiting(t))
        BY <1>8, <1>9, <2>1, FS_Subset
    <2>3. nights'[t] = nights[t] + 1
        BY <1>1, <1>2, <1>10
    <2> QED BY <1>1, <1>2, <1>3, <1>4, <1>9, <1>10, <2>2, <2>3
<1>11. CASE t # now[d]
    <2>1. nights'[t] = nights[t]
        BY <1>1, <1>2, <1>11
    <2> QED BY <1>1, <1>2, <1>4, <1>9, <2>1
<1> QED BY <1>10, <1>11

\* Every step preserves the count of the nights.
LEMMA NightStep == Inv /\ NightInv /\ [Next]_vars => NightInv'
<1> SUFFICES ASSUME Inv, NightInv, [Next]_vars PROVE NightInv'
    OBVIOUS
<1>1. clock \in 0 .. MaxTick /\ clock' \in 0 .. MaxTick
    BY NextInv DEF Inv, TypeOK
<1>2. ASSUME UNCHANGED <<clock, night, nights, overlaps>>,
             \A d \in Daemons : Up(d)' => Up(d)
      PROVE  NightInv'
    <2>1. \A t \in Ticks : Waiting(t)' \subseteq Waiting(t)
        BY <1>2 DEF Waiting
    <2> QED BY <1>1, <1>2, <2>1, NightKept
<1>3. ASSUME NEW d \in Daemons, NEW j \in Jobs, ClaimIfDue(d, j) PROVE NightInv'
    <2>1. \A e \in Daemons : Up(e)' => Up(e)
        BY <1>3 DEF ClaimIfDue, Up, At, Goto, Inv, TypeOK
    <2> QED BY <1>2, <1>3, <2>1 DEF ClaimIfDue
<1>4. ASSUME NEW d \in Daemons,
             Look(d) \/ Round(d) \/ DueJobs(d) \/ RunJob(d) \/ WriteStatus(d)
      PROVE  NightInv'
    <2>1. \A e \in Daemons : Up(e)' => Up(e)
        BY <1>4 DEF Look, Round, DueJobs, RunJob, WriteStatus, Up, At, Goto, Inv, TypeOK
    <2> QED BY <1>2, <1>4, <2>1 DEF Look, Round, DueJobs, RunJob, WriteStatus, log
<1>5. ASSUME NEW d \in Daemons, Stop(d) \/ Crash(d) PROVE NightInv'
    <2>1. /\ UNCHANGED <<clock, nights, overlaps>> /\ pc' = [pc EXCEPT ![d] = "down"]
          /\ night' = [night EXCEPT ![d] = 0]
        BY <1>5 DEF Stop, Crash, Down, Goto, log
    <2>2. \A t \in Ticks : Waiting(t)' \subseteq Waiting(t)
        BY <2>1 DEF Waiting, Up, Inv, TypeOK
    <2> QED BY <1>1, <2>1, <2>2, NightKept
<1>6. ASSUME NEW j \in Jobs, Add(j) \/ Remove(j) \/ SetEnabled(j) \/ SkipNext(j)
      PROVE  NightInv'
    BY <1>2, <1>6
       DEF Add, Remove, SetEnabled, SkipNext, Change, Store, daemon, log, Up
<1>7. CASE Tick
    <2>1. UNCHANGED <<pc, night, nights, overlaps>> /\ clock' = clock + 1
        BY <1>7 DEF Tick, daemon, log
    <2>2. \A t \in Ticks : Waiting(t)' \subseteq Waiting(t)
        BY <1>1, <2>1, DaemonAssumption DEF Waiting, Up, Ticks
    <2> QED BY <1>1, <2>1, <2>2, NightKept
<1>8. CASE Age \/ UNCHANGED vars
    BY <1>2, <1>8 DEF Age, vars, daemon, log, Up
<1> QED BY <1>3, <1>4, <1>5, <1>6, <1>7, <1>8, NightBegin, NightRun DEF Next, Daemon

\* Morpheus runs more than once a night only if a daemon began while another was running.
THEOREM NightsArePaidFor == Spec => []NightsPaidFor
<1>1. Init => NightInv
    <2> SUFFICES ASSUME Init, NEW t \in Ticks
                 PROVE  /\ t > clock => nights[t] = 0
                        /\ nights[t] + Cardinality(Waiting(t)) <= 1 + overlaps
        BY DEF NightInv
    <2>1. Waiting(t) = {}
        BY DEF Init, Waiting, Up
    <2> QED BY <2>1, FS_EmptySet DEF Init
<1>2. Inv /\ NightInv => NightsPaidFor
    <2> SUFFICES ASSUME Inv, NightInv, NEW t \in Ticks PROVE nights[t] <= 1 + overlaps
        BY DEF NightsPaidFor
    <2>1. nights[t] + Cardinality(Waiting(t)) <= 1 + overlaps
        BY DEF NightInv
    <2>2. Cardinality(Waiting(t)) \in Nat
        <3>1. Waiting(t) \in SUBSET Daemons
            BY DEF Waiting
        <3> QED BY <3>1, Daemonic
    <2> QED BY <2>1, <2>2 DEF Inv, TypeOK
<1> QED BY <1>1, <1>2, InitInv, NextInv, NightStep, PTL DEF Spec

-----------------------------------------------------------------------------
\* The refinement.

Done == [o \in Occurrences |-> runs[o[1]][o[2]]]

\* A step that leaves the occurrences alone is a fault of the abstract store or no step.
LEMMA AsideClaims ==
    ASSUME UNCHANGED <<taken, held, runs>>, mishaps' \in {mishaps, mishaps + 1}
    PROVE  [Promise!Next]_(Promise!vars)
<1>1. Done' = Done
    BY DEF Done, Occurrences
<1>2. CASE mishaps' = mishaps
    BY <1>1, <1>2 DEF Promise!vars, Done
<1>3. CASE mishaps' = mishaps + 1
    BY <1>1, <1>3 DEF Promise!Next, Promise!Fault, Done
<1> QED BY <1>2, <1>3

\* A rewrite of the file costs one mishap at most.
LEMMA SaveCosts == ASSUME NEW jobs, Save(jobs) PROVE mishaps' \in {mishaps, mishaps + 1}
BY DEF Save, Calm, Mishap

\* Claiming a due job claims an occurrence that nobody claimed before.
LEMMA ClaimClaims ==
    ASSUME Inv, NEW d \in Daemons, NEW j \in Jobs, ClaimIfDue(d, j)
    PROVE  [Promise!Next]_(Promise!vars)
<1>1. At(d, "jobs") /\ held[d] = Free /\ runs' = runs
    BY DEF ClaimIfDue, Inv, Holders, At
<1>2. CASE UNCHANGED <<job, held, taken, pc>> /\ (Calm \/ Mishap)
    <2>1. mishaps' \in {mishaps, mishaps + 1}
        BY <1>2 DEF Calm, Mishap
    <2> QED BY <1>1, <1>2, <2>1, AsideClaims
<1>3. CASE /\ Comes(j, now[d])
           /\ Save(Armed(d, j))
           /\ held' = [held EXCEPT ![d] = <<j, job[j].next>>]
           /\ taken' = taken \cup {<<j, job[j].next>>}
    <2> DEFINE o == <<j, job[j].next>>
    <2>1. job[j].next \in Ticks
        BY DEF Inv, TypeOK
    <2>2. o \in Occurrences
        BY <2>1 DEF Occurrences
    <2>3. o \notin taken
        <3>1. ~Passed(j, job[j].next)
            BY <1>3, <2>1, DaemonAssumption DEF Comes, Passed, Stored, Ticks
        <3> QED BY <2>1, <3>1 DEF Inv, Claims
    <2>4. mishaps' \in {mishaps, mishaps + 1}
        BY <1>3, SaveCosts
    <2>5. Done' = Done
        BY <1>1 DEF Done, Occurrences
    <2>6. Promise!Claim(d, o)
        BY <1>1, <1>3, <2>3, <2>4, <2>5 DEF Promise!Claim, Done
    <2> QED BY <2>2, <2>6 DEF Promise!Next
<1> QED BY <1>2, <1>3 DEF ClaimIfDue, Calm, Mishap

\* Running a job is doing the occurrence in hand.
LEMMA RunDoes ==
    ASSUME Inv, NEW d \in Daemons, RunJob(d)
    PROVE  [Promise!Next]_(Promise!vars)
<1>1. /\ taken' = taken /\ mishaps' = mishaps /\ held[d] # Free
      /\ held' = [held EXCEPT ![d] = Free]
      /\ runs' = [runs EXCEPT ![held[d][1]][held[d][2]] = @ + 1]
    BY DEF RunJob, Inv, Holders
<1>2. PICK j \in Jobs, t \in Ticks : held[d] = <<j, t>>
    BY <1>1 DEF Inv, TypeOK, Occurrences
<1>3. /\ runs' = [runs EXCEPT ![j][t] = @ + 1] /\ runs \in [Jobs -> [Ticks -> Nat]]
      /\ held[d] \in Occurrences
    BY <1>1, <1>2 DEF Inv, TypeOK, Occurrences
<1>4. ASSUME NEW o \in Occurrences
      PROVE  Done'[o] = [Done EXCEPT ![held[d]] = @ + 1][o]
    <2>1. PICK k \in Jobs, u \in Ticks : o = <<k, u>>
        BY DEF Occurrences
    <2>2. o[1] = k /\ o[2] = u
        BY <2>1
    <2>3. Done[o] = runs[k][u] /\ Done'[o] = runs'[k][u]
        BY <2>2 DEF Done, Occurrences
    <2>4. o = held[d] <=> k = j /\ u = t
        BY <1>2, <2>1
    <2>5. runs'[k][u] = IF k = j /\ u = t THEN runs[k][u] + 1 ELSE runs[k][u]
        BY <1>3
    <2>6. [Done EXCEPT ![held[d]] = @ + 1][o]
             = IF o = held[d] THEN Done[o] + 1 ELSE Done[o]
        BY DEF Done
    <2> QED BY <2>3, <2>4, <2>5, <2>6
<1>5. Done' = [Done EXCEPT ![held[d]] = @ + 1]
    <2>1. /\ Done' = [o \in Occurrences |-> Done'[o]]
          /\ [Done EXCEPT ![held[d]] = @ + 1]
                = [o \in Occurrences |-> [Done EXCEPT ![held[d]] = @ + 1][o]]
        BY DEF Done, Occurrences
    <2> QED BY <1>4, <2>1
<1>6. Promise!Do(d)
    BY <1>1, <1>5 DEF Promise!Do, Done
<1> QED BY <1>6 DEF Promise!Next

\* A daemon that goes down drops the occurrence in its hand, if it has one.
LEMMA DownDrops ==
    ASSUME Inv, NEW d \in Daemons, Stop(d) \/ Crash(d)
    PROVE  [Promise!Next]_(Promise!vars)
<1>1. /\ taken' = taken /\ runs' = runs /\ mishaps' = mishaps + 1
      /\ held' = [held EXCEPT ![d] = Free]
    BY DEF Stop, Crash, Down, Mishap, log
<1>2. CASE held[d] = Free
    <2>1. held' = held
        BY <1>1, <1>2 DEF Inv, TypeOK
    <2> QED BY <1>1, <2>1, AsideClaims
<1>3. CASE held[d] # Free
    <2>1. Done' = Done
        BY <1>1 DEF Done, Occurrences
    <2>2. Promise!Drop(d)
        BY <1>1, <1>3, <2>1 DEF Promise!Drop, Done
    <2> QED BY <2>2 DEF Promise!Next
<1> QED BY <1>2, <1>3

\* The rest touches no occurrence.
LEMMA RestAside ==
    ASSUME Inv,
           \/ \E d \in Daemons :
                \/ Look(d) \/ Begin(d) \/ Round(d) \/ Morpheus(d) \/ DueJobs(d)
                \/ WriteStatus(d)
           \/ \E j \in Jobs : Add(j) \/ Remove(j) \/ SetEnabled(j) \/ SkipNext(j)
           \/ Tick \/ Age \/ UNCHANGED vars
    PROVE  UNCHANGED <<taken, held, runs>> /\ mishaps' \in {mishaps, mishaps + 1}
<1>1. CASE \E d \in Daemons :
              \/ Look(d) \/ Begin(d) \/ Round(d) \/ Morpheus(d) \/ DueJobs(d) \/ WriteStatus(d)
    BY <1>1 DEF Look, Begin, Round, Morpheus, DueJobs, WriteStatus, log, Calm, Mishap
<1>2. CASE \E j \in Jobs : Add(j) \/ Remove(j) \/ SetEnabled(j) \/ SkipNext(j)
    BY <1>2, SaveCosts
       DEF Add, Remove, SetEnabled, SkipNext, Change, Store, daemon, log
<1>3. CASE Tick \/ Age \/ UNCHANGED vars
    BY <1>3 DEF Tick, Age, vars, daemon, log
<1> QED BY <1>1, <1>2, <1>3

\* The store and its daemons implement the abstract store of claimable work: however many
\* daemons get past the heartbeat, an occurrence is claimed once, run by its claimer, and
\* lost only with it.
THEOREM ClaimsImplementAtMostOnce == Spec => KeepsClaims
<1>1. Init => Promise!Init
    <2> SUFFICES ASSUME Init PROVE Promise!Init
        OBVIOUS
    <2>1. ASSUME NEW o \in Occurrences PROVE runs[o[1]][o[2]] = 0
        <3>1. PICK j \in Jobs, t \in Ticks : o = <<j, t>>
            BY DEF Occurrences
        <3> QED BY <3>1 DEF Init
    <2> QED BY <2>1 DEF Init, Promise!Init
<1>2. Inv /\ [Next]_vars => [Promise!Next]_(Promise!vars)
    <2> SUFFICES ASSUME Inv, [Next]_vars PROVE [Promise!Next]_(Promise!vars)
        OBVIOUS
    <2>1. CASE \E d \in Daemons, j \in Jobs : ClaimIfDue(d, j)
        BY <2>1, ClaimClaims
    <2>2. CASE \E d \in Daemons : RunJob(d)
        BY <2>2, RunDoes
    <2>3. CASE \E d \in Daemons : Stop(d) \/ Crash(d)
        BY <2>3, DownDrops
    <2>4. CASE \/ \E d \in Daemons :
                    \/ Look(d) \/ Begin(d) \/ Round(d) \/ Morpheus(d) \/ DueJobs(d)
                    \/ WriteStatus(d)
               \/ \E j \in Jobs : Add(j) \/ Remove(j) \/ SetEnabled(j) \/ SkipNext(j)
               \/ Tick \/ Age \/ UNCHANGED vars
        BY <2>4, RestAside, AsideClaims
    <2> QED BY <2>1, <2>2, <2>3, <2>4 DEF Next, Daemon
<1> QED BY <1>1, <1>2, InitInv, NextInv, PTL DEF Spec, KeepsClaims, Promise!Spec
=============================================================================
