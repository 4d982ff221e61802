----------------------- MODULE BackgroundBrokerProofs -----------------------
(***************************************************************************)
(* Theorems about BackgroundBroker, for any number of jobs, workers,       *)
(* reports and failures: the types and the slots, that each job has one    *)
(* legal life, and that what a waiter reads is final.                      *)
(***************************************************************************)
EXTENDS BackgroundBroker, FiniteSetTheorems, SequenceTheorems, TLAPS

\* The types, without the bound of the semaphore.
Typed ==
    /\ events \in [Jobs -> Seq(Kind)]
    /\ completed \subseteq Jobs /\ refused \subseteq Jobs
    /\ queue \in Seq(Jobs \cup {Stop}) /\ slots \in Nat
    /\ pc \in [Workers -> Label] /\ job \in [Workers -> Jobs \cup {Stop}]
    /\ closed \in BOOLEAN /\ stopSent \in BOOLEAN /\ unsent \in 0 .. Size
    /\ mishaps \in 0 .. MaxMishaps

Born(j) == events[j] # <<>>
Last(j) == events[j][Len(events[j])]
Reached(j, kinds) == Born(j) /\ Last(j) \in kinds

\* A worker has a job in its hands from Take until it rests, and alone.
Hands ==
    /\ \A w \in Workers : job[w] = Stop <=> pc[w] \in {"idle", "stopped"}
    /\ \A v, w \in Workers : job[v] = job[w] /\ job[w] # Stop => v = w

\* A job is queued once, and not while a worker has it.
Line ==
    \A i \in DOMAIN queue : queue[i] # Stop =>
        /\ \A k \in DOMAIN queue : queue[i] = queue[k] => i = k
        /\ \A w \in Workers : job[w] # queue[i]

\* How far a job has come by the place where it is.
Pending == {"queued", "cancelled"}
Active == {"running", "progress"}
Broken == {"running", "succeeded", "failed"}

Progressed ==
    /\ \A i \in DOMAIN queue : queue[i] # Stop => Reached(queue[i], Pending)
    /\ \A j \in refused : Born(j)
    /\ \A w \in Workers :
          /\ pc[w] \in {"taken", "check", "start"} => Reached(job[w], Pending)
          /\ pc[w] \in {"task", "returned", "raised", "dead"} => Reached(job[w], Active)
          /\ pc[w] = "unwritten" => Reached(job[w], Broken)

\* A job whose waiters are woken has an outcome that stays, or has lost its worker.
Answered ==
    \A j \in completed :
        \/ Reached(j, Outcome) /\ \A w \in Workers : job[w] = j => ~At(w, "unwritten")
        \/ \E w \in Workers : At(w, "dead") /\ job[w] = j

Inv == Typed /\ Hands /\ Line /\ Progressed /\ Answered /\ LegalHistory

-----------------------------------------------------------------------------
\* What an event does to a history.

\* An event that may follow makes a legal history longer.
LEMMA Grown ==
    ASSUME NEW s \in Seq(Kind), NEW k \in Kind, Legal(s), s = <<>> \/ Follows(s[Len(s)], k)
    PROVE  /\ Append(s, k) \in Seq(Kind) /\ Append(s, k) # <<>>
           /\ Append(s, k)[Len(Append(s, k))] = k
           /\ Legal(Append(s, k))
<1> DEFINE t == Append(s, k)
<1>1. /\ t \in Seq(Kind) /\ t # <<>> /\ Len(t) = Len(s) + 1 /\ Len(s) \in Nat
      /\ \A i \in 1 .. Len(s) : t[i] = s[i]
      /\ t[Len(s) + 1] = k
    BY AppendProperties, LenProperties
<1>2. s = <<>> => Len(s) = 0
    BY EmptySeq
<1>3. ASSUME NEW i \in 1 .. Len(t) - 1 PROVE Follows(t[i], t[i + 1])
    <2>1. CASE i = Len(s)
        <3>1. s # <<>>
            BY <2>1, <1>1, <1>2, <1>3
        <3> QED BY <3>1, <2>1, <1>1, <1>3
    <2>2. CASE i # Len(s)
        <3>1. i \in 1 .. Len(s) - 1 /\ i \in 1 .. Len(s) /\ i + 1 \in 1 .. Len(s)
            BY <2>2, <1>1, <1>3
        <3>2. Follows(s[i], s[i + 1])
            BY <3>1 DEF Legal
        <3> QED BY <3>1, <3>2, <1>1
    <2> QED BY <2>1, <2>2
<1> QED BY <1>1, <1>3 DEF Legal

\* One job's history grows, the others stay.
LEMMA Event ==
    ASSUME Inv, NEW j \in Jobs, NEW k \in Kind, ~Born(j) \/ Follows(Last(j), k), Happen(j, k)
    PROVE  /\ events' \in [Jobs -> Seq(Kind)] /\ LegalHistory'
           /\ Born(j)' /\ Last(j)' = k
           /\ \A i \in Jobs \ {j} : events'[i] = events[i]
<1>1. /\ events \in [Jobs -> Seq(Kind)] /\ Legal(events[j])
      /\ events' = [events EXCEPT ![j] = Append(events[j], k)]
    BY DEF Happen, Inv, Typed, LegalHistory
<1>2. /\ events'[j] \in Seq(Kind) /\ events'[j] # <<>> /\ events'[j][Len(events'[j])] = k
      /\ Legal(events'[j])
    BY <1>1, Grown DEF Born, Last
<1>3. events' \in [Jobs -> Seq(Kind)] /\ \A i \in Jobs \ {j} : events'[i] = events[i]
    BY <1>1, <1>2
<1>4. LegalHistory'
    BY <1>2, <1>3 DEF LegalHistory, Inv
<1> QED BY <1>2, <1>3, <1>4 DEF Born, Last

\* The events that may follow one another.
LEMMA Order ==
    /\ \A k \in {"running", "cancelled"} : Follows("queued", k)
    /\ \A k \in {"running", "progress"}, o \in {"progress", "succeeded", "failed"} : Follows(k, o)
    /\ \A k \in {"running", "succeeded", "failed"} : Follows(k, "failed")
<1>1. /\ Rank("queued") = 1 /\ Rank("running") = 2 /\ Rank("progress") = 3
      /\ Rank("succeeded") = 4 /\ Rank("failed") = 5 /\ Rank("cancelled") = 6
    BY Zenon DEF Rank
<1> QED BY <1>1 DEF Follows

\* A job of which only the submission is known.
LEMMA QueuedLast == ASSUME Typed, NEW j \in Jobs, Queued(j) PROVE Born(j) /\ Last(j) = "queued"
BY DEF Queued, Born, Last, Typed

\* A job that was last cancelled is cancelled.
LEMMA CancelledLast ==
    ASSUME Typed, NEW j \in Jobs, Born(j), Last(j) = "cancelled" PROVE Cancelled(j)
<1>1. events[j] \in Seq(Kind) /\ events[j] # <<>>
    BY DEF Typed, Born
<1>2. Len(events[j]) \in DOMAIN events[j]
    BY <1>1, EmptySeq, LenProperties
<1> QED BY <1>2 DEF Cancelled, Last

-----------------------------------------------------------------------------
\* The invariant.

\* The initial state satisfies the invariant.
LEMMA InitInv == Init => Inv
<1> SUFFICES ASSUME Init PROVE Inv
    OBVIOUS
<1>1. Size \in Nat
    BY BrokerAssumption, FS_CardinalityType DEF Size
<1>2. <<>> \in Seq(Kind) /\ queue = <<>> /\ queue \in Seq(Jobs \cup {Stop}) /\ DOMAIN queue = {}
    BY EmptySeq, LenProperties DEF Init
<1>3. Typed
    <2>1. events \in [Jobs -> Seq(Kind)]
        BY <1>2 DEF Init
    <2>2. pc \in [Workers -> Label] /\ job \in [Workers -> Jobs \cup {Stop}]
        BY DEF Init, Label
    <2>3. slots \in Nat /\ unsent \in 0 .. Size /\ mishaps \in 0 .. MaxMishaps
        BY <1>1, BrokerAssumption DEF Init
    <2> QED BY <2>1, <2>2, <2>3, <1>2 DEF Init, Typed
<1>4. LegalHistory
    BY <1>2 DEF Init, LegalHistory, Legal
<1> QED BY <1>2, <1>3, <1>4 DEF Init, Inv, Hands, Line, Progressed, Answered

\* A step that moves neither jobs nor workers preserves it.
LEMMA QuietInv ==
    ASSUME Inv, UNCHANGED <<events, completed, refused, queue, slots, pc, job>>,
           closed' \in BOOLEAN, stopSent' \in BOOLEAN, unsent' \in 0 .. Size,
           mishaps' \in 0 .. MaxMishaps
    PROVE  Inv'
BY DEF Inv, Typed, Hands, Line, Progressed, Answered, LegalHistory, Reached, Born, Last, At

\* What is cancelled is cancelled last.
LEMMA CancelledEnds ==
    ASSUME Inv, NEW j \in Jobs, Cancelled(j) PROVE Reached(j, {"cancelled"})
<1>1. PICK i \in DOMAIN events[j] : events[j][i] = "cancelled"
    BY DEF Cancelled
<1>2. events[j] \in Seq(Kind) /\ Legal(events[j])
    BY DEF Inv, Typed, LegalHistory
<1>3. Len(events[j]) \in Nat /\ DOMAIN events[j] = 1 .. Len(events[j])
    BY <1>2, LenProperties
<1>4. ~(i \in 1 .. Len(events[j]) - 1)
    BY <1>1, <1>2 DEF Legal, Follows
<1>5. i = Len(events[j]) /\ events[j] # <<>>
    BY <1>1, <1>3, <1>4, EmptySeq
<1> QED BY <1>1, <1>5 DEF Reached, Born, Last

\* A submission: the job was nowhere before.
LEMMA SubmitInv == ASSUME Inv, NEW j \in Jobs, Submit(j) PROVE Inv'
<1> USE DEF Inv
<1>1. /\ events' \in [Jobs -> Seq(Kind)] /\ LegalHistory' /\ Born(j)' /\ Last(j)' = "queued"
      /\ \A i \in Jobs \ {j} : events'[i] = events[i]
    BY Event DEF Submit, Born, Kind
<1>2. ~Born(j) /\ slots > 0 /\ slots' = slots - 1
      /\ UNCHANGED <<completed, pc, job, closed, stopSent, unsent>>
      /\ j \in Jobs
    BY DEF Submit, Born, work, door
<1>3. /\ j \notin completed
      /\ \A w \in Workers : job[w] # j
      /\ \A i \in DOMAIN queue : queue[i] # j /\ queue[i] \in Jobs \cup {Stop}
    <2>1. \A w \in Workers : job[w] # j
        <3> SUFFICES ASSUME NEW w \in Workers, job[w] = j PROVE FALSE
            OBVIOUS
        <3>1. pc[w] \in Label \ {"idle", "stopped"}
            BY BrokerAssumption DEF Hands, Typed
        <3> QED BY <3>1, <1>2 DEF Progressed, Reached, Label
    <2>2. \A i \in DOMAIN queue : queue[i] \in Jobs \cup {Stop}
        BY LenProperties, ElementOfSeq DEF Typed
    <2>3. \A i \in DOMAIN queue : queue[i] # j
        BY <1>2, BrokerAssumption DEF Progressed, Reached
    <2>4. j \notin completed
        BY <2>1, <1>2 DEF Answered, Reached
    <2> QED BY <2>1, <2>2, <2>3, <2>4
<1>4. \/ queue' = Append(queue, j) /\ refused' = refused /\ mishaps' = mishaps
      \/ queue' = queue /\ refused' = refused \cup {j} /\ mishaps' \in 0 .. MaxMishaps
    BY BrokerAssumption DEF Submit, Written, Unwritten, Mishap, Typed
<1>5. queue' = Append(queue, j) =>
      /\ queue' \in Seq(Jobs \cup {Stop}) /\ DOMAIN queue' = 1 .. Len(queue) + 1
      /\ DOMAIN queue = 1 .. Len(queue) /\ Len(queue) \in Nat
      /\ \A i \in 1 .. Len(queue) : queue'[i] = queue[i]
      /\ queue'[Len(queue) + 1] = j
    BY AppendProperties, LenProperties DEF Typed
<1>6. Typed'
    BY <1>1, <1>2, <1>4, <1>5 DEF Typed
<1>7. Hands'
    BY <1>2 DEF Hands
<1>8. Line'
    BY <1>2, <1>3, <1>4, <1>5 DEF Line
<1>9. Progressed'
    <2>1. \A k \in Jobs \ {j} : Reached(k, Pending) => Reached(k, Pending)'
        BY <1>1 DEF Reached, Born, Last
    <2>2. Reached(j, Pending)'
        BY <1>1 DEF Reached, Born, Last, Pending
    <2>3. \A i \in DOMAIN queue' : queue'[i] # Stop =>
              queue'[i] = j \/ (queue'[i] \in Jobs \ {j} /\ Reached(queue'[i], Pending))
        BY <1>3, <1>4, <1>5 DEF Progressed
    <2>4. \A i \in refused' : Born(i)'
        BY <1>1, <1>2, <1>4 DEF Progressed, Born, Typed
    <2>5. \A w \in Workers : pc[w] \notin {"idle", "stopped"} => job[w] \in Jobs \ {j}
        BY <1>3, BrokerAssumption DEF Hands, Typed
    <2>6. \A w \in Workers :
          /\ pc[w] \in {"taken", "check", "start"} => Reached(job[w], Pending)'
          /\ pc[w] \in {"task", "returned", "raised", "dead"} => Reached(job[w], Active)'
          /\ pc[w] = "unwritten" => Reached(job[w], Broken)'
        BY <1>1, <1>2, <2>5 DEF Progressed, Reached, Born, Last
    <2>7. \A i \in DOMAIN queue' : queue'[i] # Stop => Reached(queue[i], Pending)'
        BY <2>1, <2>2, <2>3 DEF Reached, Born, Last
    <2> QED BY <1>2, <2>4, <2>6, <2>7 DEF Progressed
<1>10. Answered'
    BY <1>1, <1>2, <1>3 DEF Answered, At, Typed, Reached, Born, Last
<1> QED BY <1>1, <1>6, <1>7, <1>8, <1>9, <1>10

\* Cancellations: of jobs of which nothing but the submission is known.
LEMMA CancelInv ==
    ASSUME Inv, NEW js \in SUBSET Jobs, \A j \in js : Queued(j),
           events' \in [Jobs -> Seq(Kind)],
           \A j \in Jobs : events'[j] = IF j \in js THEN Append(events[j], "cancelled")
                                        ELSE events[j],
           completed \subseteq completed', completed' \subseteq completed \cup js,
           closed' \in BOOLEAN, stopSent' \in BOOLEAN, unsent' \in 0 .. Size,
           mishaps' \in 0 .. MaxMishaps, UNCHANGED <<refused, queue, slots, pc, job>>
    PROVE  Inv'
<1> USE DEF Inv
<1>1. \A j \in js : Born(j) /\ Last(j) = "queued"
    BY QueuedLast
<1>2. \A j \in js : Born(j)' /\ Last(j)' = "cancelled" /\ Legal(events'[j])
    <2> TAKE j \in js
    <2>1. events[j] \in Seq(Kind) /\ Legal(events[j]) /\ Follows(events[j][Len(events[j])], "cancelled")
        BY <1>1, Order DEF Typed, LegalHistory, Last
    <2>2. events'[j] = Append(events[j], "cancelled") /\ "cancelled" \in Kind
        BY DEF Kind, Outcome
    <2> QED BY <2>1, <2>2, Grown DEF Born, Last
<1>3. \A j \in Jobs \ js : \A ks : Reached(j, ks)' <=> Reached(j, ks)
    BY DEF Reached, Born, Last
<1>4. LegalHistory'
    BY <1>2 DEF LegalHistory
<1>5. Typed'
    BY DEF Typed
<1>6. Hands' /\ Line'
    BY DEF Hands, Line
<1>7. \A j \in js : j \notin completed
                    /\ \A w \in Workers : job[w] = j => pc[w] \in {"taken", "check", "start"}
    <2> TAKE j \in js
    <2>1. \A w \in Workers : job[w] = j => pc[w] \in {"taken", "check", "start"}
        <3> SUFFICES ASSUME NEW w \in Workers, job[w] = j
                     PROVE  pc[w] \in {"taken", "check", "start"}
            OBVIOUS
        <3>1. pc[w] \in Label \ {"idle", "stopped"}
            BY BrokerAssumption DEF Hands, Typed
        <3> QED BY <3>1, <1>1 DEF Progressed, Reached, Label, Active, Broken
    <2>2. j \notin completed
        BY <2>1, <1>1 DEF Answered, Reached, Outcome, At, Active
    <2> QED BY <2>1, <2>2
<1>8. Progressed'
    <2>1. \A i \in DOMAIN queue : queue[i] # Stop => queue[i] \in Jobs
        BY LenProperties, ElementOfSeq DEF Typed
    <2>2. \A j \in Jobs : Reached(j, Pending) => Reached(j, Pending)'
        BY <1>2, <1>3 DEF Reached, Pending
    <2>3. \A j \in refused : Born(j)'
        BY <1>2 DEF Progressed, Typed, Born
    <2>4. \A w \in Workers : pc[w] \notin {"idle", "stopped"} => job[w] \in Jobs
        BY BrokerAssumption DEF Hands, Typed
    <2> QED BY <1>3, <1>7, <2>1, <2>2, <2>3, <2>4 DEF Progressed
<1>9. Answered'
    <2>1. \A j \in js : Reached(j, Outcome)' /\ \A w \in Workers : job[w] = j => ~At(w, "unwritten")
        BY <1>2, <1>7 DEF Reached, Outcome, At
    <2> QED BY <1>3, <1>7, <2>1 DEF Answered, At, Typed
<1> QED BY <1>4, <1>5, <1>6, <1>8, <1>9

\* The callers' other steps.
LEMMA CallerInv ==
    ASSUME Inv, (\E j \in Jobs : Cancel(j)) \/ Close \/ CloseAgain PROVE Inv'
<1>s. Size \in Nat
    BY BrokerAssumption, FS_CardinalityType DEF Size
<1>1. ASSUME NEW j \in Jobs, Cancel(j) PROVE Inv'
    <2>1. /\ events' \in [Jobs -> Seq(Kind)]
          /\ events' = [events EXCEPT ![j] = Append(events[j], "cancelled")]
        <3>1. Inv /\ Happen(j, "cancelled") /\ "cancelled" \in Kind /\ Follows(Last(j), "cancelled")
            BY <1>1, QueuedLast, Order DEF Cancel, Kind, Outcome, Inv
        <3> QED BY <3>1, Event DEF Happen
    <2>2. mishaps' \in 0 .. MaxMishaps /\ completed \subseteq completed'
          /\ completed' \subseteq completed \cup {j}
        BY <1>1, BrokerAssumption DEF Cancel, Written, Unwritten, Wake, Mishap, Inv, Typed
    <2>3. \A i \in Jobs : events'[i] = IF i \in {j} THEN Append(events[i], "cancelled")
                                       ELSE events[i]
        BY <2>1 DEF Inv, Typed
    <2> QED BY <1>1, <2>1, <2>2, <2>3, CancelInv DEF Cancel, work, door, Inv, Typed
<1>2. ASSUME Close PROVE Inv'
    <2> DEFINE waiting == {j \in Jobs : Queued(j)}
    <2>0. /\ closed' \in BOOLEAN /\ stopSent' \in BOOLEAN /\ unsent' \in 0 .. Size
          /\ UNCHANGED <<refused, queue, slots, pc, job>>
          /\ mishaps' \in 0 .. MaxMishaps
        <3>1. \/ UNCHANGED <<history, mishaps>> /\ StopAll
              \/ StopAll /\ UNCHANGED <<refused, mishaps>>
              \/ UNCHANGED <<refused, stopSent, unsent>> /\ Mishap
            BY <1>2 DEF Close
        <3>2. closed' = TRUE /\ UNCHANGED <<queue, slots, pc, job>>
            BY <1>2 DEF Close, work
        <3>3. mishaps' \in 0 .. MaxMishaps
            BY <3>1, BrokerAssumption DEF Mishap, Inv, Typed
        <3>4. stopSent' \in BOOLEAN /\ unsent' \in 0 .. Size
            <4>1. CASE StopAll
                BY <4>1, <1>s DEF StopAll
            <4>2. CASE UNCHANGED <<stopSent, unsent>>
                BY <4>2 DEF Inv, Typed
            <4> QED BY <3>1, <4>1, <4>2
        <3>5. refused' = refused
            BY <3>1 DEF history
        <3> QED BY <3>2, <3>3, <3>4, <3>5
    <2>1. CASE UNCHANGED history
        BY <2>0, <2>1, QuietInv DEF history
    <2>2. CASE \E js \in SUBSET waiting : CancelAll(js) /\ completed \subseteq completed'
                                          /\ completed' \subseteq completed \cup js
        <3>1. PICK js \in SUBSET waiting : CancelAll(js) /\ completed \subseteq completed'
                                           /\ completed' \subseteq completed \cup js
            BY <2>2
        <3>2. \A j \in Jobs : events'[j] = IF j \in js THEN Append(events[j], "cancelled")
                                           ELSE events[j]
            BY <3>1 DEF CancelAll
        <3>3. \A j \in Jobs : events'[j] \in Seq(Kind)
            <4>1. \A j \in Jobs : events[j] \in Seq(Kind)
                BY DEF Inv, Typed
            <4>2. "cancelled" \in Kind
                BY DEF Kind, Outcome
            <4> TAKE j \in Jobs
            <4>3. Append(events[j], "cancelled") \in Seq(Kind)
                BY <4>1, <4>2, AppendProperties
            <4> QED BY <3>2, <4>1, <4>3
        <3>4. events' \in [Jobs -> Seq(Kind)]
            BY <3>1, <3>3 DEF CancelAll
        <3> QED BY <2>0, <3>1, <3>2, <3>4, CancelInv
    <2>3. \/ UNCHANGED history
          \/ CancelAll(waiting) /\ completed' = completed \cup waiting
          \/ \E done \in SUBSET waiting : \E j \in waiting \ done :
                CancelAll(done \cup {j}) /\ completed' = completed \cup done
        BY <1>2 DEF Close
    <2>4. CASE \E done \in SUBSET waiting : \E j \in waiting \ done :
                  CancelAll(done \cup {j}) /\ completed' = completed \cup done
        <3>0. PICK done \in SUBSET waiting : \E j \in waiting \ done :
                  CancelAll(done \cup {j}) /\ completed' = completed \cup done
            BY <2>4
        <3>1. PICK j \in waiting \ done :
                  CancelAll(done \cup {j}) /\ completed' = completed \cup done
            BY <3>0
        <3>2. done \cup {j} \in SUBSET waiting /\ completed \subseteq completed'
              /\ completed' \subseteq completed \cup (done \cup {j})
            BY <3>1
        <3> QED BY <3>1, <3>2, <2>2
    <2> QED BY <2>1, <2>2, <2>3, <2>4
<1>3. ASSUME CloseAgain PROVE Inv'
    BY <1>3, <1>s, QuietInv DEF CloseAgain, StopAll, history, work, Inv, Typed
<1> QED BY <1>1, <1>2, <1>3

\* A step of a worker with the job in its hands.
LEMMA OwnJobInv ==
    ASSUME Inv, NEW w \in Workers, NEW j \in Jobs, job[w] = j,
           NEW l \in Label \ {"taken", "stopped"}, pc' = [pc EXCEPT ![w] = l],
           IF l = "idle" THEN job' = [job EXCEPT ![w] = Stop] ELSE job' = job,
           events' \in [Jobs -> Seq(Kind)], LegalHistory', Born(j)',
           \A i \in Jobs \ {j} : events'[i] = events[i],
           l \in {"check", "start"} => Reached(j, Pending)',
           l \in {"task", "returned", "raised", "dead"} => Reached(j, Active)',
           l = "unwritten" => Reached(j, Broken)',
           completed' \in {completed, completed \cup {j}},
           j \in completed' => (Reached(j, Outcome)' /\ l # "unwritten") \/ l = "dead",
           slots' \in Nat, mishaps' \in 0 .. MaxMishaps,
           UNCHANGED <<refused, queue, closed, stopSent, unsent>>
    PROVE  Inv'
<1> USE DEF Inv
<1>0. Stop \notin Jobs /\ pc \in [Workers -> Label] /\ job \in [Workers -> Jobs \cup {Stop}]
      /\ completed \subseteq Jobs
    BY BrokerAssumption DEF Typed
<1>1. Typed'
    <2>1. pc' \in [Workers -> Label] /\ job' \in [Workers -> Jobs \cup {Stop}]
          /\ completed' \subseteq Jobs
        BY <1>0
    <2> QED BY <2>1 DEF Typed
<1>2. \A v \in Workers \ {w} : job[v] # j /\ pc'[v] = pc[v] /\ job'[v] = job[v]
    BY <1>0 DEF Hands
<1>3. pc'[w] = l /\ job'[w] = IF l = "idle" THEN Stop ELSE j
    BY <1>0
<1>4. Hands'
    BY <1>0, <1>2, <1>3 DEF Hands
<1>5. Line'
    BY <1>0, <1>2, <1>3 DEF Line
<1>6. Progressed'
    <2>1. \A i \in DOMAIN queue : queue[i] # Stop => queue[i] \in Jobs \ {j}
        BY <1>0, LenProperties, ElementOfSeq DEF Line, Typed
    <2>2. \A i \in DOMAIN queue' : queue'[i] # Stop => Reached(queue[i], Pending)'
        BY <2>1 DEF Progressed, Reached, Born, Last
    <2>3. \A i \in refused' : Born(i)'
        BY DEF Progressed, Born, Typed
    <2>4. \A v \in Workers \ {w} :
              pc[v] \in Label \ {"idle", "stopped"} => job[v] \in Jobs \ {j}
        BY <1>0, <1>2 DEF Hands
    <2>5. \A v \in Workers \ {w} :
          /\ pc[v] \in {"taken", "check", "start"} => events'[job[v]] = events[job[v]]
          /\ pc[v] \in {"task", "returned", "raised", "dead"} => events'[job[v]] = events[job[v]]
          /\ pc[v] = "unwritten" => events'[job[v]] = events[job[v]]
        BY <2>4 DEF Label
    <2>6. \A v \in Workers \ {w} :
          /\ pc'[v] \in {"taken", "check", "start"} => Reached(job[v], Pending)'
          /\ pc'[v] \in {"task", "returned", "raised", "dead"} => Reached(job[v], Active)'
          /\ pc'[v] = "unwritten" => Reached(job[v], Broken)'
        BY <1>2, <2>5 DEF Progressed, Reached, Born, Last
    <2>7. /\ pc'[w] \in {"taken", "check", "start"} => Reached(job[w], Pending)'
          /\ pc'[w] \in {"task", "returned", "raised", "dead"} => Reached(job[w], Active)'
          /\ pc'[w] = "unwritten" => Reached(job[w], Broken)'
        BY <1>3 DEF Reached, Born, Last
    <2> QED BY <2>2, <2>3, <2>6, <2>7 DEF Progressed
<1>7. Answered'
    <2> SUFFICES ASSUME NEW i \in completed'
                 PROVE  \/ /\ Reached(i, Outcome)'
                           /\ \A v \in Workers : job'[v] = i => ~At(v, "unwritten")'
                        \/ \E v \in Workers : At(v, "dead")' /\ job'[v] = i
        BY DEF Answered
    <2>1. CASE i = j
        BY <2>1, <1>0, <1>2, <1>3 DEF At
    <2>2. CASE i # j
        <3>1. i \in completed /\ i \in Jobs /\ events'[i] = events[i]
            BY <2>2, <1>0
        <3>2. CASE Reached(i, Outcome) /\ \A v \in Workers : job[v] = i => ~At(v, "unwritten")
            BY <3>1, <3>2, <2>2, <1>0, <1>2, <1>3 DEF Reached, Born, Last, At
        <3>3. CASE \E v \in Workers : At(v, "dead") /\ job[v] = i
            BY <3>3, <2>2, <1>2 DEF At
        <3> QED BY <3>1, <3>2, <3>3 DEF Answered
    <2> QED BY <2>1, <2>2
<1> QED BY <1>1, <1>4, <1>5, <1>6, <1>7

\* What the job in a worker's hands may tell.
LEMMA InHand ==
    ASSUME Inv, NEW w \in Workers, pc[w] \notin {"idle", "stopped"}
    PROVE  \E j \in Jobs :
           /\ job[w] = j /\ Legal(events[j])
           /\ pc[w] \in {"taken", "check", "start"} => Reached(j, Pending)
           /\ pc[w] \in {"task", "returned", "raised"} => Reached(j, Active)
           /\ pc[w] = "unwritten" => Reached(j, Broken)
           /\ j \in completed => pc[w] = "dead" \/ (Reached(j, Outcome) /\ pc[w] # "unwritten")
<1>1. job[w] \in Jobs
    BY DEF Inv, Typed, Hands
<1>2. \A v \in Workers : job[v] = job[w] => v = w
    BY <1>1, BrokerAssumption DEF Inv, Hands
<1>3. \A j \in Jobs : job[w] = j =>
           /\ Legal(events[j])
           /\ pc[w] \in {"taken", "check", "start"} => Reached(j, Pending)
           /\ pc[w] \in {"task", "returned", "raised"} => Reached(j, Active)
           /\ pc[w] = "unwritten" => Reached(j, Broken)
           /\ j \in completed => pc[w] = "dead" \/ (Reached(j, Outcome) /\ pc[w] # "unwritten")
    BY <1>2 DEF Inv, Progressed, Answered, LegalHistory, At
<1> QED BY <1>1, <1>3

\* The steps of a worker that writes an event.
LEMMA WritingInv ==
    ASSUME Inv, NEW w \in Workers, Start(w) \/ Progress(w) \/ Finish(w) \/ Fail(w) PROVE Inv'
<1>j. PICK j \in Jobs :
           /\ job[w] = j /\ Legal(events[j])
           /\ pc[w] \in {"taken", "check", "start"} => Reached(j, Pending)
           /\ pc[w] \in {"task", "returned", "raised"} => Reached(j, Active)
           /\ pc[w] = "unwritten" => Reached(j, Broken)
           /\ j \in completed => pc[w] = "dead" \/ (Reached(j, Outcome) /\ pc[w] # "unwritten")
    BY InHand DEF Start, Progress, Finish, Fail, At
<1>0. /\ Inv /\ mishaps \in 0 .. MaxMishaps /\ MaxMishaps \in Nat
      /\ slots \in Nat /\ events \in [Jobs -> Seq(Kind)] /\ LegalHistory
      /\ pc \in [Workers -> Label]
    BY <1>j, BrokerAssumption
       DEF Start, Progress, Finish, Fail, At, Inv, Typed
<1>a. Written(j) \/ Unwritten => mishaps' \in 0 .. MaxMishaps
    BY <1>j, <1>0 DEF Written, Unwritten, Mishap
<1>1. CASE Start(w)
    <2>1. /\ pc[w] = "start" /\ slots' = slots
          /\ UNCHANGED <<refused, queue, closed, stopSent, unsent>>
        BY <1>j, <1>1 DEF Start, At, door
    <2>2. Reached(j, Pending)
        BY <2>1, <1>j
    <2>3. CASE Cancelled(j) /\ Wake(j) /\ Rest(w) /\ UNCHANGED <<events, receipt, mishaps>>
        <3>1. Reached(j, {"cancelled"})
            BY <1>j, <2>3, <1>0, CancelledEnds
        <3>2. Reached(j, Outcome)' /\ Born(j)' /\ LegalHistory' /\ events' = events
            BY <1>j, <3>1, <2>3, <1>0 DEF Reached, Born, Last, Outcome, LegalHistory
        <3>3. pc' = [pc EXCEPT ![w] = "idle"] /\ job' = [job EXCEPT ![w] = Stop]
              /\ completed' = completed \cup {j} /\ mishaps' = mishaps
            BY <1>j, <2>3 DEF Rest, Goto, Wake
        <3> QED BY <1>j, <1>0, <2>1, <3>2, <3>3, OwnJobInv DEF Label
    <2>4. CASE /\ ~Cancelled(j) /\ Happen(j, "running") /\ UNCHANGED completed
               /\ \/ Written(j) /\ Carry(w, "task")
                  \/ Unwritten /\ Carry(w, "unwritten")
        <3>1. Last(j) = "queued"
            BY <1>j, <2>2, <2>4, <1>0, CancelledLast DEF Reached, Pending, Inv
        <3>2. Follows(Last(j), "running") /\ "running" \in Kind
            BY <1>j, <3>1, Order DEF Kind
        <3>3. /\ events' \in [Jobs -> Seq(Kind)] /\ LegalHistory' /\ Born(j)'
              /\ Last(j)' = "running" /\ \A i \in Jobs \ {j} : events'[i] = events[i]
            BY <1>j, <3>2, <2>4, <1>0, Event
        <3>4. Reached(j, Active)' /\ Reached(j, Broken)'
            BY <1>j, <3>3 DEF Reached, Active, Broken
        <3>5. j \notin completed
            BY <2>1, <3>1, <1>j DEF Reached, Outcome
        <3>6. PICK l \in {"task", "unwritten"} : pc' = [pc EXCEPT ![w] = l] /\ job' = job
            BY <1>j, <2>4 DEF Carry, Goto
        <3> QED BY <1>j, <1>0, <1>a, <2>1, <2>4, <3>3, <3>4, <3>5, <3>6, OwnJobInv DEF Label
    <2> QED BY <1>j, <1>1, <2>3, <2>4 DEF Start
<1>2. CASE Progress(w)
    <2>1. /\ pc[w] = "task" /\ Happen(j, "progress")
          /\ Written(j) \/ Unwritten
          /\ UNCHANGED <<slots, completed, refused, queue, closed, stopSent, unsent>>
        BY <1>j, <1>2 DEF Progress, At, door
    <2>2. Follows(Last(j), "progress") /\ "progress" \in Kind /\ j \notin completed
        BY <2>1, <1>j, Order DEF Reached, Active, Outcome, Kind
    <2>3. /\ events' \in [Jobs -> Seq(Kind)] /\ LegalHistory' /\ Born(j)'
          /\ Last(j)' = "progress" /\ \A i \in Jobs \ {j} : events'[i] = events[i]
        BY <1>j, <2>1, <2>2, <1>0, Event
    <2>4. Reached(j, Active)'
        BY <1>j, <2>3 DEF Reached, Active
    <2>5. PICK l \in {"task", "raised"} : pc' = [pc EXCEPT ![w] = l] /\ job' = job
        BY <1>j, <1>2, <1>0 DEF Progress, Carry, Goto, work, At
    <2> QED BY <1>j, <1>0, <1>a, <2>1, <2>2, <2>3, <2>4, <2>5, OwnJobInv DEF Label
<1>3. CASE Finish(w)
    <2>1. PICK o \in {"succeeded", "failed"} : Happen(j, o)
        BY <1>j, <1>3 DEF Finish
    <2>2. /\ pc[w] \in {"returned", "raised"}
          /\ UNCHANGED <<slots, refused, queue, closed, stopSent, unsent>>
          /\ \/ Written(j) /\ Wake(j) /\ Rest(w)
             \/ Unwritten /\ UNCHANGED completed /\ Carry(w, "unwritten")
        BY <1>j, <1>3 DEF Finish, door
    <2>3. Follows(Last(j), o) /\ o \in Kind /\ j \notin completed
        BY <2>2, <1>j, Order DEF Reached, Active, Outcome, Kind
    <2>4. /\ events' \in [Jobs -> Seq(Kind)] /\ LegalHistory' /\ Born(j)'
          /\ Last(j)' = o /\ \A i \in Jobs \ {j} : events'[i] = events[i]
        BY <1>j, <2>1, <2>3, <1>0, Event
    <2>5. Reached(j, Broken)' /\ Reached(j, Outcome)'
        BY <1>j, <2>4 DEF Reached, Broken, Outcome
    <2>6. CASE Written(j) /\ Wake(j) /\ Rest(w)
        BY <1>j, <1>0, <1>a, <2>2, <2>4, <2>5, <2>6, OwnJobInv DEF Label, Rest, Goto, Wake
    <2>7. CASE Unwritten /\ UNCHANGED completed /\ Carry(w, "unwritten")
        BY <1>j, <1>0, <1>a, <2>2, <2>3, <2>4, <2>5, <2>7, OwnJobInv DEF Label, Carry, Goto
    <2> QED BY <1>j, <2>2, <2>6, <2>7
<1>4. CASE Fail(w)
    <2>1. /\ pc[w] = "unwritten" /\ Happen(j, "failed") /\ completed' = completed \cup {j}
          /\ pc' = [pc EXCEPT ![w] = "idle"] /\ job' = [job EXCEPT ![w] = Stop]
          /\ UNCHANGED <<slots, mishaps, refused, queue, closed, stopSent, unsent>>
        BY <1>j, <1>4 DEF Fail, At, Wake, Rest, Goto, door
    <2>2. Follows(Last(j), "failed") /\ "failed" \in Kind
        BY <2>1, <1>j, Order DEF Reached, Broken, Outcome, Kind
    <2>3. /\ events' \in [Jobs -> Seq(Kind)] /\ LegalHistory' /\ Born(j)'
          /\ Last(j)' = "failed" /\ \A i \in Jobs \ {j} : events'[i] = events[i]
        BY <1>j, <2>1, <2>2, <1>0, Event
    <2>4. Reached(j, Outcome)'
        BY <1>j, <2>3 DEF Reached, Outcome
    <2> QED BY <1>j, <1>0, <2>1, <2>3, <2>4, OwnJobInv DEF Label
<1> QED BY <1>j, <1>1, <1>2, <1>3, <1>4

\* The other steps of a worker that has a job.
LEMMA CarryingInv ==
    ASSUME Inv, NEW w \in Workers, Release(w) \/ Check(w) \/ Task(w) \/ Interrupt(w) PROVE Inv'
<1>j. PICK j \in Jobs :
           /\ job[w] = j /\ Legal(events[j])
           /\ pc[w] \in {"taken", "check", "start"} => Reached(j, Pending)
           /\ pc[w] \in {"task", "returned", "raised"} => Reached(j, Active)
           /\ pc[w] = "unwritten" => Reached(j, Broken)
           /\ j \in completed => pc[w] = "dead" \/ (Reached(j, Outcome) /\ pc[w] # "unwritten")
    BY InHand DEF Release, Check, Task, Interrupt, At
<1>0. /\ Inv /\ mishaps \in 0 .. MaxMishaps /\ MaxMishaps \in Nat
      /\ slots \in Nat /\ events \in [Jobs -> Seq(Kind)] /\ LegalHistory
    BY <1>j, BrokerAssumption DEF Release, Check, Task, Interrupt, At, Inv, Typed
<1>1. /\ events' = events /\ UNCHANGED <<refused, queue, closed, stopSent, unsent>>
      /\ completed' \in {completed, completed \cup {j}} /\ slots' \in Nat
      /\ mishaps' \in 0 .. MaxMishaps
    BY <1>j, <1>0 DEF Release, Check, Task, Interrupt, history, door, Wake, Mishap
<1>2. /\ events' \in [Jobs -> Seq(Kind)] /\ LegalHistory'
      /\ \A i \in Jobs \ {j} : events'[i] = events[i]
      /\ \A ks : Reached(j, ks) => Born(j)'
    BY <1>j, <1>0, <1>1 DEF LegalHistory, Reached, Born
<1>3. CASE Release(w)
    <2>1. Reached(j, Pending)' /\ Born(j)' /\ (j \in completed => Reached(j, Outcome)')
        BY <1>1, <1>3, <1>j DEF Release, At, Reached, Born, Last
    <2>2. pc' = [pc EXCEPT ![w] = "check"] /\ job' = job /\ completed' = completed
        BY <1>j, <1>3 DEF Release, Carry, Goto, history
    <2> QED BY <1>j, <1>0, <1>1, <1>2, <2>1, <2>2, OwnJobInv DEF Label
<1>4. CASE Check(w)
    <2>1. Reached(j, Pending)' /\ Born(j)' /\ (j \in completed => Reached(j, Outcome)')
        BY <1>1, <1>4, <1>j DEF Check, At, Reached, Born, Last
    <2>2. PICK l \in {"idle", "start"} :
              /\ pc' = [pc EXCEPT ![w] = l]
              /\ IF l = "idle" THEN job' = [job EXCEPT ![w] = Stop] ELSE job' = job
        BY <1>j, <1>4 DEF Check, Carry, Rest, Goto
    <2>3. completed' = completed
        BY <1>j, <1>4 DEF Check, history
    <2> QED BY <1>j, <1>0, <1>1, <1>2, <2>1, <2>2, <2>3, OwnJobInv DEF Label
<1>5. CASE Task(w)
    <2>1. Reached(j, Active)' /\ Born(j)' /\ (j \in completed => Reached(j, Outcome)')
        BY <1>1, <1>5, <1>j DEF Task, At, Reached, Born, Last
    <2>2. PICK l \in {"returned", "raised"} : pc' = [pc EXCEPT ![w] = l] /\ job' = job
        BY <1>j, <1>5 DEF Task, Carry, Goto
    <2>3. completed' = completed
        BY <1>j, <1>5 DEF Task, history
    <2> QED BY <1>j, <1>0, <1>1, <1>2, <2>1, <2>2, <2>3, OwnJobInv DEF Label
<1>6. CASE Interrupt(w)
    <2>1. Reached(j, Active)' /\ Born(j)'
        BY <1>1, <1>6, <1>j DEF Interrupt, At, Reached, Born, Last
    <2>2. pc' = [pc EXCEPT ![w] = "dead"] /\ job' = job
        BY <1>j, <1>6 DEF Interrupt, Carry, Goto
    <2> QED BY <1>j, <1>0, <1>1, <1>2, <2>1, <2>2, OwnJobInv DEF Label
<1> QED BY <1>j, <1>3, <1>4, <1>5, <1>6

\* A marker is put at the end of the queue.
LEMMA SendStopInv == ASSUME Inv, SendStop PROVE Inv'
<1> USE DEF Inv
<1>1. /\ queue' = Append(queue, Stop) /\ unsent' \in 0 .. Size
      /\ UNCHANGED <<events, completed, refused, slots, pc, job, closed, stopSent, mishaps>>
    BY BrokerAssumption, FS_CardinalityType DEF SendStop, history, work, Typed, Size
<1>2. /\ queue' \in Seq(Jobs \cup {Stop}) /\ DOMAIN queue' = 1 .. Len(queue) + 1
      /\ DOMAIN queue = 1 .. Len(queue) /\ Len(queue) \in Nat
      /\ \A i \in 1 .. Len(queue) : queue'[i] = queue[i]
      /\ queue'[Len(queue) + 1] = Stop
    BY <1>1, AppendProperties, LenProperties DEF Typed
<1>3. \A i \in DOMAIN queue' : queue'[i] # Stop => i \in DOMAIN queue /\ queue'[i] = queue[i]
    BY <1>2
<1>4. Line'
    BY <1>1, <1>2, <1>3 DEF Line
<1>5. Typed' /\ Hands' /\ LegalHistory' /\ Answered'
    BY <1>1, <1>2 DEF Typed, Hands, LegalHistory, Answered, Reached, Born, Last, At
<1>6. Progressed'
    BY <1>1, <1>3 DEF Progressed, Reached, Born, Last
<1> QED BY <1>4, <1>5, <1>6

\* The head of the queue is taken.
LEMMA TakeInv == ASSUME Inv, NEW w \in Workers, Take(w) PROVE Inv'
<1> USE DEF Inv
<1>1. /\ pc[w] = "idle" /\ queue # <<>> /\ queue' = Tail(queue)
      /\ UNCHANGED <<events, completed, refused, slots, closed, stopSent, unsent, mishaps>>
      /\ IF Head(queue) = Stop THEN pc' = [pc EXCEPT ![w] = "stopped"] /\ job' = job
         ELSE pc' = [pc EXCEPT ![w] = "taken"] /\ job' = [job EXCEPT ![w] = Head(queue)]
    BY DEF Take, history, door, Goto, Carry, At
<1>2. /\ queue' \in Seq(Jobs \cup {Stop}) /\ DOMAIN queue' = 1 .. Len(queue) - 1
      /\ DOMAIN queue = 1 .. Len(queue) /\ Len(queue) \in Nat \ {0}
      /\ \A i \in 1 .. Len(queue) - 1 : queue'[i] = queue[i + 1]
      /\ Head(queue) = queue[1] /\ queue[1] \in Jobs \cup {Stop}
    BY <1>1, HeadTailProperties, LenProperties, EmptySeq DEF Typed
<1>3. \A i \in DOMAIN queue' : i + 1 \in DOMAIN queue /\ queue'[i] = queue[i + 1]
    BY <1>2
<1>4. 1 \in DOMAIN queue /\ pc \in [Workers -> Label] /\ job \in [Workers -> Jobs \cup {Stop}]
      /\ job[w] = Stop /\ Stop \notin Jobs
    BY <1>1, <1>2, BrokerAssumption DEF Typed, Hands
<1>5. /\ \A v \in Workers \ {w} : pc'[v] = pc[v] /\ job'[v] = job[v]
      /\ job'[w] = queue[1] /\ pc'[w] = IF queue[1] = Stop THEN "stopped" ELSE "taken"
    BY <1>1, <1>2, <1>4
<1>6. Typed'
    BY <1>1, <1>2, <1>4 DEF Typed, Label
<1>7. \A v \in Workers : queue[1] # Stop => job[v] # queue[1]
    BY <1>4 DEF Line
<1>8. Hands'
    BY <1>4, <1>5, <1>7 DEF Hands
<1>9. Line'
    <2> SUFFICES ASSUME NEW i \in DOMAIN queue', queue'[i] # Stop
                 PROVE  /\ \A k \in DOMAIN queue' : queue'[i] = queue'[k] => i = k
                        /\ \A v \in Workers : job'[v] # queue'[i]
        BY DEF Line
    <2>1. queue[i + 1] # Stop /\ i + 1 \in DOMAIN queue /\ i + 1 # 1 /\ i \in Int
        BY <1>2, <1>3
    <2>2. \A k \in DOMAIN queue' : queue'[i] = queue'[k] => i = k
        <3> SUFFICES ASSUME NEW k \in DOMAIN queue', queue'[i] = queue'[k] PROVE i = k
            OBVIOUS
        <3>1. i + 1 = k + 1
            BY <1>3, <2>1 DEF Line
        <3> QED BY <3>1, <1>2
    <2>3. queue[i + 1] # queue[1]
        BY <1>4, <2>1 DEF Line
    <2>4. \A v \in Workers : job[v] # queue[i + 1]
        BY <2>1 DEF Line
    <2> QED BY <1>3, <1>5, <2>2, <2>3, <2>4
<1>10. Progressed'
    <2>1. \A i \in DOMAIN queue' : queue'[i] # Stop => Reached(queue[i], Pending)'
        BY <1>1, <1>3 DEF Progressed, Reached, Born, Last
    <2>2. \A j \in refused' : Born(j)'
        BY <1>1 DEF Progressed, Born
    <2>3. \A v \in Workers \ {w} :
          /\ pc'[v] \in {"taken", "check", "start"} => Reached(job[v], Pending)'
          /\ pc'[v] \in {"task", "returned", "raised", "dead"} => Reached(job[v], Active)'
          /\ pc'[v] = "unwritten" => Reached(job[v], Broken)'
        BY <1>1, <1>5 DEF Progressed, Reached, Born, Last
    <2>4. pc'[w] = "taken" => Reached(job[w], Pending)'
        BY <1>1, <1>4, <1>5 DEF Progressed, Reached, Born, Last
    <2> QED BY <1>5, <2>1, <2>2, <2>3, <2>4 DEF Progressed
<1>11. Answered'
    <2>1. \A v \in Workers : pc'[v] = "unwritten" => pc[v] = "unwritten" /\ job'[v] = job[v]
        BY <1>5
    <2>2. \A v \in Workers : pc[v] = "dead" => pc'[v] = "dead" /\ job'[v] = job[v]
        BY <1>1, <1>5
    <2> QED BY <1>1, <2>1, <2>2 DEF Answered, Reached, Born, Last, At
<1> QED BY <1>1, <1>6, <1>8, <1>9, <1>10, <1>11 DEF LegalHistory

\* Every step keeps the invariant.
LEMMA NextInv == Inv /\ [Next]_vars => Inv'
<1> SUFFICES ASSUME Inv, [Next]_vars PROVE Inv'
    OBVIOUS
<1>1. CASE UNCHANGED vars
    BY <1>1 DEF vars, history, work, door, Inv, Typed, Hands, Line, Progressed, Answered,
                LegalHistory, Reached, Born, Last, At
<1>2. CASE Next
    BY <1>2, SubmitInv, CallerInv, SendStopInv, TakeInv, WritingInv, CarryingInv
       DEF Next, Caller, Worker
<1> QED BY <1>1, <1>2

\* The invariant holds in every reachable state.
LEMMA Invariance == Spec => []Inv
BY InitInv, NextInv, PTL DEF Spec

\* A job is started at most once and never after it was cancelled, although a worker looks
\* at it and starts it under two holds of the lock.
THEOREM LegalLives == Spec => []LegalHistory
<1>1. Inv => LegalHistory
    BY DEF Inv
<1> QED BY <1>1, Invariance, PTL

-----------------------------------------------------------------------------
\* What a waiter reads.

\* No step adds to the history of a job whose waiters are woken.
LEMMA FinalStep ==
    ASSUME Inv, [Next]_vars, NEW j \in completed
    PROVE  /\ Settled(j) \/ \E w \in Workers : At(w, "dead") /\ job[w] = j
           /\ events'[j] = events[j]
<1>0. j \in Jobs /\ Typed
    BY DEF Inv, Typed
<1>1. \/ Reached(j, Outcome) /\ \A w \in Workers : job[w] = j => ~At(w, "unwritten")
      \/ \E w \in Workers : At(w, "dead") /\ job[w] = j
    BY DEF Inv, Answered
<1>2. Born(j) /\ Last(j) # "queued"
    BY <1>1 DEF Inv, Progressed, Reached, Active, Outcome, At
<1>3. Settled(j) \/ \E w \in Workers : At(w, "dead") /\ job[w] = j
    BY <1>1 DEF Settled, Reached, Born, Last
<1> SUFFICES events'[j] = events[j]
    BY <1>3
<1>4. ~Queued(j)
    BY <1>0, <1>2, QueuedLast
<1>5. ASSUME NEW i \in Jobs, Submit(i) \/ Cancel(i) PROVE events'[j] = events[j]
    BY <1>0, <1>2, <1>4, <1>5 DEF Submit, Cancel, Happen, Born, Typed
<1>6. CASE Close \/ CloseAgain \/ SendStop
    <2> DEFINE waiting == {i \in Jobs : Queued(i)}
    <2>1. ASSUME NEW js, js \subseteq waiting, CancelAll(js) PROVE events'[j] = events[j]
        <3>1. j \notin js
            BY <1>4, <2>1
        <3> QED BY <1>0, <2>1, <3>1 DEF CancelAll
    <2>2. CASE Close
        <3>1. \/ UNCHANGED history \/ CancelAll(waiting)
              \/ \E done \in SUBSET waiting : \E i \in waiting \ done : CancelAll(done \cup {i})
            BY <2>2 DEF Close
        <3>2. CASE UNCHANGED history
            BY <3>2 DEF history
        <3>3. CASE CancelAll(waiting)
            BY <2>1, <3>3
        <3>4. CASE \E done \in SUBSET waiting : \E i \in waiting \ done : CancelAll(done \cup {i})
            <4>1. PICK done \in SUBSET waiting : \E i \in waiting \ done : CancelAll(done \cup {i})
                BY <3>4
            <4>2. PICK i \in waiting \ done : CancelAll(done \cup {i})
                BY <4>1
            <4> DEFINE js == done \cup {i}
            <4>3. js \subseteq waiting /\ CancelAll(js)
                BY <4>1, <4>2
            <4> HIDE DEF js
            <4> QED BY <2>1, <4>3
        <3> QED BY <3>1, <3>2, <3>3, <3>4
    <2>3. CloseAgain => UNCHANGED history
        BY DEF CloseAgain
    <2>4. SendStop => UNCHANGED history
        BY DEF SendStop
    <2>5. UNCHANGED history => events' = events
        BY DEF history
    <2> QED BY <1>6, <2>2, <2>3, <2>4, <2>5
<1>7. ASSUME NEW w \in Workers, Start(w) \/ Progress(w) \/ Finish(w) \/ Fail(w)
      PROVE  events'[j] = events[j]
    <2>1. PICK i \in Jobs :
           /\ job[w] = i
           /\ pc[w] \in {"taken", "check", "start"} => Reached(i, Pending)
           /\ pc[w] \in {"task", "returned", "raised"} => Reached(i, Active)
           /\ i \in completed => pc[w] = "dead" \/ (Reached(i, Outcome) /\ pc[w] # "unwritten")
        BY <1>7, InHand DEF Start, Progress, Finish, Fail, At
    <2>2. events' = events \/ \E k : Happen(i, k)
        BY <1>7, <2>1 DEF Start, Progress, Finish, Fail
    <2>3. CASE i # j
        BY <1>0, <2>2, <2>3 DEF Happen, Typed
    <2>4. CASE i = j
        <3>1. Start(w) /\ Last(j) = "cancelled" /\ Born(j)
            BY <1>7, <2>1, <2>4 DEF Progress, Finish, Fail, Start, At, Reached, Pending, Active,
                                    Outcome
        <3>2. Cancelled(job[w])
            BY <1>0, <2>1, <2>4, <3>1, CancelledLast
        <3> QED BY <3>1, <3>2 DEF Start
    <2> QED BY <2>3, <2>4
<1>8. ASSUME NEW w \in Workers, Take(w) \/ Release(w) \/ Check(w) \/ Task(w) \/ Interrupt(w)
      PROVE  events'[j] = events[j]
    <2>1. Take(w) => UNCHANGED history
        BY DEF Take
    <2>2. Release(w) => UNCHANGED history
        BY DEF Release
    <2>3. Check(w) => UNCHANGED history
        BY DEF Check
    <2>4. Task(w) => UNCHANGED history
        BY DEF Task
    <2>5. UNCHANGED history => events' = events
        BY DEF history
    <2>6. Interrupt(w) => events' = events
        BY DEF Interrupt
    <2> QED BY <1>8, <2>1, <2>2, <2>3, <2>4, <2>5, <2>6
<1>9. UNCHANGED vars => events' = events
    BY DEF vars, history
<1>10. CASE UNCHANGED vars
    BY <1>9, <1>10
<1>11. CASE Next
    BY <1>5, <1>6, <1>7, <1>8, <1>11 DEF Next, Caller, Worker
<1> QED BY <1>10, <1>11

\* What a waiter reads is final: the job has an outcome, unless its worker was interrupted,
\* and nothing happens to it afterwards.
THEOREM AnswersAreFinal == Spec => AnswerFinal
<1>1. Inv /\ [Next]_vars =>
        [\A j \in completed :
          /\ Settled(j) \/ \E w \in Workers : At(w, "dead") /\ job[w] = j
          /\ events'[j] = events[j]]_vars
    BY FinalStep
<1> QED BY <1>1, Invariance, PTL DEF Spec, AnswerFinal

-----------------------------------------------------------------------------
\* The slots.

Taken == {w \in Workers : At(w, "taken")}

\* The sets that are counted are finite.
LEMMA CountedFinite ==
    ASSUME Typed
    PROVE  /\ IsFiniteSet(InQueue) /\ IsFiniteSet(Taken) /\ IsFiniteSet(refused)
           /\ Cardinality(InQueue) \in Nat /\ Cardinality(Taken) \in Nat
           /\ Cardinality(refused) \in Nat
<1>1. DOMAIN queue = 1 .. Len(queue) /\ Len(queue) \in Nat
    BY LenProperties DEF Typed
<1>2. IsFiniteSet(1 .. Len(queue)) /\ InQueue \in SUBSET (1 .. Len(queue))
    BY <1>1, FS_Interval DEF InQueue
<1>3. Taken \in SUBSET Workers /\ refused \in SUBSET Jobs
    BY DEF Taken, Typed
<1> QED BY <1>2, <1>3, BrokerAssumption, FS_Subset, FS_CardinalityType

\* Taking the head away moves the others by one.
LEMMA Shifted ==
    ASSUME Typed, queue # <<>>, queue' = Tail(queue)
    PROVE  /\ IsFiniteSet(InQueue')
           /\ Cardinality(InQueue') = IF Head(queue) = Stop THEN Cardinality(InQueue)
                                      ELSE Cardinality(InQueue) - 1
<1>1. /\ DOMAIN queue' = 1 .. Len(queue) - 1
      /\ DOMAIN queue = 1 .. Len(queue) /\ Len(queue) \in Nat \ {0}
      /\ \A i \in 1 .. Len(queue) - 1 : queue'[i] = queue[i + 1]
      /\ Head(queue) = queue[1]
    BY HeadTailProperties, LenProperties, EmptySeq DEF Typed
<1> DEFINE rest == InQueue \ {1}
           shift == [i \in rest |-> i - 1]
<1>2. rest \subseteq Int /\ \A i \in rest : i - 1 \in InQueue'
    BY <1>1 DEF InQueue
<1>3. \A i \in InQueue' : i + 1 \in rest /\ i = (i + 1) - 1
    BY <1>1 DEF InQueue
<1>4. shift \in [rest -> InQueue']
    BY <1>2
<1>5. \A a, b \in rest : shift[a] = shift[b] => a = b
    BY <1>2
<1>6. \A t \in InQueue' : \E a \in rest : shift[a] = t
    BY <1>3
<1>7. ExistsBijection(rest, InQueue')
    BY <1>4, <1>5, <1>6 DEF ExistsBijection, Bijection, Injection, Surjection, IsInjective
<1>8. IsFiniteSet(rest) /\ Cardinality(rest) = IF 1 \in InQueue THEN Cardinality(InQueue) - 1
                                               ELSE Cardinality(InQueue)
    BY CountedFinite, FS_RemoveElement
<1>9. 1 \in InQueue <=> Head(queue) # Stop
    BY <1>1 DEF InQueue
<1> QED BY <1>7, <1>8, <1>9, FS_Bijection

\* Every step keeps the count of the slots.
LEMMA SlotStep == ASSUME Inv, SlotsKept, [Next]_vars PROVE SlotsKept'
<1> DEFINE n == Cardinality(InQueue)
           t == Cardinality(Taken)
           r == Cardinality(refused)
<1>0. /\ Typed /\ Typed' /\ n \in Nat /\ t \in Nat /\ r \in Nat /\ slots \in Nat
      /\ slots + n + t + r = Size
      /\ IsFiniteSet(InQueue) /\ IsFiniteSet(Taken) /\ IsFiniteSet(refused)
      /\ Size \in Nat /\ pc \in [Workers -> Label]
    BY NextInv, CountedFinite, BrokerAssumption, FS_CardinalityType
       DEF Inv, SlotsKept, Taken, Typed, Size
<1>k. SlotsKept' <=> slots' + n' + t' + r' = Size
    BY DEF SlotsKept, Taken, Size
<1>1. ASSUME NEW j \in Jobs, Submit(j) PROVE SlotsKept'
    <2>1. j \notin refused /\ slots' = slots - 1 /\ Taken' = Taken
        BY <1>1 DEF Submit, Inv, Progressed, Born, work, Taken, At
    <2>2. CASE queue' = Append(queue, j) /\ refused' = refused
        <3>1. /\ DOMAIN queue' = 1 .. Len(queue) + 1
              /\ DOMAIN queue = 1 .. Len(queue) /\ Len(queue) \in Nat
              /\ \A i \in 1 .. Len(queue) : queue'[i] = queue[i]
              /\ queue'[Len(queue) + 1] = j /\ j # Stop
            BY <2>2, <1>0, AppendProperties, LenProperties, BrokerAssumption DEF Typed
        <3>2. InQueue' = InQueue \cup {Len(queue) + 1} /\ Len(queue) + 1 \notin InQueue
            BY <3>1 DEF InQueue
        <3>3. n' = n + 1
            BY <3>2, <1>0, FS_AddElement
        <3> QED BY <1>0, <1>k, <2>1, <2>2, <3>3
    <2>3. CASE queue' = queue /\ refused' = refused \cup {j}
        <3>1. r' = r + 1
            BY <2>1, <2>3, <1>0, FS_AddElement
        <3>2. InQueue' = InQueue
            BY <2>3 DEF InQueue
        <3> QED BY <1>0, <1>k, <2>1, <3>1, <3>2
    <2> QED BY <1>1, <2>2, <2>3 DEF Submit
<1>2. CASE SendStop
    <2>1. queue' = Append(queue, Stop) /\ UNCHANGED <<slots, pc, refused>>
        BY <1>2 DEF SendStop, history, work
    <2>2. /\ DOMAIN queue' = 1 .. Len(queue) + 1
          /\ DOMAIN queue = 1 .. Len(queue) /\ Len(queue) \in Nat
          /\ \A i \in 1 .. Len(queue) : queue'[i] = queue[i]
          /\ queue'[Len(queue) + 1] = Stop
        BY <2>1, <1>0, AppendProperties, LenProperties DEF Typed
    <2>3. InQueue' = InQueue /\ Taken' = Taken
        BY <2>1, <2>2 DEF InQueue, Taken, At
    <2> QED BY <1>0, <1>k, <2>1, <2>3
<1>3. ASSUME NEW w \in Workers, Take(w) PROVE SlotsKept'
    <2>1. /\ queue # <<>> /\ queue' = Tail(queue) /\ UNCHANGED <<slots, refused>> /\ pc[w] = "idle"
          /\ pc' = [pc EXCEPT ![w] = IF Head(queue) = Stop THEN "stopped" ELSE "taken"]
        BY <1>3 DEF Take, history, Goto, Carry, At
    <2>2. n' = IF Head(queue) = Stop THEN n ELSE n - 1
        BY <1>0, <2>1, Shifted
    <2>3. w \notin Taken
        BY <2>1 DEF Taken, At
    <2>4. CASE Head(queue) = Stop
        <3>1. Taken' = Taken
            BY <1>0, <2>1, <2>4 DEF Taken, At
        <3> QED BY <1>0, <1>k, <2>1, <2>2, <2>4, <3>1
    <2>5. CASE Head(queue) # Stop
        <3>1. Taken' = Taken \cup {w}
            BY <1>0, <2>1, <2>5 DEF Taken, At
        <3>2. t' = t + 1
            BY <1>0, <2>3, <3>1, FS_AddElement
        <3> QED BY <1>0, <1>k, <2>1, <2>2, <2>5, <3>2
    <2> QED BY <2>4, <2>5
<1>4. ASSUME NEW w \in Workers, Release(w) PROVE SlotsKept'
    <2>1. /\ pc[w] = "taken" /\ pc' = [pc EXCEPT ![w] = "check"] /\ slots' = slots + 1
          /\ UNCHANGED <<queue, refused>>
        BY <1>4 DEF Release, Carry, Goto, At, history
    <2>2. Taken' = Taken \ {w} /\ w \in Taken /\ InQueue' = InQueue
        BY <1>0, <2>1 DEF Taken, At, InQueue
    <2>3. t' = t - 1
        BY <1>0, <2>2, FS_RemoveElement
    <2> QED BY <1>0, <1>k, <2>1, <2>2, <2>3
<1>5. ASSUME UNCHANGED <<slots, queue, refused>>, Taken' = Taken PROVE SlotsKept'
    <2>1. InQueue' = InQueue
        BY <1>5 DEF InQueue
    <2> QED BY <1>0, <1>k, <1>5, <2>1
<1>6. CASE \/ \E j \in Jobs : Cancel(j)
           \/ Close \/ CloseAgain \/ UNCHANGED vars
    <2>1. UNCHANGED <<slots, queue, refused, pc>>
        BY <1>6 DEF Cancel, Close, CloseAgain, vars, history, work
    <2>2. Taken' = Taken
        BY <2>1 DEF Taken, At
    <2> QED BY <2>1, <2>2, <1>5
<1>7. ASSUME NEW w \in Workers,
             \/ Check(w) \/ Start(w) \/ Task(w) \/ Finish(w) \/ Fail(w)
             \/ Progress(w) \/ Interrupt(w)
      PROVE  SlotsKept'
    <2>1. UNCHANGED <<slots, queue, refused>>
        BY <1>7 DEF Check, Start, Task, Finish, Fail, Progress, Interrupt, history
    <2>2. /\ pc[w] # "taken"
          /\ pc' = pc \/ \E l : l # "taken" /\ pc' = [pc EXCEPT ![w] = l]
        BY <1>7 DEF Check, Start, Task, Finish, Fail, Progress, Interrupt, At, Carry, Rest, Goto,
                    work
    <2>3. Taken' = Taken
        BY <1>0, <2>2 DEF Taken, At
    <2> QED BY <2>1, <2>3, <1>5
<1> QED BY <1>1, <1>2, <1>3, <1>4, <1>6, <1>7 DEF Next, Caller, Worker

\* Every slot is free or accounted for.
LEMMA SlotInvariance == Spec => [](Inv /\ SlotsKept)
<1>1. Init => SlotsKept
    <2> SUFFICES ASSUME Init PROVE SlotsKept
        OBVIOUS
    <2>1. InQueue = {} /\ {w \in Workers : At(w, "taken")} = {} /\ refused = {} /\ slots = Size
        BY DEF Init, InQueue, At
    <2>2. Size \in Nat /\ Cardinality({}) = 0
        BY BrokerAssumption, FS_CardinalityType, FS_EmptySet DEF Size
    <2> QED BY <2>1, <2>2 DEF SlotsKept
<1> QED BY <1>1, InitInv, NextInv, SlotStep, PTL DEF Spec

\* No more jobs wait than there are workers, and a slot is lost only with a submission that
\* failed, however jobs are cancelled, taken and closed upon.
THEOREM SlotsAreKept == Spec => []SlotsKept
BY SlotInvariance, PTL

-----------------------------------------------------------------------------
\* The receipts.

Behind == {j \in Jobs : receipt[j] # events[j]}

Begins(r, s) == Len(r) <= Len(s) /\ r = SubSeq(s, 1, Len(r))

\* What keeps a receipt behind, and for how long: a worker that failed to write still has to
\* fail the job, which costs no further mishap.
Receipts ==
    /\ receipt \in [Jobs -> Seq(Kind)]
    /\ \A j \in Jobs : Begins(receipt[j], events[j])
    /\ Cardinality(Behind) <= mishaps
    /\ \A w \in Workers : At(w, "unwritten") => job[w] \in Behind

\* A history begins with itself.
LEMMA Whole == ASSUME NEW s \in Seq(Kind) PROVE Begins(s, s)
<1>1. Len(s) \in Nat /\ SubSeq(s, 1, Len(s)) = s
    BY LenProperties, SubSeqFull
<1> QED BY <1>1 DEF Begins

\* The receipt of a history is one of every longer history, and differs from it.
LEMMA Behindhand ==
    ASSUME NEW r \in Seq(Kind), NEW s \in Seq(Kind), NEW k \in Kind, Begins(r, s)
    PROVE  Begins(r, Append(s, k)) /\ r # Append(s, k)
<1> DEFINE t == Append(s, k)
<1>1. /\ t \in Seq(Kind) /\ Len(t) = Len(s) + 1 /\ \A i \in 1 .. Len(s) : t[i] = s[i]
      /\ Len(s) \in Nat /\ Len(r) \in Nat /\ Len(r) <= Len(s) /\ r = SubSeq(s, 1, Len(r))
    BY AppendProperties, LenProperties DEF Begins
<1> HIDE DEF t
<1>2. SubSeq(t, 1, Len(r)) = SubSeq(s, 1, Len(r))
    BY <1>1
<1>3. Begins(r, t)
    BY <1>1, <1>2 DEF Begins
<1>4. r # t
    BY <1>1
<1> QED BY <1>3, <1>4 DEF t

\* How a step may touch a job.
Kept(j) == receipt'[j] = receipt[j] /\ events'[j] = events[j]
Grew(j) == receipt'[j] = receipt[j] /\ \E k \in Kind : events'[j] = Append(events[j], k)
Wrote(j) == receipt'[j] = events'[j]

\* At most one job falls behind in a step, and then something failed.
LEMMA Balance ==
    ASSUME Typed, Typed', Receipts, receipt' \in [Jobs -> Seq(Kind)],
           NEW js \in SUBSET Jobs,
           \A j \in Jobs : Wrote(j) \/ Kept(j) \/ (Grew(j) /\ j \in js),
           \/ js \subseteq Behind /\ mishaps' >= mishaps
           \/ mishaps' = mishaps + 1 /\ \E j \in Jobs : js = {j},
           \A w \in Workers : At(w, "unwritten")' => job'[w] \in Behind'
    PROVE  Receipts'
<1>1. \A j \in Jobs : Begins(receipt[j], events[j])'
    <2> TAKE j \in Jobs
    <2>1. CASE Wrote(j)
        BY <2>1, Whole DEF Wrote, Typed
    <2>2. CASE Kept(j)
        BY <2>2 DEF Kept, Receipts
    <2>3. CASE Grew(j)
        BY <2>3, Behindhand DEF Grew, Receipts, Typed
    <2> QED BY <2>1, <2>2, <2>3
<1>2. Behind' \subseteq Behind \cup js
    BY DEF Behind, Wrote, Kept
<1>3. IsFiniteSet(Behind) /\ Cardinality(Behind) \in Nat
    BY BrokerAssumption, FS_Subset, FS_CardinalityType DEF Behind
<1>4. mishaps \in Nat /\ mishaps' \in Nat
    BY BrokerAssumption DEF Typed
<1>5. Cardinality(Behind') <= mishaps'
    <2>1. CASE js \subseteq Behind /\ mishaps' >= mishaps
        <3>1. Behind' \subseteq Behind
            BY <1>2, <2>1
        <3>2. Cardinality(Behind') \in Nat /\ Cardinality(Behind') <= Cardinality(Behind)
            BY <1>3, <3>1, FS_Subset, FS_CardinalityType
        <3> QED BY <1>3, <1>4, <2>1, <3>2 DEF Receipts
    <2>2. CASE mishaps' = mishaps + 1 /\ \E j \in Jobs : js = {j}
        <3>1. PICK j \in Jobs : js = {j}
            BY <2>2
        <3>2. IsFiniteSet(Behind \cup {j}) /\ Cardinality(Behind \cup {j}) <= Cardinality(Behind) + 1
              /\ Cardinality(Behind \cup {j}) \in Nat
            <4>1. /\ IsFiniteSet(Behind \cup {j})
                  /\ Cardinality(Behind \cup {j}) = IF j \in Behind THEN Cardinality(Behind)
                                                    ELSE Cardinality(Behind) + 1
                BY <1>3, FS_AddElement
            <4> QED BY <1>3, <4>1
        <3>3. Cardinality(Behind') \in Nat /\ Cardinality(Behind') <= Cardinality(Behind \cup {j})
            BY <1>2, <3>1, <3>2, FS_Subset, FS_CardinalityType
        <3> QED BY <1>3, <1>4, <2>2, <3>2, <3>3 DEF Receipts
    <2> QED BY <2>1, <2>2
<1> QED BY <1>1, <1>5 DEF Receipts

\* A step that does not touch the histories and lets no worker fail to write.
LEMMA StillPaid ==
    ASSUME Typed, Typed', Receipts, events' = events, receipt' = receipt, mishaps' >= mishaps,
           \A w \in Workers : At(w, "unwritten")' => At(w, "unwritten") /\ job'[w] = job[w]
    PROVE  Receipts'
<1>1. Behind' = Behind
    BY DEF Behind
<1>2. \A j \in Jobs : Kept(j)
    BY DEF Kept
<1>3. \A w \in Workers : At(w, "unwritten")' => job'[w] \in Behind'
    BY <1>1 DEF Receipts
<1>4. {} \in SUBSET Jobs /\ {} \subseteq Behind
    OBVIOUS
<1> QED BY <1>2, <1>3, <1>4, Balance DEF Receipts

\* One event of one job, written or not.
LEMMA OneWrite ==
    ASSUME Typed, Typed', Receipts, NEW j \in Jobs, NEW k \in Kind, Happen(j, k),
           Written(j) \/ Unwritten,
           \A w \in Workers : At(w, "unwritten")' =>
              \/ At(w, "unwritten") /\ job'[w] = job[w] /\ job[w] # j
              \/ job'[w] = j /\ Unwritten
    PROVE  Receipts'
<1>1. /\ events' = [events EXCEPT ![j] = Append(events[j], k)]
      /\ events'[j] = Append(events[j], k)
      /\ \A i \in Jobs \ {j} : events'[i] = events[i]
      /\ events'[j] \in Seq(Kind)
    BY AppendProperties DEF Happen, Typed
<1>2. receipt \in [Jobs -> Seq(Kind)]
    BY DEF Receipts
<1>3. /\ receipt' \in [Jobs -> Seq(Kind)]
      /\ \A i \in Jobs \ {j} : receipt'[i] = receipt[i]
      /\ Written(j) => receipt'[j] = events'[j]
      /\ Unwritten => receipt'[j] = receipt[j]
    <2>1. CASE Written(j)
        <3>1. receipt' = [receipt EXCEPT ![j] = events'[j]]
            BY <2>1 DEF Written
        <3>2. receipt'[j] = events'[j] /\ receipt' \in [Jobs -> Seq(Kind)]
            BY <3>1, <1>1, <1>2
        <3>3. \A i \in Jobs \ {j} : receipt'[i] = receipt[i]
            BY <3>1, <1>2
        <3>4. Unwritten => receipt'[j] = receipt[j]
            BY DEF Unwritten
        <3> QED BY <3>2, <3>3, <3>4
    <2>2. CASE Unwritten /\ ~Written(j)
        BY <2>2, <1>2 DEF Unwritten
    <2> QED BY <2>1, <2>2
<1>4. \A i \in Jobs \ {j} : Kept(i)
    BY <1>1, <1>3 DEF Kept
<1>5. \A i \in Behind \ {j} : i \in Behind'
    BY <1>4 DEF Behind, Kept
<1>6. Unwritten => j \in Behind'
    <2>1. receipt[j] # Append(events[j], k)
        BY <1>2, Behindhand DEF Receipts, Typed
    <2> QED BY <1>1, <1>3, <2>1 DEF Behind
<1>7. \A w \in Workers : At(w, "unwritten")' => job'[w] \in Behind'
    BY <1>5, <1>6 DEF Receipts
<1>8. CASE Written(j)
    <2>1. Wrote(j) /\ mishaps' = mishaps
        BY <1>3, <1>8 DEF Wrote, Written
    <2>2. mishaps' >= mishaps
        BY <2>1, BrokerAssumption DEF Typed
    <2>3. {} \in SUBSET Jobs /\ {} \subseteq Behind
        OBVIOUS
    <2> QED BY <1>3, <1>4, <1>7, <2>1, <2>2, <2>3, Balance
<1>9. CASE Unwritten
    <2>1. Grew(j) /\ mishaps' = mishaps + 1
        BY <1>1, <1>3, <1>9 DEF Grew, Unwritten, Mishap
    <2>2. {j} \in SUBSET Jobs /\ \E i \in Jobs : {j} = {i}
        OBVIOUS
    <2>3. \A i \in Jobs : Wrote(i) \/ Kept(i) \/ (Grew(i) /\ i \in {j})
        BY <1>4, <2>1
    <2> QED BY <1>3, <1>7, <2>1, <2>2, <2>3, Balance
<1> QED BY <1>8, <1>9

\* Every step keeps the account of the receipts.
LEMMA ReceiptStep == ASSUME Inv, Receipts, [Next]_vars PROVE Receipts'
<1>0. Typed /\ Typed' /\ mishaps \in Nat /\ "queued" \in Kind /\ "cancelled" \in Kind
    BY NextInv, BrokerAssumption DEF Inv, Typed, Kind, Outcome
<1>u. \A w \in Workers : At(w, "unwritten") => job[w] \in Jobs /\ Reached(job[w], Broken)
    BY BrokerAssumption DEF Inv, Typed, Hands, Progressed, At
<1>h. \A w, v \in Workers : job[v] = job[w] /\ job[w] \in Jobs => v = w
    BY BrokerAssumption DEF Inv, Hands
<1>1. ASSUME NEW j \in Jobs, Submit(j) PROVE Receipts'
    <2>1. /\ Happen(j, "queued") /\ (Written(j) \/ Unwritten) /\ UNCHANGED <<pc, job>>
          /\ events[j] = <<>>
        BY <1>1 DEF Submit, work
    <2>2. \A w \in Workers : At(w, "unwritten") => job[w] # j
        BY <1>u, <2>1 DEF Reached, Born
    <2> QED BY <1>0, <2>1, <2>2, OneWrite DEF At
<1>2. ASSUME NEW j \in Jobs, Cancel(j) PROVE Receipts'
    <2>1. /\ Happen(j, "cancelled") /\ (Written(j) \/ Unwritten) /\ UNCHANGED <<pc, job>>
          /\ Queued(j)
        BY <1>2 DEF Cancel, work
    <2>2. \A w \in Workers : At(w, "unwritten") => job[w] # j
        BY <1>0, <1>u, <2>1, QueuedLast DEF Reached, Broken
    <2> QED BY <1>0, <2>1, <2>2, OneWrite DEF At
<1>3. CASE Close
    <2> DEFINE waiting == {i \in Jobs : Queued(i)}
    <2>0. UNCHANGED <<pc, job>>
        BY <1>3 DEF Close, work
    <2>u. \A w \in Workers : At(w, "unwritten")' => At(w, "unwritten") /\ job[w] \in Jobs \ waiting
        BY <1>0, <1>u, <2>0, QueuedLast DEF At, Reached, Broken
    <2>r. receipt \in [Jobs -> Seq(Kind)] /\ events' \in [Jobs -> Seq(Kind)]
        BY <1>0 DEF Receipts, Typed
    <2>1. CASE UNCHANGED <<history, mishaps>>
        <3>1. events' = events /\ receipt' = receipt /\ mishaps' >= mishaps
            BY <1>0, <2>1 DEF history
        <3> QED BY <1>0, <2>0, <3>1, StillPaid DEF At
    <2>2. ASSUME NEW done \in SUBSET waiting, NEW more \in SUBSET waiting,
                 CancelAll(done \cup more),
                 receipt' = [i \in Jobs |-> IF i \in done THEN events'[i] ELSE receipt[i]],
                 \/ more = {} /\ mishaps' = mishaps
                 \/ mishaps' = mishaps + 1 /\ \E i \in Jobs : more = {i}
          PROVE  Receipts'
        <3>1. receipt' \in [Jobs -> Seq(Kind)]
            BY <2>2, <2>r
        <3>2. \A i \in done : Wrote(i)
            BY <2>2 DEF Wrote
        <3>3. \A i \in Jobs \ (done \cup more) : Kept(i)
            BY <2>2 DEF Kept, CancelAll
        <3>4. \A i \in more \ done : Grew(i)
            BY <1>0, <2>2 DEF Grew, CancelAll
        <3>5. \A w \in Workers : At(w, "unwritten")' => job'[w] \in Behind'
            <4>1. \A i \in Jobs \ waiting : i \in Behind => i \in Behind'
                BY <3>3 DEF Behind, Kept
            <4> QED BY <2>0, <2>u, <4>1 DEF Receipts
        <3>6. more \in SUBSET Jobs
            OBVIOUS
        <3>7. \/ more \subseteq Behind /\ mishaps' >= mishaps
              \/ mishaps' = mishaps + 1 /\ \E i \in Jobs : more = {i}
            BY <1>0, <2>2
        <3>8. \A i \in Jobs : Wrote(i) \/ Kept(i) \/ (Grew(i) /\ i \in more)
            BY <3>2, <3>3, <3>4
        <3> QED BY <1>0, <3>1, <3>5, <3>6, <3>7, <3>8, Balance
    <2>3. CASE /\ CancelAll(waiting) /\ mishaps' = mishaps
               /\ receipt' = [i \in Jobs |-> IF i \in waiting THEN events'[i] ELSE receipt[i]]
        <3>1. CancelAll(waiting \cup {}) /\ {} \in SUBSET waiting
            BY <2>3
        <3> QED BY <2>2, <2>3, <3>1
    <2>4. ASSUME NEW done \in SUBSET waiting, NEW j \in waiting \ done,
                 CancelAll(done \cup {j}), mishaps' = mishaps + 1,
                 receipt' = [i \in Jobs |-> IF i \in done THEN events'[i] ELSE receipt[i]]
          PROVE  Receipts'
        <3>1. {j} \in SUBSET waiting /\ \E i \in Jobs : {j} = {i}
            OBVIOUS
        <3> QED BY <2>2, <2>4, <3>1
    <2> QED BY <1>3, <2>1, <2>3, <2>4 DEF Close, Mishap
<1>4. CASE CloseAgain \/ SendStop \/ UNCHANGED vars
    <2>1. UNCHANGED <<events, receipt, pc, job, mishaps>>
        BY <1>4 DEF CloseAgain, SendStop, vars, history, work
    <2>2. mishaps' >= mishaps
        BY <1>0, <2>1
    <2> QED BY <1>0, <2>1, <2>2, StillPaid DEF At
<1>5. ASSUME NEW w \in Workers, Take(w) \/ Release(w) \/ Check(w) \/ Task(w) \/ Interrupt(w)
      PROVE  Receipts'
    <2>1. UNCHANGED <<events, receipt>>
        BY <1>5 DEF Take, Release, Check, Task, Interrupt, history
    <2>2. mishaps' >= mishaps
        BY <1>0, <1>5 DEF Take, Release, Check, Task, Interrupt, Mishap
    <2>3. /\ pc[w] # "unwritten"
          /\ \E l : l # "unwritten" /\ pc' = [pc EXCEPT ![w] = l]
        BY <1>5 DEF Take, Release, Check, Task, Interrupt, Carry, Rest, Goto, At
    <2>4. \A v \in Workers \ {w} : job'[v] = job[v]
        BY <1>0, <1>5 DEF Take, Release, Check, Task, Interrupt, Carry, Rest, Typed
    <2>5. \A v \in Workers : At(v, "unwritten")' => At(v, "unwritten") /\ job'[v] = job[v]
        BY <1>0, <2>3, <2>4 DEF At, Typed
    <2> QED BY <1>0, <2>1, <2>2, <2>5, StillPaid
<1>6. ASSUME NEW w \in Workers, Start(w) \/ Progress(w) \/ Finish(w) PROVE Receipts'
    <2>0. job[w] \in Jobs /\ pc[w] # "unwritten"
        BY <1>6, BrokerAssumption DEF Inv, Typed, Hands, Start, Progress, Finish, At
    <2>4. \A v \in Workers \ {w} : pc'[v] = pc[v] /\ job'[v] = job[v]
        BY <1>0, <1>6 DEF Start, Progress, Finish, Carry, Rest, Goto, Typed, work
    <2>1. CASE UNCHANGED <<events, receipt, mishaps>> /\ Rest(w)
        <3>1. pc'[w] = "idle" /\ mishaps' >= mishaps
            BY <1>0, <2>1 DEF Rest, Goto, Typed
        <3> QED BY <1>0, <2>1, <2>4, <3>1, StillPaid DEF At
    <2>2. CASE /\ \E k \in Kind : Happen(job[w], k)
               /\ \/ Written(job[w]) /\ pc'[w] # "unwritten"
                  \/ Unwritten /\ job'[w] = job[w]
        <3>1. \A v \in Workers : At(v, "unwritten")' =>
                  \/ At(v, "unwritten") /\ job'[v] = job[v] /\ job[v] # job[w]
                  \/ job'[v] = job[w] /\ Unwritten
            BY <1>h, <2>0, <2>2, <2>4 DEF At
        <3> QED BY <1>0, <2>0, <2>2, <3>1, OneWrite
    <2>3. \/ UNCHANGED <<events, receipt, mishaps>> /\ Rest(w)
          \/ /\ \E k \in Kind : Happen(job[w], k)
             /\ \/ Written(job[w]) /\ pc'[w] # "unwritten"
                \/ Unwritten /\ job'[w] = job[w]
        <3>1. {"running", "progress", "succeeded", "failed"} \subseteq Kind
            BY DEF Kind, Outcome
        <3>2. CASE Start(w)
            BY <1>0, <3>1, <3>2 DEF Start, Carry, Goto, Typed
        <3>3. CASE Progress(w)
            BY <1>0, <3>1, <3>3 DEF Progress, Carry, Goto, Typed, At, work
        <3>4. CASE Finish(w)
            BY <1>0, <3>1, <3>4 DEF Finish, Carry, Goto, Rest, Typed
        <3> QED BY <1>6, <3>2, <3>3, <3>4
    <2> QED BY <2>1, <2>2, <2>3
<1>7. ASSUME NEW w \in Workers, Fail(w) PROVE Receipts'
    <2>1. /\ job[w] \in Jobs /\ job[w] \in Behind /\ pc'[w] = "idle" /\ receipt' = receipt
          /\ mishaps' = mishaps
          /\ \A v \in Workers \ {w} : pc'[v] = pc[v] /\ job'[v] = job[v]
        BY <1>0, <1>u, <1>7 DEF Fail, Rest, Goto, Typed, Receipts
    <2>2. /\ events' = [events EXCEPT ![job[w]] = Append(events[job[w]], "failed")]
          /\ "failed" \in Kind
        BY <1>7 DEF Fail, Happen, Kind, Outcome
    <2>3. \A i \in Jobs \ {job[w]} : Kept(i)
        BY <1>0, <2>1, <2>2 DEF Kept, Typed
    <2>4. Grew(job[w])
        BY <1>0, <2>1, <2>2 DEF Grew, Typed
    <2>5. \A i \in Jobs : Wrote(i) \/ Kept(i) \/ (Grew(i) /\ i \in {job[w]})
        BY <2>3, <2>4
    <2>6. \A v \in Workers : At(v, "unwritten")' => job'[v] \in Behind'
        <3>1. \A i \in Behind \ {job[w]} : i \in Behind'
            BY <2>3 DEF Behind, Kept
        <3> QED BY <1>h, <2>1, <3>1 DEF Receipts, At
    <2>7. {job[w]} \in SUBSET Jobs /\ {job[w]} \subseteq Behind /\ mishaps' >= mishaps
        BY <1>0, <2>1
    <2> QED BY <1>0, <2>1, <2>5, <2>6, <2>7, Balance DEF Receipts
<1> QED BY <1>1, <1>2, <1>3, <1>4, <1>5, <1>6, <1>7 DEF Next, Caller, Worker

\* The account is kept in every reachable state.
LEMMA ReceiptInvariance == Spec => [](Inv /\ SlotsKept /\ Receipts)
<1>1. Init => Receipts
    <2> SUFFICES ASSUME Init PROVE Receipts
        OBVIOUS
    <2>1. <<>> \in Seq(Kind) /\ Behind = {} /\ Cardinality({}) = 0 /\ mishaps = 0
        BY EmptySeq, FS_EmptySet DEF Init, Behind
    <2>2. \A j \in Jobs : Begins(receipt[j], events[j])
        BY <2>1, Whole DEF Init
    <2>3. receipt \in [Jobs -> Seq(Kind)] /\ \A w \in Workers : ~At(w, "unwritten")
        BY <2>1 DEF Init, At
    <2> QED BY <2>1, <2>2, <2>3 DEF Receipts
<1> QED BY <1>1, InitInv, NextInv, ReceiptStep, SlotInvariance, PTL DEF Spec

\* A receipt is a part of its job's history from the beginning, and is behind only as often
\* as writes failed, although the code writes it after the change and a failing job goes on.
THEOREM ReceiptsArePaidFor == Spec => []ReceiptsPaidFor
<1>1. Inv /\ Receipts => ReceiptsPaidFor
    BY DEF Receipts, Begins, Behind, ReceiptsPaidFor
<1> QED BY <1>1, ReceiptInvariance, PTL

\* The variables have their types, and the semaphore is never released beyond its bound,
\* which is why a release cannot raise.
THEOREM TypeCorrect == Spec => []TypeOK
<1>1. Inv /\ SlotsKept /\ Receipts => TypeOK
    <2> SUFFICES ASSUME Inv, SlotsKept, Receipts PROVE TypeOK
        OBVIOUS
    <2>1. /\ Cardinality(InQueue) \in Nat /\ Cardinality(Taken) \in Nat
          /\ Cardinality(refused) \in Nat /\ Size \in Nat /\ slots \in Nat
        BY CountedFinite, BrokerAssumption, FS_CardinalityType DEF Inv, Typed, Size
    <2>2. slots \in 0 .. Size
        BY <2>1 DEF SlotsKept, Taken
    <2> QED BY <2>2 DEF Inv, Typed, Receipts, TypeOK
<1> QED BY <1>1, ReceiptInvariance, PTL
=============================================================================
