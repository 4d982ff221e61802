------------------------ MODULE TelegramGatewayProofs ------------------------
(***************************************************************************)
(* Proofs about TelegramGateway for any number of slots and replies and    *)
(* any bound on mishaps: one owner, no reply lost that proposes nothing,   *)
(* and duplicates paid for.  The lease and the outbox are shown by         *)
(* themselves: a step of one leaves the invariant of the other alone, or   *)
(* only ends the threads of a process.                                     *)
(***************************************************************************)
EXTENDS TelegramGateway, FiniteSetTheorems, TLAPS

\* Only the holder of the guard looks at the lease or replaces it.
Guarded == \A p \in Slots : gw[p] \in {"try", "reclaim"} => guard = p

\* Who found the owner dead has nobody to fear: no gateway serves.
NobodyServes ==
    \A p \in Slots : gw[p] = "reclaim" => \A q \in Slots : gw[q] # "serving"

LeaseInv == LeaseTypeOK /\ Guarded /\ NobodyServes /\ OneOwner

\* Who is about to clear a row that is no proposal's has seen it accepted.
SentWasAccepted ==
    \A p \in Slots, r \in Replies \ Proposals : Discharged(p, r) => accepted[r] > 0

OutboxInv == OutboxTypeOK /\ SentWasAccepted /\ NothingLost

-----------------------------------------------------------------------------
(* The lease *)

\* Nobody owns the bot at first.
LEMMA LeaseInitInv == Init => LeaseInv
BY DEF Init, LeaseInit, LeaseInv, LeaseTypeOK, Guarded, NobodyServes, OneOwner,
       Stage

\* A live owner is found alive, so it is never taken for dead.
LEMMA ServingIsAlive ==
    ASSUME LeaseInv, NEW q \in Slots, gw[q] = "serving"
    PROVE  lease # NoLease /\ OwnerIsAlive(lease)
BY DEF LeaseInv, OneOwner, Owner, NoLease, OwnerIsAlive

\* The steps of a process that acquires.
LEMMA AcquiringInv ==
    ASSUME LeaseInv, NEW p \in Slots, Spawn(p) \/ Acquiring(p) \/ Raced(p)
    PROVE  LeaseInv'
<1> USE SlotAssumption DEF LeaseInv, LeaseTypeOK, Guarded, NobodyServes,
        OneOwner, Owner, InstanceId, Move, Stage
<1>1. CASE Spawn(p)
  BY <1>1 DEF Spawn, FreshBirth, FreshInstance
<1>2. CASE Guard(p)
  BY <1>2 DEF Guard
<1>3. CASE Link(p)
  BY <1>3, ServingIsAlive DEF Link
<1>4. CASE Refused(p)
  BY <1>4 DEF Refused
<1>5. CASE FindDead(p)
  BY <1>5, ServingIsAlive DEF FindDead
<1>6. CASE Unlink(p)
  BY <1>6 DEF Unlink
<1>7. CASE Raced(p)
  BY <1>7 DEF Raced
<1> QED BY <1>1, <1>2, <1>3, <1>4, <1>5, <1>6, <1>7 DEF Acquiring

\* The steps of a process that restarts, quits or dies, and of a stranger.
LEMMA LeavingInv ==
    ASSUME LeaseInv, NEW p \in Slots,
           \/ HardRestart(p) \/ Release(p) \/ ReleaseFails(p)
           \/ Exec(p) \/ ExecFails(p) \/ Exit(p) \/ Crash(p)
           \/ Reuse(p) \/ Vacate(p)
    PROVE  LeaseInv'
<1> USE SlotAssumption DEF LeaseInv, LeaseTypeOK, Guarded, NobodyServes,
        OneOwner, Owner, InstanceId, Move, Stage
<1>1. CASE HardRestart(p) \/ ReleaseFails(p) \/ ExecFails(p)
  BY <1>1 DEF HardRestart, ReleaseFails, ExecFails
<1>2. CASE Release(p)
  <2>1. ASSUME NEW q \in Slots, gw[q] = "serving"
        PROVE  lease' = lease
    BY <1>2, <2>1 DEF Release
  <2> QED BY <1>2, <2>1 DEF Release
<1>3. CASE Exec(p)
  BY <1>3 DEF Exec, FreshInstance
<1>4. CASE Exit(p) \/ Crash(p)
  BY <1>4 DEF Exit, Crash, Gateway
<1>5. CASE Reuse(p)
  BY <1>5 DEF Reuse, FreshBirth
<1>6. CASE Vacate(p)
  BY <1>6 DEF Vacate
<1> QED BY <1>1, <1>2, <1>3, <1>4, <1>5, <1>6

\* Serving replies, and the passing of time, leave the lease alone.
LEMMA LeaseStep == LeaseInv /\ [Next]_vars => LeaseInv'
<1> SUFFICES ASSUME LeaseInv, [Next]_vars PROVE LeaseInv'
  OBVIOUS
<1>1. ASSUME UNCHANGED leaseVars PROVE LeaseInv'
  BY <1>1 DEF leaseVars, LeaseInv, LeaseTypeOK, Guarded, NobodyServes, OneOwner,
              Owner, InstanceId
<1>2. CASE \E p \in Slots : Deciding(p)
  BY <1>2, AcquiringInv, LeavingInv DEF Deciding
<1>3. CASE \E p \in Slots : Ending(p)
  BY <1>3, LeavingInv DEF Ending
<1>4. CASE UNCHANGED vars
  BY <1>1, <1>4 DEF vars
<1> QED BY <1>1, <1>2, <1>3, <1>4 DEF Next

\* One gateway serves a bot, and the lease file names it.
THEOREM SingleOwner == Spec => []OneOwner
<1>1. Init => LeaseInv
  BY LeaseInitInv
<1>2. LeaseInv /\ [Next]_vars => LeaseInv'
  BY LeaseStep
<1>3. LeaseInv => OneOwner
  BY DEF LeaseInv
<1> QED BY <1>1, <1>2, <1>3, PTL DEF Spec

-----------------------------------------------------------------------------
(* Mishaps *)

\* Mishaps are counted one by one.
LEMMA MishapsCounted == ASSUME [Next]_vars PROVE Mishap \/ mishaps' = mishaps
<1>2. ASSUME NEW p \in Slots, Deciding(p) \/ Ending(p)
      PROVE  Mishap \/ mishaps' = mishaps
  BY <1>2 DEF Deciding, Ending, Acquiring, Spawn, Guard, Link, Refused,
              FindDead, Unlink, Raced, HardRestart, Release,
              ReleaseFails, Exec, ExecFails, Exit, Crash, Reuse, Vacate
<1>3. ASSUME NEW p \in Slots, Sweep(p) PROVE Mishap \/ mishaps' = mishaps
  BY <1>3 DEF Sweep, Claim, ClaimFails, Swept, Redeliver, GiveBack,
              GiveBackFails
<1>4. ASSUME NEW p \in Slots, NEW r \in Replies, Deliver(p, r)
      PROVE  Mishap \/ mishaps' = mishaps
  BY <1>4 DEF Deliver, MakeReply, RecordReply, RecordFails, Accepted, Rejected,
              AnswerLost, SendFails, Discharge, DischargeFails
<1>5. ASSUME NEW r \in Replies, Expire(r) PROVE mishaps' = mishaps
  BY <1>5 DEF Expire
<1> QED BY <1>2, <1>3, <1>4, <1>5 DEF Next, Serve, vars

\* Every mishap is counted up to the bound.
LEMMA MishapsBounded ==
    ASSUME mishaps \in 0..MaxMishaps, [Next]_vars
    PROVE  mishaps' \in 0..MaxMishaps
BY MishapsCounted, MishapAssumption DEF Mishap

-----------------------------------------------------------------------------
(* The outbox *)

\* What a sender does after a failure: it goes on sending, or is through; only the worker
\* of a proposal then counts it as sent.
LEMMA FailureTypes ==
    ASSUME NEW r \in Replies, NEW t \in {"html", "plain", "re_html", "re_plain"},
           NEW u \in AfterFailure(r, t)
    PROVE  /\ u \in {"none", "plain", "sent", "re_plain", "refused"}
           /\ u = "sent" => r \in Proposals
           /\ u \in {"re_plain", "refused"} => t \in {"re_html", "re_plain"}
BY DEF AfterFailure

\* Nothing is recorded at first.
LEMMA OutboxInitInv == Init => OutboxInv
BY DEF Init, OutboxInit, OutboxInv, OutboxTypeOK, SentWasAccepted, NothingLost,
       Discharged, Task, Row

\* A process that ends forgets what it was about, not what was accepted.
LEMMA AbandonInv ==
    ASSUME OutboxInv, NEW p \in Slots, Abandon(p)
    PROVE  OutboxInv'
BY DEF OutboxInv, OutboxTypeOK, SentWasAccepted, NothingLost, Discharged,
       Abandon, Task

\* A sweep claims, sends and gives back; it never clears a row by itself.
LEMMA SweepInv ==
    ASSUME OutboxInv, NEW p \in Slots, Sweep(p)
    PROVE  OutboxInv'
<1> USE DEF OutboxInv, OutboxTypeOK, SentWasAccepted, NothingLost, Discharged,
        Task, Row, Do, Mark
<1>1. CASE Claim(p)
  BY <1>1 DEF Claim, Claimable
<1>2. CASE ClaimFails(p) \/ Swept(p)
  BY <1>2 DEF ClaimFails, Swept
<1>3. ASSUME NEW r \in Replies, Redeliver(p, r) PROVE OutboxInv'
  BY <1>3 DEF Redeliver
<1>4. ASSUME NEW r \in Replies, GiveBack(p, r) PROVE OutboxInv'
  BY <1>4 DEF GiveBack
<1>5. ASSUME NEW r \in Replies, GiveBackFails(p, r) PROVE OutboxInv'
  BY <1>5 DEF GiveBackFails
<1> QED BY <1>1, <1>2, <1>3, <1>4, <1>5 DEF Sweep

\* A row is cleared only behind an accepted send, or a proposal's.
LEMMA DeliverInv ==
    ASSUME OutboxInv, NEW p \in Slots, NEW r \in Replies, Deliver(p, r)
    PROVE  OutboxInv'
<1> USE DEF OutboxInv, OutboxTypeOK, SentWasAccepted, NothingLost, Discharged,
        Task, Row, Do, Mark
<1>1. CASE MakeReply(p, r)
  BY <1>1 DEF MakeReply
<1>2. CASE RecordReply(p, r)
  BY <1>2 DEF RecordReply
<1>8. CASE RecordFails(p, r)
  BY <1>8 DEF RecordFails
<1>3. CASE Accepted(p, r)
  BY <1>3 DEF Accepted, Sending
<1>4. CASE Rejected(p, r)
  BY <1>4, FailureTypes DEF Rejected, SendFails, Sending
<1>5. CASE AnswerLost(p, r)
  BY <1>5, FailureTypes DEF AnswerLost, SendFails, Sending
<1>6. CASE Discharge(p, r)
  BY <1>6 DEF Discharge
<1>7. CASE DischargeFails(p, r)
  BY <1>7 DEF DischargeFails
<1> QED BY <1>1, <1>2, <1>3, <1>4, <1>5, <1>6, <1>7, <1>8
       DEF Deliver

\* Steps on the lease leave the outbox alone, or end a process.
LEMMA OutboxStep == OutboxInv /\ [Next]_vars => OutboxInv'
<1> SUFFICES ASSUME OutboxInv, [Next]_vars PROVE OutboxInv'
  OBVIOUS
<1>1. ASSUME UNCHANGED outboxVars PROVE OutboxInv'
  BY <1>1 DEF outboxVars, OutboxInv, OutboxTypeOK, SentWasAccepted, NothingLost,
              Discharged
<1>2. CASE \E p \in Slots : Ending(p) /\ Abandon(p)
  BY <1>2, AbandonInv
<1>3. CASE \E p \in Slots : Serve(p)
  BY <1>3, SweepInv, DeliverInv DEF Serve
<1>4. ASSUME NEW r \in Replies, Expire(r) PROVE OutboxInv'
  BY <1>4 DEF Expire, Mark, OutboxInv, OutboxTypeOK, SentWasAccepted,
              NothingLost, Discharged, Row
<1>5. CASE UNCHANGED vars
  BY <1>1, <1>5 DEF vars
<1> QED BY <1>1, <1>2, <1>3, <1>4, <1>5 DEF Next

\* A recorded reply that is no proposal leaves the outbox only after the platform accepted
\* it.
THEOREM NoReplyLost == Spec => []NothingLost
<1>1. Init => OutboxInv
  BY OutboxInitInv
<1>2. OutboxInv /\ [Next]_vars => OutboxInv'
  BY OutboxStep
<1>3. OutboxInv => NothingLost
  BY DEF OutboxInv
<1> QED BY <1>1, <1>2, <1>3, PTL DEF Spec

\* The lease file, the guard, the processes and the outbox keep their types.
THEOREM GatewayTypeCorrect == Spec => []TypeOK
<1> DEFINE Inv == LeaseInv /\ OutboxInv /\ mishaps \in 0..MaxMishaps
<1>1. Init => Inv
  BY LeaseInitInv, OutboxInitInv, MishapAssumption DEF Init
<1>2. Inv /\ [Next]_vars => Inv'
  BY LeaseStep, OutboxStep, MishapsBounded
<1>3. Inv => TypeOK
  BY DEF LeaseInv, OutboxInv, TypeOK
<1> QED BY <1>1, <1>2, <1>3, PTL DEF Spec

-----------------------------------------------------------------------------
(* Duplicates *)

\* The process has the reply in hand and has not been told that it was accepted.
InHand(p, r) == task[p][r] \in Task \ {"none", "sent", "re_sent"}

\* The process may yet send the reply without a mishap: it has it in hand, its sweep is
\* still to come, or the reply is still to be made.
MaySend(p, r) == sweep[p] = "due" \/ InHand(p, r) \/ row[r] = "absent"

Senders(r) == {p \in Slots : Polling(p) /\ MaySend(p, r)}

\* The bot has no gateway, so that one more may come to serve it.
Vacant == \A p \in Slots : gw[p] # "serving"

\* What was accepted, what may yet be sent and who may yet come are paid for.
Balance(r) ==
    /\ IsFiniteSet(Senders(r))
    /\ accepted[r] + Cardinality(Senders(r)) + (IF Vacant THEN 1 ELSE 0) <= 1 + mishaps

\* A process that has not swept has nothing in hand, and a reply is recorded before it
\* is sent.
Begun ==
    \A p \in Slots, r \in Replies :
        /\ sweep[p] = "due" => task[p][r] = "none"
        /\ row[r] = "absent" => task[p][r] \in {"none", "made"}

GatewayInv == LeaseInv /\ OutboxInv /\ mishaps \in 0..MaxMishaps

\* What a step may do to the balance of a reply: spend nothing; spend a mishap; fill the
\* vacancy; or have the reply accepted from one that might send it.
Sparing(r) ==
    /\ accepted'[r] = accepted[r] /\ Senders(r)' \subseteq Senders(r)
    /\ Vacant' => Vacant
    /\ mishaps' >= mishaps

Paying(r) ==
    /\ mishaps' = mishaps + 1 /\ Senders(r)' \subseteq Senders(r)
    /\ \/ accepted'[r] = accepted[r]
       \/ accepted'[r] = accepted[r] + 1 /\ (Vacant' => Vacant)

Filling(r) ==
    /\ accepted'[r] = accepted[r] /\ mishaps' = mishaps
    /\ \E p : Senders(r)' \subseteq Senders(r) \cup {p}
    /\ Vacant /\ ~Vacant'

Taking(r) ==
    /\ accepted'[r] = accepted[r] + 1 /\ mishaps' = mishaps
    /\ \E p \in Senders(r) : Senders(r)' \subseteq Senders(r) \ {p}
    /\ Vacant' => Vacant

\* Each of them keeps the balance.
LEMMA Balanced ==
    ASSUME NEW r \in Replies, Balance(r), accepted[r] \in Nat, mishaps \in Nat,
           mishaps' \in Nat,
           Sparing(r) \/ Paying(r) \/ Filling(r) \/ Taking(r)
    PROVE  Balance(r)'
<1> DEFINE S == Senders(r)
<1>1. IsFiniteSet(S) /\ Cardinality(S) \in Nat
  BY FS_CardinalityType DEF Balance
<1>2. CASE Sparing(r) \/ Paying(r)
  <2>1. S' \subseteq S
    BY <1>2 DEF Sparing, Paying
  <2>2. IsFiniteSet(S') /\ Cardinality(S') \in Nat /\ Cardinality(S') <= Cardinality(S)
    BY <1>1, <2>1, FS_Subset, FS_CardinalityType
  <2> QED BY <1>1, <1>2, <2>2 DEF Balance, Sparing, Paying
<1>3. CASE Filling(r)
  <2>1. PICK p : S' \subseteq S \cup {p}
    BY <1>3 DEF Filling
  <2>2. IsFiniteSet(S \cup {p}) /\ Cardinality(S \cup {p}) <= Cardinality(S) + 1
    <3>1. /\ IsFiniteSet(S \cup {p})
          /\ Cardinality(S \cup {p}) = IF p \in S THEN Cardinality(S) ELSE Cardinality(S) + 1
      BY <1>1, FS_AddElement
    <3> QED BY <1>1, <3>1
  <2>3. /\ IsFiniteSet(S') /\ Cardinality(S') \in Nat /\ Cardinality(S \cup {p}) \in Nat
        /\ Cardinality(S') <= Cardinality(S \cup {p})
    BY <2>1, <2>2, FS_Subset, FS_CardinalityType
  <2> QED BY <1>1, <1>3, <2>2, <2>3 DEF Balance, Filling
<1>4. CASE Taking(r)
  <2>1. PICK p \in S : S' \subseteq S \ {p}
    BY <1>4 DEF Taking
  <2>2. IsFiniteSet(S \ {p}) /\ Cardinality(S \ {p}) = Cardinality(S) - 1
    BY <1>1, FS_RemoveElement
  <2>3. /\ IsFiniteSet(S') /\ Cardinality(S') \in Nat
        /\ Cardinality(S') <= Cardinality(S \ {p})
    BY <2>1, <2>2, FS_Subset, FS_CardinalityType
  <2> QED BY <1>1, <1>4, <2>2, <2>3 DEF Balance, Taking
<1> QED BY <1>2, <1>3, <1>4

\* A step of a process on the lease: the vacancy it leaves costs a mishap, and the one it
\* fills is its own.
LEMMA DecidingBalance ==
    ASSUME GatewayInv, NEW r \in Replies, NEW p \in Slots,
           Deciding(p), UNCHANGED outboxVars
    PROVE  Sparing(r) \/ Paying(r) \/ Filling(r)
<1> USE DEF GatewayInv, LeaseInv, LeaseTypeOK, Move, Mishap
<1>0. accepted' = accepted /\ \A q : MaySend(q, r)' <=> MaySend(q, r)
  BY DEF outboxVars, MaySend, InHand
<1>1. CASE Link(p)
  <2>1. Vacant /\ ~Vacant' /\ mishaps' = mishaps
    BY <1>1, ServingIsAlive DEF Link, Vacant
  <2>2. Senders(r)' \subseteq Senders(r) \cup {p}
    BY <1>0, <1>1 DEF Link, Senders, Polling
  <2> QED BY <1>0, <2>1, <2>2 DEF Filling
<1>2. CASE Spawn(p) \/ Guard(p) \/ Refused(p) \/ FindDead(p) \/ Unlink(p) \/ Release(p)
           \/ Vacate(p)
  <2>1. Senders(r)' \subseteq Senders(r) /\ (Vacant' => Vacant)
    BY <1>0, <1>2 DEF Spawn, Guard, Refused, FindDead, Unlink, Release, Vacate, Senders,
                      Polling, Vacant
  <2>2. mishaps' = mishaps
    BY <1>2 DEF Spawn, Guard, Refused, FindDead, Unlink, Release, Vacate
  <2> QED BY <1>0, <2>1, <2>2 DEF Sparing
<1>3. CASE Raced(p) \/ HardRestart(p) \/ ReleaseFails(p) \/ ExecFails(p) \/ Reuse(p)
  <2>1. Senders(r)' \subseteq Senders(r)
    BY <1>0, <1>3 DEF Raced, HardRestart, ReleaseFails, ExecFails, Reuse, Senders,
                      Polling
  <2>2. mishaps' = mishaps + 1
    BY <1>3 DEF Raced, HardRestart, ReleaseFails, ExecFails, Reuse
  <2> QED BY <1>0, <2>1, <2>2 DEF Paying
<1> QED BY <1>1, <1>2, <1>3 DEF Deciding, Acquiring

\* A process that ends sends no more; if it served, it ends by a mishap.
LEMMA EndingBalance ==
    ASSUME GatewayInv, NEW r \in Replies, NEW p \in Slots, Ending(p), Abandon(p)
    PROVE  Sparing(r) \/ Paying(r)
<1> USE DEF GatewayInv, LeaseInv, LeaseTypeOK, OutboxInv, OutboxTypeOK, Move
<1>1. accepted' = accepted /\ \A q \in Slots : q # p => (MaySend(q, r)' <=> MaySend(q, r))
  BY DEF Abandon, MaySend, InHand
<1>2. gw' \in [Slots -> Stage] /\ gw'[p] \in {"boot", "off"}
      /\ \A q \in Slots : q # p => gw'[q] = gw[q]
  BY DEF Ending, Exec, Exit, Crash, Stage
<1>3. Senders(r)' \subseteq Senders(r)
  BY <1>1, <1>2 DEF Senders, Polling
<1>4. CASE Crash(p)
  BY <1>1, <1>3, <1>4 DEF Crash, Mishap, Paying
<1>5. CASE Exec(p) \/ Exit(p)
  <2>1. mishaps' = mishaps /\ (Vacant' => Vacant)
    BY <1>2, <1>5 DEF Exec, Exit, Vacant
  <2> QED BY <1>1, <1>3, <2>1 DEF Sparing
<1> QED BY <1>4, <1>5 DEF Ending

\* A step of a polling process on the outbox, or the passing of time: nothing comes into
\* anybody's hands that might not have been sent before.
LEMMA ServingBalance ==
    ASSUME GatewayInv, Begun, NEW r \in Replies, NEW p \in Slots, Polling(p), Serve(p),
           UNCHANGED leaseVars
    PROVE  Sparing(r) \/ Paying(r) \/ Taking(r)
<1> USE DEF GatewayInv, OutboxInv, OutboxTypeOK, Do, Mark, Mishap
<1>0. Vacant' = Vacant /\ \A q : Polling(q)' <=> Polling(q)
  BY DEF leaseVars, Vacant, Polling
<1>1. ASSUME \A q \in Slots : MaySend(q, r)' => MaySend(q, r),
             accepted'[r] = accepted[r], Mishap \/ mishaps' = mishaps
      PROVE  Sparing(r)
  BY <1>0, <1>1 DEF Sparing, Senders
<1>2. CASE Claim(p)
  <2>1. \A q \in Slots : MaySend(q, r)' => MaySend(q, r)
    BY <1>2 DEF Claim, Claimable, MaySend, InHand
  <2> QED BY <1>1, <1>2, <2>1 DEF Claim
<1>3. CASE ClaimFails(p) \/ Swept(p)
  <2>1. \A q \in Slots : MaySend(q, r)' => MaySend(q, r)
    BY <1>3 DEF ClaimFails, Swept, MaySend, InHand
  <2> QED BY <1>1, <1>3, <2>1 DEF ClaimFails, Swept
<1>4. ASSUME NEW s \in Replies, Redeliver(p, s) \/ GiveBack(p, s) \/ GiveBackFails(p, s)
      PROVE  Sparing(r)
  <2>1. \A q \in Slots : MaySend(q, r)' => MaySend(q, r)
    <3>1. CASE Redeliver(p, s)
      BY <3>1 DEF Redeliver, MaySend, InHand, Task
    <3>2. CASE GiveBack(p, s)
      BY <3>2 DEF GiveBack, MaySend, InHand
    <3>3. CASE GiveBackFails(p, s)
      BY <3>3 DEF GiveBackFails, MaySend, InHand
    <3> QED BY <1>4, <3>1, <3>2, <3>3
  <2> QED BY <1>1, <1>4, <2>1 DEF Redeliver, GiveBack, GiveBackFails
<1>5. ASSUME NEW s \in Replies,
             \/ MakeReply(p, s) \/ RecordReply(p, s) \/ RecordFails(p, s) \/ Rejected(p, s)
             \/ Discharge(p, s) \/ DischargeFails(p, s)
      PROVE  Sparing(r)
  <2>1. \A q \in Slots : MaySend(q, r)' => MaySend(q, r)
    <3>1. CASE MakeReply(p, s)
      BY <3>1 DEF MakeReply, MaySend, InHand
    <3>2. CASE RecordReply(p, s)
      BY <3>2 DEF RecordReply, MaySend, InHand, Task
    <3>3. CASE RecordFails(p, s)
      BY <3>3 DEF RecordFails, MaySend, InHand, Task
    <3>4. CASE Rejected(p, s)
      BY <3>4, FailureTypes DEF Rejected, SendFails, Sending, MaySend, InHand, Task
    <3>5. CASE Discharge(p, s)
      BY <3>5 DEF Discharge, MaySend, InHand
    <3>6. CASE DischargeFails(p, s)
      BY <3>6 DEF DischargeFails, MaySend, InHand
    <3> QED BY <1>5, <3>1, <3>2, <3>3, <3>4, <3>5, <3>6
  <2> QED
    BY <1>1, <1>5, <2>1
       DEF MakeReply, RecordReply, RecordFails, Rejected, Discharge, DischargeFails
<1>6. ASSUME NEW s \in Replies, AnswerLost(p, s) PROVE Paying(r)
  <2>1. \A q \in Slots : MaySend(q, r)' => MaySend(q, r)
    BY <1>6, FailureTypes DEF AnswerLost, SendFails, Sending, MaySend, InHand, Task
  <2>2. accepted'[r] = accepted[r] \/ accepted'[r] = accepted[r] + 1
    BY <1>6 DEF AnswerLost
  <2> QED BY <1>0, <1>6, <2>1, <2>2 DEF AnswerLost, Paying, Senders
<1>7. ASSUME NEW s \in Replies, Accepted(p, s) PROVE Sparing(r) \/ Taking(r)
  <2>1. \A q \in Slots : MaySend(q, r)' => MaySend(q, r)
    BY <1>7 DEF Accepted, Sending, MaySend, InHand, Task
  <2>2. CASE s # r
    BY <1>1, <1>7, <2>1, <2>2 DEF Accepted
  <2>3. CASE s = r
    <3>1. MaySend(p, r)
      BY <1>7, <2>3 DEF Accepted, Sending, MaySend, InHand, Task
    <3>2. ~MaySend(p, r)'
      BY <1>7, <2>3 DEF Accepted, Sending, Begun, MaySend, InHand
    <3>3. Senders(r)' \subseteq Senders(r) \ {p} /\ p \in Senders(r)
      BY <1>0, <2>1, <3>1, <3>2 DEF Senders
    <3>4. accepted'[r] = accepted[r] + 1 /\ mishaps' = mishaps
      BY <1>7, <2>3 DEF Accepted
    <3> QED BY <1>0, <3>3, <3>4 DEF Taking
  <2> QED BY <2>2, <2>3
<1> QED BY <1>2, <1>3, <1>4, <1>5, <1>6, <1>7 DEF Serve, Sweep, Deliver

\* Nothing is sent before its row is written, and nothing is in hand before the sweep.
LEMMA BegunStep == ASSUME OutboxInv, Begun, [Next]_vars PROVE Begun'
<1> USE DEF OutboxInv, OutboxTypeOK, Begun, Do, Mark, Task, Row
<1>1. CASE UNCHANGED outboxVars
  BY <1>1 DEF outboxVars
<1>2. CASE \E p \in Slots : Abandon(p)
  BY <1>2 DEF Abandon
<1>3. ASSUME NEW p \in Slots, Sweep(p) PROVE Begun'
  <2>1. CASE Claim(p) \/ ClaimFails(p) \/ Swept(p)
    BY <1>3, <2>1 DEF Claim, ClaimFails, Swept, Claimable
  <2>2. ASSUME NEW r \in Replies, Redeliver(p, r) \/ GiveBack(p, r) \/ GiveBackFails(p, r)
        PROVE  Begun'
    BY <2>2 DEF Redeliver, GiveBack, GiveBackFails
  <2> QED BY <1>3, <2>1, <2>2 DEF Sweep
<1>4. ASSUME NEW p \in Slots, NEW r \in Replies, Deliver(p, r) PROVE Begun'
  <2>1. CASE MakeReply(p, r)
    BY <2>1 DEF MakeReply
  <2>2. CASE RecordReply(p, r) \/ RecordFails(p, r)
    BY <2>2 DEF RecordReply, RecordFails
  <2>3. CASE Accepted(p, r) \/ Rejected(p, r) \/ AnswerLost(p, r)
    BY <2>3, FailureTypes DEF Accepted, Rejected, AnswerLost, SendFails, Sending
  <2>4. CASE Discharge(p, r)
    BY <2>4 DEF Discharge
  <2>5. CASE DischargeFails(p, r)
    BY <2>5 DEF DischargeFails
  <2> QED BY <1>4, <2>1, <2>2, <2>3, <2>4, <2>5 DEF Deliver
<1>5. ASSUME NEW r \in Replies, Expire(r) PROVE Begun'
  BY <1>5 DEF Expire
<1> QED BY <1>1, <1>2, <1>3, <1>4, <1>5 DEF Next, Serve, vars

\* Every step keeps the balance of every reply.
LEMMA BalanceStep ==
    ASSUME GatewayInv, Begun, [Next]_vars, NEW r \in Replies, Balance(r)
    PROVE  Balance(r)'
<1>1. accepted[r] \in Nat /\ mishaps \in Nat /\ mishaps' \in Nat
  BY MishapsBounded, MishapAssumption DEF GatewayInv, OutboxInv, OutboxTypeOK
<1>2. CASE \E p \in Slots : Deciding(p) /\ UNCHANGED outboxVars
  BY <1>1, <1>2, DecidingBalance, Balanced
<1>3. CASE \E p \in Slots : Ending(p) /\ Abandon(p)
  BY <1>1, <1>3, EndingBalance, Balanced
<1>4. CASE \E p \in Slots : Polling(p) /\ Serve(p) /\ UNCHANGED leaseVars
  BY <1>1, <1>4, ServingBalance, Balanced
<1>5. CASE (\E s \in Replies : Expire(s) /\ UNCHANGED leaseVars) \/ UNCHANGED vars
  <2>1. UNCHANGED <<leaseVars, task, sweep, accepted, mishaps>>
        /\ (row'[r] = "absent" => row[r] = "absent")
    BY <1>5 DEF Expire, Mark, vars, outboxVars, GatewayInv, OutboxInv, OutboxTypeOK
  <2>2. Sparing(r)
    BY <1>1, <2>1 DEF leaseVars, Sparing, Senders, MaySend, InHand, Polling, Vacant
  <2> QED BY <1>1, <2>2, Balanced
<1> QED BY <1>2, <1>3, <1>4, <1>5 DEF Next

\* At first nobody has anything in hand and the bot has no gateway.
LEMMA InitBalance == Init => Begun /\ \A r \in Replies : Balance(r)
<1> SUFFICES ASSUME Init PROVE Begun /\ \A r \in Replies : Balance(r)
  OBVIOUS
<1>1. Begun
  BY DEF Init, OutboxInit, Begun
<1>2. ASSUME NEW r \in Replies PROVE Balance(r)
  <2>1. Senders(r) = {} /\ Vacant /\ accepted[r] = 0 /\ mishaps = 0
    BY DEF Init, LeaseInit, OutboxInit, Senders, Polling, Vacant
  <2> QED BY <2>1, FS_EmptySet DEF Balance
<1> QED BY <1>1, <1>2

\* Every mishap costs at most one duplicate of a reply: what was accepted, who may yet
\* send it and the gateway that may yet come are never more than one and the mishaps.
THEOREM DuplicatesArePaidFor == Spec => []DuplicatesPaidFor
<1> DEFINE Inv == GatewayInv /\ Begun /\ \A r \in Replies : Balance(r)
<1>1. Init => Inv
  BY InitBalance, LeaseInitInv, OutboxInitInv, MishapAssumption DEF Init, GatewayInv
<1>2. Inv /\ [Next]_vars => Inv'
  <2>1. Inv /\ [Next]_vars => GatewayInv'
    BY LeaseStep, OutboxStep, MishapsBounded DEF GatewayInv
  <2>2. Inv /\ [Next]_vars => Begun'
    BY BegunStep DEF GatewayInv
  <2> QED BY <2>1, <2>2, BalanceStep
<1>3. Inv => DuplicatesPaidFor
  <2> SUFFICES ASSUME Inv, NEW r \in Replies PROVE accepted[r] <= 1 + mishaps
    BY DEF DuplicatesPaidFor
  <2>1. accepted[r] \in Nat /\ mishaps \in Nat /\ Cardinality(Senders(r)) \in Nat
    BY MishapAssumption, FS_CardinalityType DEF GatewayInv, OutboxInv, OutboxTypeOK, Balance
  <2> QED BY <2>1 DEF Balance
<1> QED BY <1>1, <1>2, <1>3, PTL DEF Spec

-----------------------------------------------------------------------------
(* The outbox keeps its promise: it implements AtLeastOnce *)

\* A reply is made by one process while it has no row, and what a sweep has in hand is
\* recorded.
Recorded ==
    \A p \in Slots, r \in Replies :
        /\ task[p][r] = "made" =>
              row[r] = "absent" /\ \A q \in Slots : task[q][r] = "made" => q = p
        /\ task[p][r] \in {"owed", "re_html", "re_plain", "re_sent", "refused"}
              => row[r] \notin {"absent", "unowed"}

LEMMA RecordedStep == ASSUME OutboxInv, Begun, Recorded, [Next]_vars PROVE Recorded'
<1> USE DEF OutboxInv, OutboxTypeOK, Begun, Recorded, Do, Mark, Task, Row
<1>1. CASE UNCHANGED outboxVars
  BY <1>1 DEF outboxVars
<1>2. CASE \E p \in Slots : Abandon(p)
  BY <1>2 DEF Abandon
<1>3. ASSUME NEW p \in Slots, Sweep(p) PROVE Recorded'
  <2>1. CASE Claim(p)
    BY <2>1 DEF Claim, Claimable
  <2>2. CASE ClaimFails(p) \/ Swept(p)
    BY <2>2 DEF ClaimFails, Swept
  <2>3. ASSUME NEW r \in Replies, Redeliver(p, r) PROVE Recorded'
    BY <2>3 DEF Redeliver
  <2>4. ASSUME NEW r \in Replies, GiveBack(p, r) PROVE Recorded'
    BY <2>4 DEF GiveBack
  <2>5. ASSUME NEW r \in Replies, GiveBackFails(p, r) PROVE Recorded'
    BY <2>5 DEF GiveBackFails
  <2> QED BY <1>3, <2>1, <2>2, <2>3, <2>4, <2>5 DEF Sweep
<1>4. ASSUME NEW p \in Slots, NEW r \in Replies, Deliver(p, r) PROVE Recorded'
  <2>1. CASE MakeReply(p, r)
    BY <2>1 DEF MakeReply
  <2>2. CASE RecordReply(p, r)
    BY <2>2 DEF RecordReply
  <2>3. CASE RecordFails(p, r)
    BY <2>3 DEF RecordFails
  <2>4. CASE Accepted(p, r)
    BY <2>4 DEF Accepted, Sending
  <2>5. CASE Rejected(p, r) \/ AnswerLost(p, r)
    <3>1. PICK t \in AfterFailure(r, task[p][r]) : task' = [task EXCEPT ![p][r] = t]
      BY <2>5 DEF Rejected, AnswerLost, SendFails
    <3>2. /\ t \notin {"made", "owed", "re_html", "re_sent"}
          /\ t \in {"re_plain", "refused"} => task[p][r] \in {"re_html", "re_plain"}
      BY <2>5, <3>1, FailureTypes DEF Rejected, AnswerLost, SendFails, Sending
    <3> QED BY <2>5, <3>1, <3>2 DEF Rejected, AnswerLost
  <2>6. CASE Discharge(p, r)
    BY <2>6 DEF Discharge, Discharged
  <2>7. CASE DischargeFails(p, r)
    BY <2>7 DEF DischargeFails
  <2> QED BY <1>4, <2>1, <2>2, <2>3, <2>4, <2>5, <2>6, <2>7 DEF Deliver
<1>5. ASSUME NEW r \in Replies, Expire(r) PROVE Recorded'
  BY <1>5 DEF Expire
<1> QED BY <1>1, <1>2, <1>3, <1>4, <1>5 DEF Next, Serve, vars

Entries == [r \in Replies |-> Entry(r)]
PromiseStep == [Promise!Next]_(Promise!vars)

\* The entry of one reply changes.
LEMMA OneEntry ==
    ASSUME NEW r \in Replies, NEW e, Entry(r)' = e,
           \A s \in Replies \ {r} : Entry(s)' = Entry(s)
    PROVE  Entries' = [Entries EXCEPT ![r] = e]
BY DEF Entries

\* No entry changes and nothing is delivered; there may have been a fault.
LEMMA Aside ==
    ASSUME \A s \in Replies : Entry(s)' = Entry(s), accepted' = accepted,
           Mishap \/ mishaps' = mishaps
    PROVE  PromiseStep
<1>1. Entries' = Entries
  BY DEF Entries
<1>2. CASE mishaps' = mishaps
  BY <1>1, <1>2 DEF PromiseStep, Promise!vars, Entries
<1>3. CASE Mishap
  <2>1. Promise!Fault
    BY <1>1, <1>3 DEF Promise!Fault, Mishap, Entries
  <2> QED BY <2>1 DEF PromiseStep, Promise!Next
<1> QED BY <1>2, <1>3

\* A process polls: it enters a reply, delivers one, strikes one out, or hands entries
\* on.
LEMMA ServingPromise ==
    ASSUME GatewayInv, Begun, Recorded, \A s \in Replies : Balance(s)',
           NEW p \in Slots, Serve(p), Mishap \/ mishaps' = mishaps
    PROVE  PromiseStep
<1> USE DEF GatewayInv, OutboxInv, OutboxTypeOK, Do, Mark, Row
<1>1. CASE Claim(p)
  <2>1. \A s \in Replies : Entry(s)' = Entry(s)
    BY <1>1 DEF Claim, Claimable, Entry
  <2> QED BY <1>1, <2>1, Aside DEF Claim
<1>2. CASE ClaimFails(p) \/ Swept(p)
  BY <1>2, Aside DEF ClaimFails, Swept, Entry
<1>3. ASSUME NEW r \in Replies, Redeliver(p, r) \/ GiveBackFails(p, r) PROVE PromiseStep
  BY <1>3, Aside DEF Redeliver, GiveBackFails, Entry
<1>4. ASSUME NEW r \in Replies, GiveBack(p, r) PROVE PromiseStep
  <2>1. row[r] \notin {"absent", "unowed"}
    BY <1>4 DEF GiveBack, Recorded
  <2>2. \A s \in Replies : Entry(s)' = Entry(s)
    BY <1>4, <2>1 DEF GiveBack, Entry
  <2> QED BY <1>4, <2>2, Aside DEF GiveBack
<1>5. ASSUME NEW r \in Replies,
             MakeReply(p, r) \/ Rejected(p, r) \/ DischargeFails(p, r)
      PROVE  PromiseStep
  BY <1>5, Aside DEF MakeReply, Rejected, SendFails, DischargeFails, Entry
<1>6. ASSUME NEW r \in Replies, RecordReply(p, r) \/ RecordFails(p, r) PROVE PromiseStep
  <2>1. /\ Entry(r) = "none" /\ \A s \in Replies \ {r} : Entry(s)' = Entry(s)
        /\ \/ Entry(r)' = "owed" /\ mishaps' = mishaps
           \/ Entry(r)' = "unowed" /\ mishaps' = mishaps + 1
        /\ accepted' = accepted
    BY <1>6 DEF RecordReply, RecordFails, Recorded, Entry, Mishap
  <2>2. Entries' = [Entries EXCEPT ![r] = Entry(r)']
    BY <2>1, OneEntry
  <2>3. Promise!Enter(r)
    BY <2>1, <2>2 DEF Promise!Enter, Entries
  <2> QED BY <2>3 DEF PromiseStep, Promise!Next
<1>7. ASSUME NEW r \in Replies, Accepted(p, r) \/ AnswerLost(p, r) PROVE PromiseStep
  <2>1. Entries' = Entries
    BY <1>7 DEF Accepted, AnswerLost, Entries, Entry
  <2>2. Entry(r) # "none"
    BY <1>7 DEF Accepted, AnswerLost, SendFails, Sending, Begun, Entry
  <2>3. /\ accepted' = [accepted EXCEPT ![r] = @ + 1]
        /\ mishaps' \in {mishaps, mishaps + 1}
    BY <1>7 DEF Accepted, AnswerLost, Mishap
  <2>4. accepted[r] <= mishaps'
    <3>1. Cardinality(Senders(r)') \in Nat
      BY FS_CardinalityType DEF Balance
    <3>2. accepted'[r] <= 1 + mishaps'
      BY <2>3, <3>1, MishapAssumption DEF Balance
    <3> QED BY <2>3, <3>2, MishapAssumption
  <2>5. Promise!Deliver(r)
    BY <2>1, <2>2, <2>3, <2>4 DEF Promise!Deliver, Entries
  <2> QED BY <2>5 DEF PromiseStep, Promise!Next
<1>8. ASSUME NEW r \in Replies, Discharge(p, r) PROVE PromiseStep
  <2>1. Entry(r) # "none" /\ (accepted[r] > 0 \/ r \in Proposals)
    BY <1>8 DEF Discharge, Discharged, Begun, SentWasAccepted, Entry
  <2>2. Entry(r)' = "struck" /\ \A s \in Replies \ {r} : Entry(s)' = Entry(s)
    BY <1>8 DEF Discharge, Entry
  <2>3. Entries' = [Entries EXCEPT ![r] = "struck"]
    BY <2>2, OneEntry
  <2>4. Promise!Strike(r)
    BY <1>8, <2>1, <2>3 DEF Discharge, Promise!Strike, Entries
  <2> QED BY <2>4 DEF PromiseStep, Promise!Next
<1> QED BY <1>1, <1>2, <1>3, <1>4, <1>5, <1>6, <1>7, <1>8 DEF Serve, Sweep, Deliver

\* Every step is one of the promise or leaves it alone.
LEMMA PromiseKept ==
    ASSUME GatewayInv, Begun, Recorded, \A r \in Replies : Balance(r), [Next]_vars
    PROVE  PromiseStep
<1>1. Mishap \/ mishaps' = mishaps
  BY MishapsCounted
<1>2. \A r \in Replies : Balance(r)'
  BY BalanceStep
<1>3. ASSUME UNCHANGED <<row, accepted>> PROVE PromiseStep
  BY <1>1, <1>3, Aside DEF Entry
<1>4. CASE \E p \in Slots : Serve(p)
  BY <1>1, <1>2, <1>4, ServingPromise
<1>5. ASSUME NEW r \in Replies, Expire(r) PROVE PromiseStep
  <2>1. \A s \in Replies : Entry(s)' = Entry(s)
    BY <1>5 DEF Expire, Mark, Entry, GatewayInv, OutboxInv, OutboxTypeOK
  <2> QED BY <1>5, <2>1, Aside DEF Expire
<1> QED BY <1>3, <1>4, <1>5 DEF Next, Abandon, outboxVars, vars

\* The gateways and their outbox implement a durable outbox: a reply is recorded before it
\* is sent, or given up as unrecorded for a fault; one that is no proposal stays recorded
\* until it is accepted, and none comes back once cleared; and it is accepted once, and once more for each fault.
THEOREM OutboxImplementsAtLeastOnce == Spec => KeepsReplies
<1> DEFINE Inv == /\ GatewayInv /\ Begun /\ Recorded
                  /\ \A r \in Replies : Balance(r)
<1>1. Init => Inv
  <2>1. Init => Recorded
    BY DEF Init, OutboxInit, Recorded
  <2> QED BY <2>1, InitBalance, LeaseInitInv, OutboxInitInv, MishapAssumption
             DEF Init, GatewayInv
<1>2. Inv /\ [Next]_vars => Inv'
  <2>1. Inv /\ [Next]_vars => GatewayInv'
    BY LeaseStep, OutboxStep, MishapsBounded DEF GatewayInv
  <2>2. Inv /\ [Next]_vars => Begun' /\ Recorded'
    BY BegunStep, RecordedStep DEF GatewayInv
  <2> QED BY <2>1, <2>2, BalanceStep
<1>3. Init => Promise!Init
  BY DEF Init, OutboxInit, Promise!Init, Entry
<1>4. Inv /\ [Next]_vars => [Promise!Next]_(Promise!vars)
  BY PromiseKept DEF PromiseStep
<1> QED BY <1>1, <1>2, <1>3, <1>4, PTL DEF Spec, KeepsReplies, Promise!Spec
=============================================================================
