--------------------------- MODULE TelegramGateway ---------------------------
(***************************************************************************)
(* Gateway processes of one Telegram bot: TelegramLease decides who        *)
(* serves, DeliveryOutbox what becomes of the replies.  The lease is all   *)
(* that keeps a second gateway from sweeping rows a live one is sending.   *)
(***************************************************************************)
EXTENDS TelegramLease, DeliveryOutbox

vars == <<leaseVars, outboxVars, mishaps>>

Init == LeaseInit /\ OutboxInit /\ mishaps = 0

\* Steps on the lease that leave the threads of the process alone.
Deciding(p) ==
    \/ Spawn(p) \/ Acquiring(p) \/ Raced(p)
    \/ HardRestart(p) \/ Release(p) \/ ReleaseFails(p)
    \/ ExecFails(p) \/ Reuse(p) \/ Vacate(p)

\* Steps that end the threads of the process.
Ending(p) == Exec(p) \/ Exit(p) \/ Crash(p)

Sweep(p) ==
    \/ Claim(p) \/ ClaimFails(p) \/ Swept(p)
    \/ \E r \in Replies : Redeliver(p, r) \/ GiveBack(p, r)
                            \/ GiveBackFails(p, r)

Deliver(p, r) ==
    \/ MakeReply(p, r) \/ RecordReply(p, r) \/ RecordFails(p, r)
    \/ Accepted(p, r) \/ Rejected(p, r) \/ AnswerLost(p, r)
    \/ Discharge(p, r) \/ DischargeFails(p, r)

Serve(p) == Sweep(p) \/ \E r \in Replies : Deliver(p, r)

Next ==
    \/ \E p \in Slots :
         \/ Deciding(p) /\ UNCHANGED outboxVars
         \/ Ending(p) /\ Abandon(p)
         \/ Polling(p) /\ Serve(p) /\ UNCHANGED leaseVars
    \/ \E r \in Replies : Expire(r) /\ UNCHANGED leaseVars

Spec == Init /\ [][Next]_vars

\* Gateways are started again whenever they are gone, the guard is granted to
\* whoever polls for it, requests are answered, and time passes.
Fairness ==
    /\ \A p \in Slots :
         /\ WF_vars(Spawn(p) /\ UNCHANGED outboxVars)
         /\ SF_vars((Acquiring(p) \/ Release(p)) /\ UNCHANGED outboxVars)
         /\ WF_vars((Exec(p) \/ Exit(p)) /\ Abandon(p))
         /\ WF_vars(Polling(p) /\ Serve(p) /\ UNCHANGED leaseVars)
    /\ \A r \in Replies : WF_vars(Expire(r) /\ UNCHANGED leaseVars)

FairSpec == Spec /\ Fairness

-----------------------------------------------------------------------------
(* Properties of the composition; the components state theirs *)

TypeOK == LeaseTypeOK /\ OutboxTypeOK /\ mishaps \in 0..MaxMishaps

\* The bot does not stay unattended: after the last mishap a gateway polls it
\* for good, whatever lease the dead left behind, unless the pid of a dead
\* owner went to a process whose creation time cannot be read.
Attended ==
    <>[](\/ \E p \in Slots : gw[p] \in {"serving", "gutted"}
         \/ \E p \in Slots : gw[p] = "hidden")

-----------------------------------------------------------------------------
(* What delivery.py says of claims and the gateway does not keep *)

\* A claim left behind by a process that died expires, so that a crash cannot
\* wedge a reply that was never sent.
Wedged(r) == accepted[r] = 0 /\ Orphaned(r)

NotWedged == \A r \in Replies : Wedged(r) ~> ~Wedged(r)
=============================================================================
