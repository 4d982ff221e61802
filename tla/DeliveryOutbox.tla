--------------------------- MODULE DeliveryOutbox ---------------------------
(***************************************************************************)
(* Replies of one channel that must survive a crash: the outbox table, the *)
(* workers that record a reply before they send it and clear it after, and *)
(* the sweep of a starting process over what its predecessors left behind. *)
(* Every call of delivery.py is one SQLite transaction, hence one step.    *)
(***************************************************************************)
EXTENDS GatewayMishaps

CONSTANTS
    Replies,     \* replies, each the row that would record it
    Proposals    \* those that propose a workflow to the owner of a trusted chat

ASSUME ProposalAssumption == Proposals \subseteq Replies

VARIABLES
    row,        \* state of each row of the outbox
    task,       \* what each process is doing about each reply
    sweep,      \* how far each process is with redeliver()
    accepted    \* how often the platform has accepted each reply

outboxVars == <<row, task, sweep, accepted>>

\* absent: no reply yet; unowed: the insert failed and the reply is sent all
\* the same; stale: claimed more than CLAIM_STALE_SECONDS ago.
Row == {"absent", "unowed", "pending", "claimed", "stale", "gone"}

\* A worker has made the reply, sends it, sends it again as plain text, and
\* counts it as sent; in a sweep the row is owed first and may be refused in
\* the end.
Task == {"none", "made", "html", "plain", "sent",
         "owed", "re_html", "re_plain", "re_sent", "refused"}

Sweeping == {"re_html", "re_plain", "re_sent", "refused"}

Do(p, r, what) == task' = [task EXCEPT ![p][r] = what]

Mark(r, state) == row' = [row EXCEPT ![r] = state]

OutboxInit ==
    /\ row = [r \in Replies |-> "absent"]
    /\ task = [p \in Slots |-> [r \in Replies |-> "none"]]
    /\ sweep = [p \in Slots |-> "due"]
    /\ accepted = [r \in Replies |-> 0]

\* The process, or its image, ends: its threads are gone.
Abandon(p) ==
    /\ task' = [task EXCEPT ![p] = [r \in Replies |-> "none"]]
    /\ sweep' = [sweep EXCEPT ![p] = "due"]
    /\ UNCHANGED <<row, accepted>>

-----------------------------------------------------------------------------
(* A worker delivers a fresh reply *)

MakeReply(p, r) ==
    /\ sweep[p] = "done"
    /\ row[r] = "absent"
    /\ \A q \in Slots : task[q][r] = "none"
    /\ Do(p, r, "made")
    /\ UNCHANGED <<row, sweep, accepted, mishaps>>

RecordReply(p, r) ==
    /\ task[p][r] = "made"
    /\ Mark(r, "pending") /\ Do(p, r, "html")
    /\ UNCHANGED <<sweep, accepted, mishaps>>

\* record() never raises: the reply is sent without an obligation.
RecordFails(p, r) ==
    /\ task[p][r] = "made"
    /\ Mishap
    /\ Mark(r, "unowed") /\ Do(p, r, "html")
    /\ UNCHANGED <<sweep, accepted>>

-----------------------------------------------------------------------------
(* Sending, by a worker or by a sweep *)

Sending(p, r) == task[p][r] \in {"html", "plain", "re_html", "re_plain"}

\* The platform's answer says the reply was accepted.
Accepted(p, r) ==
    /\ Sending(p, r)
    /\ accepted' = [accepted EXCEPT ![r] = @ + 1]
    /\ Do(p, r, IF task[p][r] \in {"html", "plain"} THEN "sent" ELSE "re_sent")
    /\ UNCHANGED <<row, sweep, mishaps>>

\* Mutant of AfterFailure: what the second attempt returns is not looked at.
AfterFailureIgnored(r, t) ==
    CASE t = "html" -> {"plain"} [] t = "plain" -> {"sent"}
      [] t = "re_html" -> {"re_plain"} [] t = "re_plain" -> {"refused"}

\* A chunk that fails as HTML is sent once more as plain text; a fresh reply
\* that fails twice is left to the next start.  Not so a proposal: the card of
\* a new one is sent once, the warning about a repeated one twice, and either
\* counts as sent whatever came of it; one that cannot be queued ends the turn.
AfterFailure(r, t) ==
    CASE t = "html" -> IF r \in Proposals THEN {"plain", "sent", "none"} ELSE {"plain"}
      [] t = "plain" -> IF r \in Proposals THEN {"sent"} ELSE {"none"}
      [] t = "re_html" -> {"re_plain"}
      [] t = "re_plain" -> {"refused"}

SendFails(p, r) ==
    /\ Sending(p, r)
    /\ \E t \in AfterFailure(r, task[p][r]) : Do(p, r, t)

Rejected(p, r) ==
    /\ SendFails(p, r)
    /\ UNCHANGED <<row, sweep, accepted, mishaps>>

\* The platform accepts the reply and its answer is lost.
AnswerLost(p, r) ==
    /\ SendFails(p, r)
    /\ Mishap
    /\ accepted' = [accepted EXCEPT ![r] = @ + 1]
    /\ UNCHANGED <<row, sweep>>

\* The sender is through with the reply, or takes it to be.
Discharged(p, r) == task[p][r] \in {"sent", "re_sent"}

\* clear(): DELETE of the row, if there is one.
Discharge(p, r) ==
    /\ Discharged(p, r)
    /\ Mark(r, "gone") /\ Do(p, r, "none")
    /\ UNCHANGED <<sweep, accepted, mishaps>>

\* clear() swallows every error of the database.
DischargeFails(p, r) ==
    /\ Discharged(p, r)
    /\ Mishap
    /\ Do(p, r, "none")
    /\ UNCHANGED <<row, sweep, accepted>>

-----------------------------------------------------------------------------
(* redeliver(), once in the life of a process *)

\* Mutant of Claimable: rows that another process has claimed are taken too.
ClaimableByAll(r) == row[r] \in {"pending", "claimed", "stale"}

Claimable(r) == row[r] \in {"pending", "stale"}

\* claim(): one transaction takes every row that nobody holds.
Claim(p) ==
    /\ sweep[p] = "due"
    /\ sweep' = [sweep EXCEPT ![p] = "loop"]
    /\ row' = [r \in Replies |-> IF Claimable(r) THEN "claimed" ELSE row[r]]
    /\ task' = [task EXCEPT ![p] =
                  [r \in Replies |-> IF Claimable(r) THEN "owed" ELSE "none"]]
    /\ UNCHANGED <<accepted, mishaps>>

\* claim() returns no row when the database fails.
ClaimFails(p) ==
    /\ sweep[p] = "due"
    /\ Mishap
    /\ sweep' = [sweep EXCEPT ![p] = "loop"]
    /\ UNCHANGED <<row, task, accepted>>

\* One row after the other, in any order.
Redeliver(p, r) ==
    /\ sweep[p] = "loop" /\ task[p][r] = "owed"
    /\ \A s \in Replies : task[p][s] \notin Sweeping
    /\ Do(p, r, "re_html")
    /\ UNCHANGED <<row, sweep, accepted, mishaps>>

\* Mutant of GiveBack: a row that its successor has cleared comes back.
GiveBackRestored(p, r) ==
    /\ task[p][r] = "refused"
    /\ Mark(r, "pending") /\ Do(p, r, "none")
    /\ UNCHANGED <<sweep, accepted, mishaps>>

\* release(): whoever holds the row by now, it is pending.
GiveBack(p, r) ==
    /\ task[p][r] = "refused"
    /\ row' = [row EXCEPT ![r] = IF @ = "gone" THEN "gone" ELSE "pending"]
    /\ Do(p, r, "none")
    /\ UNCHANGED <<sweep, accepted, mishaps>>

GiveBackFails(p, r) ==
    /\ task[p][r] = "refused"
    /\ Mishap
    /\ Do(p, r, "none")
    /\ UNCHANGED <<row, sweep, accepted>>

Swept(p) ==
    /\ sweep[p] = "loop"
    /\ \A r \in Replies : task[p][r] = "none"
    /\ sweep' = [sweep EXCEPT ![p] = "done"]
    /\ UNCHANGED <<row, task, accepted, mishaps>>

\* Five minutes pass.
Expire(r) ==
    /\ row[r] = "claimed"
    /\ Mark(r, "stale")
    /\ UNCHANGED <<task, sweep, accepted, mishaps>>

-----------------------------------------------------------------------------
(* What the outbox promises *)

OutboxTypeOK ==
    /\ row \in [Replies -> Row]
    /\ task \in [Slots -> [Replies -> Task]]
    /\ sweep \in [Slots -> {"due", "loop", "done"}]
    /\ accepted \in [Replies -> Nat]

\* A reply that was recorded and proposes no workflow leaves the outbox only
\* after the platform has accepted it, whatever crashes, refuses, or takes the
\* row over meanwhile.  (The row of a proposal is cleared whatever its send
\* returned, telegram.py:1558-1575.)
NothingLost == \A r \in Replies \ Proposals : row[r] = "gone" => accepted[r] > 0

\* Every mishap costs at most one duplicate: without a crash, a restart, a
\* lost answer or a failing database every reply is accepted once.
DuplicatesPaidFor == \A r \in Replies : accepted[r] <= 1 + mishaps

\* What the table says of a reply, to an observer who does not care who holds it: it is
\* entered when it is recorded, or when that failed and it will be sent without a row.
Entry(r) ==
    CASE row[r] = "absent" -> "none"
      [] row[r] = "unowed" -> "unowed"
      [] row[r] = "gone" -> "struck"
      [] row[r] \in {"pending", "claimed", "stale"} -> "owed"

Promise == INSTANCE AtLeastOnce WITH
    Messages <- Replies,
    Volatile <- Proposals,
    entry <- [r \in Replies |-> Entry(r)],
    delivered <- accepted,
    faults <- mishaps

\* The outbox keeps the promise of a durable outbox, whoever holds a row: a reply that is
\* no proposal stays entered until it has been accepted; every reply is struck out for good
\* (delivery.py:124), also when a late release (delivery.py:189) comes after; and each
\* duplicate is paid for.
KeepsReplies == Promise!Spec

\* A row that is claimed and in nobody's hands.
Orphaned(r) ==
    /\ row[r] \in {"claimed", "stale"}
    /\ \A p \in Slots : task[p][r] = "none"
=============================================================================
