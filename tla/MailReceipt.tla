---------------------------- MODULE MailReceipt ----------------------------
(***************************************************************************)
(* The approved sending of one mail draft through Microsoft 365            *)
(* (birkin/m365_mail.py): a remote draft is created, its content compared  *)
(* with what was approved, and posted; the receipts file remembers how far *)
(* this went.  The receipts lock is held from the first read to the last   *)
(* write, so one program counter serves every process that executes or     *)
(* reconciles an approval of this draft.  Of one such approval the model   *)
(* follows what its journal and record tell the owner, because that, and   *)
(* not the receipt, decides whether its mail may be observed again.        *)
(*                                                                         *)
(* The remote mailbox is shared with its owner, who may edit, delete or    *)
(* send a draft from Outlook between any two requests.  Graph accepts a    *)
(* mail before it leaves, and a request may fail with or without effect.   *)
(***************************************************************************)
EXTENDS Naturals, FiniteSets

CONSTANTS
    Remotes,        \* the remote drafts that may ever be created
    NoRemote,
    MaxMishaps      \* bound on crashes, failing requests and failing reads

ASSUME MailAssumption ==
    /\ IsFiniteSet(Remotes) /\ NoRemote \notin Remotes
    /\ MaxMishaps \in Nat

VARIABLES
    place,      \* where each remote draft is
    content,    \* what is in it
    receipt,    \* the receipt on disk
    copy,       \* the receipt in the hands of the lock's holder
    pc,         \* what the lock's holder does next
    told,       \* what the approval tells of its mail
    posts,      \* how often each remote draft was posted
    misreads,   \* how often the receipts file could not be read
    mishaps

mailbox == <<place, content>>
vars == <<mailbox, receipt, copy, pc, told, posts, misreads, mishaps>>

Place == {"absent", "draft", "queued", "leaving", "sent", "deleted"}
Content == {"partial", "approved", "edited"}
State == {"created", "attempted", "accepted", "unknown", "submitted", "non_draft",
          "needs_review"}

\* attempt: no outcome is journalled; unknown: the outcome is unknown and may be
\* rechecked; over: it failed, or is final otherwise.
Told == {"attempt", "unknown", "submitted", "needs_review", "over"}

\* A receipt in one of these states is not rechecked.
Final == {"submitted", "needs_review"}

NoReceipt == [remote |-> NoRemote, state |-> "unknown"]
Receipt == [remote : Remotes, state : State] \cup {NoReceipt}

Mishap == mishaps < MaxMishaps /\ mishaps' = mishaps + 1

At(l) == pc = l
Goto(l) == pc' = l
Is(s) == [copy EXCEPT !.state = s]
Write(r) == receipt' = r
NoFault == UNCHANGED <<misreads, mishaps>>

-----------------------------------------------------------------------------
\* What an observation tells.

Exists(r) == place[r] \notin {"absent", "deleted"}
IsDraft(r) == place[r] \in {"draft", "queued"}

\* Mutant of Observed: the content is not compared again.
ObservedUnchecked(r, s) ==
    CASE IsDraft(r) -> s
      [] place[r] = "leaving" -> "non_draft"
      [] place[r] = "sent" -> "submitted"

\* The receipt's state after an observation, when it was s before.
Observed(r, s) ==
    CASE IsDraft(r) -> s
      [] ~IsDraft(r) /\ content[r] # "approved" -> "needs_review"
      [] place[r] = "leaving" /\ content[r] = "approved" -> "non_draft"
      [] place[r] = "sent" /\ content[r] = "approved" -> "submitted"

\* No observation: only what Graph itself said is still believed.
Unobserved(s) == IF s \in {"accepted", "submitted"} THEN s ELSE "unknown"


\* A draft that is still there: a different one needs a review, an attempt that
\* left it there may yet have been accepted.
Seen(r, s) ==
    IF ~IsDraft(r) THEN Observed(r, s)
    ELSE IF content[r] # "approved" THEN "needs_review"
    ELSE IF s = "attempted" THEN "unknown" ELSE s

-----------------------------------------------------------------------------
\* Execution of the approval.

\* Mutant of Open: a mail that needs a review is written anew.
OpenReviewed ==
    /\ At("idle")
    /\ \/ copy' = receipt /\ NoFault
       \/ copy' = NoReceipt /\ receipt # NoReceipt /\ Mishap /\ misreads' = misreads + 1
    /\ Goto(IF copy' = NoReceipt \/ copy'.state = "needs_review" THEN "create" ELSE "resume")
    /\ UNCHANGED <<mailbox, receipt, posts>>

\* An unreadable receipts file reads as an empty one.
Open ==
    /\ At("idle")
    /\ \/ copy' = receipt /\ NoFault
       \/ copy' = NoReceipt /\ receipt # NoReceipt /\ Mishap /\ misreads' = misreads + 1
    /\ Goto(IF copy' = NoReceipt THEN "create" ELSE "resume")
    /\ UNCHANGED <<mailbox, receipt, posts>>

\* Mutant of Resume: an attempt that left the draft in place is made again.
ResumeAttempt ==
    LET r == copy.remote IN
    /\ At("resume")
    /\ \/ /\ Exists(r)
          /\ copy.state \in {"created", "attempted"} /\ IsDraft(r) /\ content[r] = "approved"
          /\ Goto("attempt") /\ UNCHANGED receipt
          /\ NoFault
       \/ /\ Exists(r)
          /\ ~(copy.state \in {"created", "attempted"} /\ IsDraft(r) /\ content[r] = "approved")
          /\ Write(Is(Seen(r, copy.state))) /\ Goto("idle")
          /\ NoFault
       \/ /\ IF Exists(r) THEN Mishap /\ UNCHANGED misreads ELSE NoFault
          /\ Write(Is(Unobserved(copy.state))) /\ Goto("idle")
    /\ UNCHANGED <<mailbox, copy, posts>>

\* A receipt is there: observe its draft, and post it only if it was never posted.
Resume ==
    LET r == copy.remote
        fresh == copy.state = "created" /\ IsDraft(r) /\ content[r] = "approved"
    IN
    /\ At("resume")
    /\ \/ Exists(r) /\ fresh /\ Goto("attempt") /\ UNCHANGED receipt /\ NoFault
       \/ /\ Exists(r) /\ ~fresh
          /\ Write(Is(Seen(r, copy.state))) /\ Goto("idle")
          /\ NoFault
       \/ /\ IF Exists(r) THEN Mishap /\ UNCHANGED misreads ELSE NoFault
          /\ Write(Is(Unobserved(copy.state))) /\ Goto("idle")
    /\ UNCHANGED <<mailbox, copy, posts>>

\* A new mail is created whole, an answer from the mail it answers, unless that one has
\* changed.
Create ==
    /\ At("create")
    /\ \/ Goto("idle") /\ UNCHANGED <<mailbox, copy>> /\ NoFault
       \/ \E r \in Remotes, c \in {"approved", "partial"} :
            /\ place[r] = "absent"
            /\ place' = [place EXCEPT ![r] = "draft"]
            /\ content' = [content EXCEPT ![r] = c]
            /\ \/ /\ Goto(IF c = "approved" THEN "record" ELSE "compose")
                  /\ copy' = [remote |-> r, state |-> "created"]
                  /\ NoFault
               \* the answer is lost
               \/ Goto("idle") /\ Mishap /\ UNCHANGED <<copy, misreads>>
    /\ UNCHANGED <<receipt, posts>>

Compose ==
    /\ At("compose")
    /\ IF place[copy.remote] = "draft"
       THEN content' = [content EXCEPT ![copy.remote] = "approved"] /\ Goto("record")
       ELSE UNCHANGED content /\ Goto("idle")
    /\ UNCHANGED <<place, receipt, copy, posts>> /\ NoFault

Record ==
    /\ At("record")
    /\ Write(copy) /\ Goto("inspect")
    /\ UNCHANGED <<mailbox, copy, posts>> /\ NoFault

Inspect ==
    LET r == copy.remote IN
    /\ At("inspect")
    /\ IF ~Exists(r) THEN UNCHANGED receipt /\ Goto("idle")
       ELSE IF IsDraft(r) /\ content[r] = "approved" THEN UNCHANGED receipt /\ Goto("attempt")
       ELSE Write(Is("needs_review")) /\ Goto("idle")
    /\ UNCHANGED <<mailbox, copy, posts>> /\ NoFault

Attempt ==
    /\ At("attempt")
    /\ copy' = Is("attempted") /\ Write(copy') /\ Goto("post")
    /\ UNCHANGED <<mailbox, posts>> /\ NoFault

Posted == posts' = [posts EXCEPT ![copy.remote] = @ + 1]
Queued == place' = [place EXCEPT ![copy.remote] = IF @ = "draft" THEN "queued" ELSE @]

Post ==
    /\ At("post") /\ Posted
    /\ IF place[copy.remote] = "draft" THEN Queued /\ Goto("accept")
       ELSE UNCHANGED place /\ Goto("idle")
    /\ UNCHANGED <<content, receipt, copy>> /\ NoFault

\* The request fails with or without an effect; only when no answer came at all is
\* the draft observed at once.
PostFails ==
    /\ At("post") /\ Posted
    /\ Queued \/ UNCHANGED place
    /\ \/ copy' = Is("unknown") /\ Goto("confirm")
       \/ UNCHANGED copy /\ Goto("idle")
    /\ Mishap
    /\ UNCHANGED <<content, receipt, misreads>>

\* Mutant of Accept: an accepted mail is written down as sent.
AcceptSent ==
    /\ At("accept")
    /\ copy' = Is("sent") /\ Write(copy') /\ Goto("confirm")
    /\ UNCHANGED <<mailbox, posts>> /\ NoFault

Accept ==
    /\ At("accept")
    /\ copy' = Is("accepted") /\ Write(copy') /\ Goto("confirm")
    /\ UNCHANGED <<mailbox, posts>> /\ NoFault

Confirm ==
    LET r == copy.remote IN
    /\ At("confirm")
    /\ \/ Exists(r) /\ Write(Is(Observed(r, copy.state))) /\ NoFault
       \/ /\ IF Exists(r) THEN Mishap /\ UNCHANGED misreads ELSE NoFault
          /\ Write(copy)
    /\ Goto("idle")
    /\ UNCHANGED <<mailbox, copy, posts>>

\* A draft that was attempted is observed, and never created or posted again.
Reconcile ==
    LET r == receipt.remote IN
    /\ At("idle") /\ receipt # NoReceipt
    /\ \/ Exists(r) /\ Write([receipt EXCEPT !.state = Seen(r, @)]) /\ NoFault
       \/ /\ IF Exists(r) THEN Mishap /\ UNCHANGED misreads ELSE NoFault
          /\ Write([receipt EXCEPT !.state = Unobserved(@)])
    /\ UNCHANGED <<mailbox, copy, pc, posts>>

\* Recovery, when who made the attempt is dead.
Recover == told = "attempt" /\ Reconcile /\ UNCHANGED told

\* The outcome of the attempt is journalled, and whether it may be rechecked; by then
\* another approval of the same draft may have written to the receipt.
Conclude ==
    /\ told = "attempt"
    /\ told' \in {"unknown", "over"}
    /\ UNCHANGED <<mailbox, receipt, copy, pc, posts>> /\ NoFault

\* The owner asks again, which is refused once the answer was final: without a receipt
\* that can be read, or with another account connected, it is that a review is needed.
Recheck ==
    /\ told = "unknown"
    /\ \/ /\ Reconcile
          /\ told' = IF receipt'.state \in Final THEN receipt'.state ELSE "unknown"
       \/ /\ At("idle") /\ told' = "needs_review"
          /\ IF receipt # NoReceipt THEN Mishap /\ UNCHANGED misreads ELSE NoFault
          /\ UNCHANGED <<mailbox, receipt, copy, pc, posts>>

\* The process dies before it has journalled what it wrote to the receipt.
RecheckDies ==
    /\ told = "unknown" /\ At("idle") /\ receipt # NoReceipt /\ Exists(receipt.remote)
    /\ Write([receipt EXCEPT !.state = Seen(receipt.remote, @)])
    /\ Mishap
    /\ UNCHANGED <<mailbox, copy, pc, told, posts, misreads>>

-----------------------------------------------------------------------------

\* The process dies, a write or any other request fails.
Stop ==
    /\ pc # "idle"
    /\ Mishap
    /\ Goto("idle")
    /\ UNCHANGED <<mailbox, receipt, copy, told, posts, misreads>>

\* Another mail's execution misreads the file and writes it with its own receipt only.
Overwritten ==
    /\ At("idle") /\ receipt # NoReceipt
    /\ Mishap /\ misreads' = misreads + 1
    /\ Write(NoReceipt)
    /\ UNCHANGED <<mailbox, copy, pc, told, posts>>

Outside == UNCHANGED <<receipt, copy, pc, told, posts>> /\ NoFault

\* The owner of the mailbox.
Edit(r) ==
    /\ place[r] = "draft"
    /\ content' = [content EXCEPT ![r] = "edited"]
    /\ UNCHANGED place /\ Outside

Delete(r) ==
    /\ place[r] \in {"draft", "sent"}
    /\ place' = [place EXCEPT ![r] = "deleted"]
    /\ UNCHANGED content /\ Outside

SendByHand(r) ==
    /\ place[r] = "draft"
    /\ place' = [place EXCEPT ![r] = "queued"]
    /\ UNCHANGED content /\ Outside

\* What was accepted leaves, and gets its time of sending.
Depart(r) ==
    /\ place[r] \in {"queued", "leaving"}
    /\ place' = [place EXCEPT ![r] = IF @ = "queued" THEN "leaving" ELSE "sent"]
    /\ UNCHANGED content /\ Outside

Init ==
    /\ place = [r \in Remotes |-> "absent"]
    /\ content = [r \in Remotes |-> "partial"]
    /\ receipt = NoReceipt /\ copy = NoReceipt
    /\ pc = "idle" /\ told = "attempt"
    /\ posts = [r \in Remotes |-> 0]
    /\ misreads = 0 /\ mishaps = 0

Step ==
    \/ Resume \/ Create \/ Compose \/ Record \/ Inspect \/ Attempt \/ Post \/ PostFails
    \/ Accept \/ Confirm

Mailbox == \E r \in Remotes : Edit(r) \/ Delete(r) \/ SendByHand(r) \/ Depart(r)

Next ==
    \/ (Open \/ Step) /\ UNCHANGED told
    \/ Recover \/ Conclude \/ Recheck \/ RecheckDies
    \/ Stop \/ Overwritten \/ Mailbox

Spec == Init /\ [][Next]_vars

\* A process that holds the lock goes on, Graph sends what it accepted, and the owner
\* asks again as long as the approval offers to be rechecked, and finds the lock free
\* some time.
FairSpec ==
    /\ Spec
    /\ WF_vars(Step /\ UNCHANGED told) /\ SF_vars(Recheck)
    /\ WF_vars(\E r \in Remotes : Depart(r))

-----------------------------------------------------------------------------
\* Properties

Labels == {"idle", "resume", "create", "compose", "record", "inspect", "attempt", "post",
           "accept", "confirm"}

\* The variables have their types.
TypeOK ==
    /\ place \in [Remotes -> Place] /\ content \in [Remotes -> Content]
    /\ receipt \in Receipt /\ copy \in Receipt
    /\ pc \in Labels /\ told \in Told
    /\ posts \in [Remotes -> Nat]
    /\ misreads \in Nat /\ mishaps \in 0 .. MaxMishaps

\* No remote draft is posted twice, whatever fails and however often the approval is
\* executed again (the marker of m365_mail.py:255 is written before the request).
PostedOnce == \A r \in Remotes : posts[r] <= 1

\* The mail goes out once: a second remote draft is posted only if the receipt of the
\* first could not be read.
SentOnce == Cardinality({r \in Remotes : posts[r] > 0}) <= 1 + misreads

Left(r) == place[r] \in {"sent", "deleted"} /\ content[r] = "approved"

HonestState ==
    receipt # NoReceipt =>
        LET r == receipt.remote IN
        /\ receipt.state = "submitted" => Left(r)
        /\ receipt.state = "accepted" => place[r] \notin {"absent", "draft"}
        /\ receipt.state = "created" => posts[r] = 0

HonestAnswer == told = "submitted" => \E r \in Remotes : Left(r)

\* A receipt claims no more than is true of the mailbox: submitted is a mail that left
\* as it was approved, accepted one that is not a draft any more, and created one that
\* was never posted, so that posting it is safe.  And an owner who asks is told of a mail
\* that was sent only when one left as it was approved.
HonestReceipt == HonestState /\ HonestAnswer

Strays ==
    {r \in Remotes : place[r] # "absent" /\ r # receipt.remote
                     /\ ~(pc # "idle" /\ r = copy.remote)}

\* Each draft that lies in the mailbox and that no receipt names is the work of a
\* failure of its own: a crash between its creation and the receipt, a lost answer, or a
\* receipts file that could not be read (m365_mail.py:346).
StraysPaidFor ==
    Cardinality({r \in Strays : place[r] = "draft"}) <= mishaps


=============================================================================
