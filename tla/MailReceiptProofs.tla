------------------------- MODULE MailReceiptProofs -------------------------
(***************************************************************************)
(* Proofs about MailReceipt, for any number of remote drafts and mishaps.  *)
(* The inductive invariant adds to the properties what the lock's holder   *)
(* knows at each step: that the receipt on disk is the one in its hands,   *)
(* that the draft it is about to post was never posted, and that every     *)
(* draft posted earlier has a misread of its own.                          *)
(***************************************************************************)
EXTENDS MailReceipt, FiniteSetTheorems, TLAPS

\* The drafts that were posted.
Out == {r \in Remotes : posts[r] > 0}

\* Steps that go on from the receipt that is on disk.
Owned == {"resume", "inspect", "attempt", "post", "confirm", "accept"}

\* What the lock's holder knows.
Holding ==
    /\ pc \in Owned => copy = receipt \/ pc = "confirm"
    /\ pc \in Owned \cup {"compose", "record"} => copy.remote \in Remotes
    /\ pc \in Owned => copy.remote = receipt.remote
    /\ pc = "create" => copy = NoReceipt
    /\ pc \in {"compose", "record", "inspect", "attempt"} => posts[copy.remote] = 0
    /\ pc \in {"compose", "record"} => place[copy.remote] # "absent" /\ copy.state = "created"
    /\ receipt # NoReceipt => place[receipt.remote] # "absent"
    /\ pc = "post" => copy.state = "attempted" /\ posts[copy.remote] = 0
    /\ pc = "confirm" => copy.state \in {"accepted", "unknown"}
    /\ pc = "accept" \/ (pc = "confirm" /\ copy.state = "accepted")
          => place[copy.remote] \notin {"absent", "draft"}

\* What was never created was never posted.
Unborn == \A r \in Remotes : place[r] = "absent" => posts[r] = 0

\* Every posted draft but the receipt's own has a misread of its own; so has the
\* receipt's once its holder has taken it for missing.
Counted ==
    /\ Cardinality(Out \ {receipt.remote}) <= misreads
    /\ pc \in {"create", "compose", "record"} => Cardinality(Out) <= misreads

Inv == TypeOK /\ PostedOnce /\ HonestState /\ Holding /\ Unborn

\* The initial state satisfies the invariant.
LEMMA InitInv == Init => Inv
<1> SUFFICES ASSUME Init PROVE Inv
    OBVIOUS
<1>1. TypeOK
    BY MailAssumption DEF Init, TypeOK, Place, Content, Receipt, NoReceipt, Labels, Told
<1>2. PostedOnce /\ HonestState /\ Holding /\ Unborn
    BY DEF Init, PostedOnce, HonestState, Holding, Unborn, Owned, NoReceipt
<1> QED BY <1>1, <1>2 DEF Inv

\* A step of the lock's holder preserves the invariant.
LEMMA StepInv ==
    ASSUME Inv, told' \in Told, Open \/ Step \/ Reconcile \/ RecheckDies PROVE Inv'
<1> USE MailAssumption
        DEF Inv, TypeOK, PostedOnce, HonestState, Left, Holding, Unborn, Owned, Labels, Place,
            Content, State, Receipt, NoReceipt, mailbox, Mishap, At, Goto, Is, Write,
            NoFault, Exists, IsDraft, Observed, Unobserved, Seen, Posted, Queued
<1>1. CASE Open
    BY <1>1 DEF Open
<1>2. CASE Resume
    BY <1>2 DEF Resume
<1>3. CASE Create
    BY <1>3 DEF Create
<1>4. CASE Compose
    BY <1>4 DEF Compose
<1>5. CASE Record
    BY <1>5 DEF Record
<1>6. CASE Inspect
    BY <1>6 DEF Inspect
<1>7. CASE Attempt
    BY <1>7 DEF Attempt
<1>8. CASE Post \/ PostFails
    <2>1. /\ pc = "post" /\ copy = receipt /\ receipt' = receipt
          /\ copy.remote \in Remotes /\ copy.state = "attempted" /\ receipt # NoReceipt
          /\ posts[copy.remote] = 0 /\ place[copy.remote] # "absent"
          /\ posts' = [posts EXCEPT ![copy.remote] = 1]
          /\ content' = content
          /\ \/ place' = place
             \/ place[copy.remote] = "draft"
                /\ place' = [place EXCEPT ![copy.remote] = "queued"]
        BY <1>8 DEF Post, PostFails
    <2>2. \/ pc' = "accept" /\ copy' = copy /\ place'[copy.remote] = "queued"
          \/ pc' = "idle" /\ copy' = copy
          \/ pc' = "confirm" /\ copy' = [copy EXCEPT !.state = "unknown"]
        BY <1>8, <2>1 DEF Post, PostFails
    <2>3. misreads' = misreads /\ mishaps' \in 0 .. MaxMishaps
        BY <1>8 DEF Post, PostFails
    <2>4. TypeOK'
        BY <2>1, <2>2, <2>3
    <2>5. PostedOnce' /\ Unborn' /\ HonestState'
        BY <2>1, <2>2
    <2>6. Holding'
        BY <2>1, <2>2
    <2> QED BY <2>4, <2>5, <2>6
<1>10. CASE Accept
    BY <1>10 DEF Accept
<1>11. CASE Confirm
    BY <1>11 DEF Confirm
<1>12. CASE Reconcile
    BY <1>12 DEF Reconcile
<1>13. CASE RecheckDies
    BY <1>13 DEF RecheckDies
<1> QED
    BY <1>1, <1>2, <1>3, <1>4, <1>5, <1>6, <1>7, <1>8, <1>10, <1>11, <1>12, <1>13 DEF Step

\* The approval is told something, whatever the receipt says.
Answered == Conclude \/ (Recheck /\ ~Reconcile)

\* What changes no receipt, a failure, and a step of the mailbox preserve the invariant.
LEMMA OutsideInv ==
    ASSUME Inv, Answered \/ Stop \/ Overwritten \/ Mailbox \/ UNCHANGED vars PROVE Inv'
<1> USE MailAssumption
        DEF Inv, TypeOK, PostedOnce, HonestState, Left, Holding, Unborn, Owned, Labels, Place,
            Content, State, Receipt, NoReceipt, mailbox, Mishap, Goto, Write, NoFault, Outside
<1>1. CASE Stop
    BY <1>1 DEF Stop
<1>2. CASE Overwritten
    BY <1>2 DEF Overwritten, At
<1>3. ASSUME NEW r \in Remotes, Edit(r) PROVE Inv'
    BY <1>3 DEF Edit
<1>4. ASSUME NEW r \in Remotes, Delete(r) PROVE Inv'
    BY <1>4 DEF Delete
<1>5. ASSUME NEW r \in Remotes, SendByHand(r) PROVE Inv'
    BY <1>5 DEF SendByHand
<1>6. ASSUME NEW r \in Remotes, Depart(r) PROVE Inv'
    BY <1>6 DEF Depart
<1>7. CASE UNCHANGED vars
    BY <1>7 DEF vars
<1>8. CASE Answered
    BY <1>8 DEF Answered, Conclude, Recheck, At, Told
<1> QED BY <1>1, <1>2, <1>3, <1>4, <1>5, <1>6, <1>7, <1>8 DEF Mailbox

\* Whatever is told belongs to what may be told.
LEMMA ToldTypes == ASSUME Inv, [Next]_vars PROVE told' \in Told
BY DEF Inv, TypeOK, Next, Recover, Conclude, Recheck, RecheckDies, Stop, Overwritten,
       Mailbox, Edit, Delete, SendByHand, Depart, Outside, vars, Told, Final

LEMMA NextInv == ASSUME Inv, [Next]_vars PROVE Inv'
BY StepInv, OutsideInv, ToldTypes DEF Next, Recover, Answered

LEMMA Invariance == Spec => []Inv
BY InitInv, NextInv, PTL DEF Spec

\* What left as it was approved has left for good.
LEMMA LeftForGood ==
    ASSUME Inv, [Next]_vars, NEW r \in Remotes, Left(r) PROVE Left(r)'
<1> USE DEF Inv, TypeOK, Left, mailbox, Place, Holding, Owned
<1>1. CASE UNCHANGED mailbox
    BY <1>1
<1>2. CASE Create
    BY <1>2 DEF Create
<1>3. CASE Compose
    BY <1>3 DEF Compose
<1>4. CASE Post \/ PostFails
    BY <1>4 DEF Post, PostFails, Queued, At
<1>5. CASE Mailbox
    BY <1>5 DEF Mailbox, Edit, Delete, SendByHand, Depart
<1> QED
    BY <1>1, <1>2, <1>3, <1>4, <1>5
       DEF Next, Open, Step, Resume, Record, Inspect, Attempt, Accept, Confirm, Reconcile,
           Recover, Conclude, Recheck, RecheckDies, Stop, Overwritten, vars

\* An answer that a mail was sent follows a receipt that says so.
LEMMA AnswerStep ==
    ASSUME Inv, Inv', HonestAnswer, [Next]_vars PROVE HonestAnswer'
<1>1. CASE told' = told
    BY <1>1, LeftForGood DEF HonestAnswer
<1>2. CASE told' # told /\ told' = "submitted"
    <2>1. /\ Reconcile /\ receipt'.state = "submitted"
        BY <1>2 DEF Next, Recover, Conclude, Recheck, RecheckDies, Stop, Overwritten,
                    Mailbox, Edit, Delete, SendByHand, Depart, Outside, vars
    <2>2. receipt' # NoReceipt /\ receipt'.remote \in Remotes
        BY <2>1 DEF Inv, TypeOK, Receipt, NoReceipt
    <2> QED BY <2>1, <2>2 DEF Inv, HonestState, HonestAnswer, Left
<1> QED BY <1>1, <1>2 DEF HonestAnswer

-----------------------------------------------------------------------------

\* The variables have their types, whatever fails and whatever the owner does.
THEOREM TypeCorrect == Spec => []TypeOK
BY Invariance, PTL DEF Inv

\* No remote draft is ever posted twice: re-entry after a durable marker only observes.
THEOREM NeverPostedAgain == Spec => []PostedOnce
BY Invariance, PTL DEF Inv

\* A receipt never claims more than is true of the mailbox, nor is the owner told more.
THEOREM ReceiptIsHonest == Spec => []HonestReceipt
<1>1. Init => HonestAnswer
    BY DEF Init, HonestAnswer
<1>2. Inv /\ Inv' /\ HonestAnswer /\ [Next]_vars => HonestAnswer'
    BY AnswerStep
<1>3. Inv /\ HonestAnswer => HonestReceipt
    BY DEF Inv, HonestReceipt
<1> QED BY Invariance, <1>1, <1>2, <1>3, PTL DEF Spec

-----------------------------------------------------------------------------
(* The mail goes out once for each time the receipts were readable. *)

LEMMA OutFinite == IsFiniteSet(Out) /\ IsFiniteSet(Out')
BY MailAssumption, FS_Subset DEF Out

LEMMA InitCounted == Init => Counted
<1> SUFFICES ASSUME Init PROVE Counted
    OBVIOUS
<1>1. Out = {}
    BY DEF Init, Out
<1>2. Out \ {receipt.remote} = {}
    BY <1>1
<1>3. Cardinality({}) = 0
    BY FS_EmptySet
<1> QED BY <1>1, <1>2, <1>3 DEF Counted, Init

\* Every step keeps the count.
LEMMA NextCounted == ASSUME Inv, Counted, [Next]_vars PROVE Counted'
<1> DEFINE Rest == Out \ {receipt.remote}
<1>f. /\ IsFiniteSet(Out) /\ IsFiniteSet(Out') /\ IsFiniteSet(Rest) /\ IsFiniteSet(Rest')
      /\ Cardinality(Out) \in Nat /\ Cardinality(Rest) \in Nat /\ misreads \in Nat
    BY OutFinite, FS_Subset, FS_CardinalityType DEF Inv, TypeOK
<1>r. Cardinality(Rest) <= Cardinality(Out) /\ Cardinality(Out) <= Cardinality(Rest) + 1
    BY <1>f, FS_RemoveElement
<1>s. Cardinality(Rest') <= Cardinality(Out')
    BY <1>f, FS_Subset
\* a misread pays for the receipt it loses
<1>1. CASE misreads' = misreads + 1 /\ Out' = Out
    <2>1. Cardinality(Out') <= misreads' /\ Cardinality(Out') \in Nat
        BY <1>1, <1>f, <1>r DEF Counted
    <2>2. Cardinality(Rest') <= misreads'
        BY <2>1, <1>1, <1>s, <1>f, FS_CardinalityType
    <2> QED BY <2>1, <2>2 DEF Counted
\* nothing is posted and the receipt, if it changes, replaces one that was counted
<1>2. CASE /\ misreads' = misreads /\ Out' = Out /\ receipt'.remote = receipt.remote
           /\ pc' \in {"create", "compose", "record"} =>
                 pc \in {"create", "compose", "record"} \/ receipt = NoReceipt
    <2>1. receipt = NoReceipt => Out \ {receipt.remote} = Out
        BY MailAssumption DEF NoReceipt, Out
    <2> QED BY <1>2, <2>1 DEF Counted
<1>3. CASE Record
    <2>1. Out' = Out /\ misreads' = misreads /\ pc = "record" /\ pc' = "inspect"
        BY <1>3 DEF Record, mailbox, NoFault, Out, At, Goto
    <2> QED BY <2>1, <1>s, <1>f, FS_CardinalityType DEF Counted
<1>4. CASE Post \/ PostFails
    <2>1. /\ misreads' = misreads /\ receipt' = receipt /\ pc = "post"
          /\ pc' \notin {"create", "compose", "record"} /\ copy.remote = receipt.remote
          /\ posts' = [posts EXCEPT ![receipt.remote] = @ + 1]
          /\ posts \in [Remotes -> Nat] /\ receipt.remote \in Remotes
        BY <1>4 DEF Post, PostFails, Posted, NoFault, Mishap, At, Goto, Inv, Holding, Owned,
                    TypeOK
    <2>2. Rest' = Rest
        BY <2>1 DEF Out
    <2> QED BY <2>1, <2>2 DEF Counted
<1>5. CASE [Next]_vars /\ ~Record /\ ~Post /\ ~PostFails
    <2>1. posts' = posts
        BY <1>5 DEF Next, Step, Open, Resume, Create, Compose, Inspect, Attempt, Accept,
                    Confirm, Recover, Conclude, Recheck, RecheckDies, Reconcile, Stop,
                    Overwritten, Mailbox, Edit, Delete, SendByHand, Depart, Outside, vars
    <2>2. Out' = Out
        BY <2>1 DEF Out
    <2>3. \/ misreads' = misreads + 1
          \/ /\ misreads' = misreads /\ receipt'.remote = receipt.remote
             /\ pc' \in {"create", "compose", "record"} =>
                   pc \in {"create", "compose", "record"} \/ receipt = NoReceipt
        BY <1>5 DEF Next, Step, Open, Resume, Create, Compose, Inspect, Attempt, Accept,
                    Confirm, Recover, Conclude, Recheck, RecheckDies, Reconcile, Stop,
                    Overwritten, Mailbox, Edit, Delete, SendByHand, Depart, Outside, vars, NoFault, Mishap, Goto, At, Write, Is, Inv, TypeOK,
                    Receipt, NoReceipt, Holding, Owned
    <2> QED BY <2>2, <2>3, <1>1, <1>2
<1> QED BY <1>3, <1>4, <1>5

\* The mail goes out once: each further time it was posted, the receipts file could
\* not be read.
THEOREM MailSentOnce == Spec => []SentOnce
<1>1. Counted /\ Inv /\ [Next]_vars => Counted'
    BY NextCounted
<1>2. Inv /\ Counted => SentOnce
    <2> SUFFICES ASSUME Inv, Counted PROVE SentOnce
        OBVIOUS
    <2>1. IsFiniteSet(Out)
        BY OutFinite
    <2>2. IsFiniteSet(Out \ {receipt.remote})
        BY <2>1, FS_Subset
    <2>3. Cardinality(Out) \in Nat /\ Cardinality(Out \ {receipt.remote}) \in Nat
        BY <2>1, <2>2, FS_CardinalityType
    <2>4. Cardinality(Out) <= Cardinality(Out \ {receipt.remote}) + 1
        BY <2>1, <2>3, FS_RemoveElement
    <2> QED BY <2>3, <2>4 DEF SentOnce, Counted, Out, Inv, TypeOK
<1> QED BY InitCounted, Invariance, <1>1, <1>2, PTL DEF Spec

-----------------------------------------------------------------------------
(* Every draft that lies about has a failure of its own. *)

Drifting == {r \in Strays : place[r] = "draft"}

\* A mail is being written anew although a receipt is on disk: the misread that led
\* here pays for the draft that receipt names.
Writing == {"create", "compose", "record"}
Replacing == pc \in Writing /\ receipt # NoReceipt

Owed == Cardinality(Drifting) + (IF Replacing THEN 1 ELSE 0) <= mishaps

\* What a step may do to the drifting drafts: none is added; or one, for a failure; or the
\* one whose receipt is replaced.
Settling == Drifting' \subseteq Drifting /\ (Replacing' => Replacing) /\ mishaps' >= mishaps
Failing == mishaps' = mishaps + 1
           /\ \/ Drifting' \subseteq Drifting
              \/ ~Replacing' /\ \E r : Drifting' \subseteq Drifting \cup {r}
Replaced == Replacing /\ ~Replacing' /\ mishaps' = mishaps
            /\ \E r : Drifting' \subseteq Drifting \cup {r}

\* Each of them keeps the balance.
LEMMA Balanced ==
    ASSUME Inv, Inv', Owed, Settling \/ Failing \/ Replaced PROVE Owed'
<1>1. IsFiniteSet(Drifting) /\ Cardinality(Drifting) \in Nat
    BY MailAssumption, FS_Subset, FS_CardinalityType DEF Drifting, Strays
<1>2. mishaps \in Nat /\ mishaps' \in Nat
    BY MailAssumption DEF Inv, TypeOK
<1>3. CASE Drifting' \subseteq Drifting
    <2>1. Cardinality(Drifting') \in Nat /\ Cardinality(Drifting') <= Cardinality(Drifting)
        BY <1>1, <1>3, FS_Subset, FS_CardinalityType
    <2> QED BY <1>1, <1>2, <2>1 DEF Owed, Settling, Failing, Replaced
<1>4. ASSUME NEW r, Drifting' \subseteq Drifting \cup {r}, ~Replacing',
             mishaps' = mishaps + 1 \/ (Replacing /\ mishaps' = mishaps)
      PROVE  Owed'
    <2>1. /\ IsFiniteSet(Drifting \cup {r}) /\ Cardinality(Drifting \cup {r}) \in Nat
          /\ Cardinality(Drifting \cup {r}) <= Cardinality(Drifting) + 1
        <3>1. /\ IsFiniteSet(Drifting \cup {r})
              /\ Cardinality(Drifting \cup {r}) = IF r \in Drifting THEN Cardinality(Drifting)
                                                  ELSE Cardinality(Drifting) + 1
            BY <1>1, FS_AddElement
        <3> QED BY <1>1, <3>1
    <2>2. Cardinality(Drifting') \in Nat /\ Cardinality(Drifting') <= Cardinality(Drifting \cup {r})
        BY <1>4, <2>1, FS_Subset, FS_CardinalityType
    <2> QED BY <1>1, <1>2, <1>4, <2>1, <2>2 DEF Owed
<1> QED BY <1>3, <1>4 DEF Settling, Failing, Replaced

\* Every step is one of them.
LEMMA DriftStep == ASSUME Inv, [Next]_vars PROVE Settling \/ Failing \/ Replaced
<1>0. /\ mishaps \in Nat /\ receipt \in Receipt /\ copy \in Receipt
      /\ NoRemote \notin Remotes /\ NoReceipt.remote = NoRemote
      /\ place \in [Remotes -> Place] /\ receipt.remote \in Remotes \cup {NoRemote}
    BY MailAssumption DEF Inv, TypeOK, Receipt, NoReceipt
\* the receipt names the same draft, and what was in the holder's hands still is
<1>1. ASSUME \A r \in Remotes : place'[r] = "draft" => place[r] = "draft",
             receipt'.remote = receipt.remote, copy'.remote = copy.remote \/ pc = "idle",
             pc' = "idle" => pc = "idle" \/ copy.remote = receipt.remote
                             \/ place[copy.remote] # "draft",
             Replacing' => Replacing, mishaps' >= mishaps
      PROVE  Settling
    BY <1>0, <1>1 DEF Settling, Drifting, Strays
<1>2. CASE Open
    <2>1. /\ pc = "idle" /\ receipt' = receipt /\ place' = place /\ pc' # "idle"
          /\ \/ copy' = receipt /\ mishaps' = mishaps /\ (receipt # NoReceipt => pc' = "resume")
             \/ copy' = NoReceipt /\ mishaps' = mishaps + 1
        BY <1>2 DEF Open, At, Goto, mailbox, NoFault, Mishap
    <2>2. Drifting' \subseteq Drifting
        BY <2>1 DEF Drifting, Strays
    <2>3. mishaps' = mishaps => ~Replacing'
        BY <1>0, <2>1 DEF Replacing, Writing
    <2> QED BY <1>0, <2>1, <2>2, <2>3 DEF Settling, Failing
<1>3. CASE Resume \/ Inspect \/ Attempt \/ Post \/ PostFails \/ Accept \/ Confirm
    <2>1. /\ receipt'.remote = receipt.remote /\ copy'.remote = copy.remote
          /\ copy.remote = receipt.remote
        <3>1. copy.remote = receipt.remote
            BY <1>3 DEF Resume, Inspect, Attempt, Post, PostFails, Accept, Confirm, At,
                        Inv, Holding, Owned
        <3>2. \E s : copy' = copy \/ copy' = Is(s)
            BY <1>3 DEF Resume, Inspect, Attempt, Post, PostFails, Accept, Confirm
        <3>3. receipt' = receipt \/ receipt' = copy' \/ \E s : receipt' = Is(s)
            BY <1>3 DEF Resume, Inspect, Attempt, Post, PostFails, Accept, Confirm, Write
        <3>4. ASSUME NEW s PROVE Is(s).remote = copy.remote
            BY <1>0, SMT DEF Is, Receipt, NoReceipt
        <3> QED BY <3>1, <3>2, <3>3, <3>4
    <2>2. mishaps' >= mishaps
        BY <1>0, <1>3 DEF Resume, Inspect, Attempt, Post, PostFails, Accept, Confirm, NoFault,
                          Mishap
    <2>3. pc' \notin Writing
        BY <1>3 DEF Resume, Inspect, Attempt, Post, PostFails, Accept, Confirm, Goto, Writing
    <2>4. \A r \in Remotes : place'[r] = "draft" => place[r] = "draft"
        BY <1>0, <1>3 DEF Resume, Inspect, Attempt, Post, PostFails, Accept, Confirm, mailbox,
                          Queued
    <2> QED BY <1>1, <2>1, <2>2, <2>3, <2>4 DEF Replacing
<1>4. CASE Create
    <2>1. pc = "create" /\ receipt' = receipt /\ copy.remote \notin Remotes
        BY <1>0, <1>4 DEF Create, At, Inv, Holding
    <2>2. CASE pc' = "idle" /\ UNCHANGED <<place, copy, mishaps>>
        <3>1. \A r \in Remotes : place'[r] = "draft" => place[r] = "draft" /\ r # copy.remote
            BY <2>1, <2>2
        <3> QED BY <1>0, <2>1, <2>2, <3>1 DEF Settling, Drifting, Strays, Replacing, Writing
    <2>3. ASSUME NEW r \in Remotes, place' = [place EXCEPT ![r] = "draft"],
                 pc' \in {"compose", "record"}, copy'.remote = r, mishaps' = mishaps
          PROVE  Settling
        <3>1. Drifting' \subseteq Drifting
            BY <1>0, <2>1, <2>3 DEF Drifting, Strays
        <3> QED BY <1>0, <2>1, <2>3, <3>1 DEF Settling, Replacing, Writing
    <2>4. ASSUME NEW r \in Remotes, place' = [place EXCEPT ![r] = "draft"], pc' = "idle",
                 mishaps' = mishaps + 1, copy' = copy
          PROVE  Failing
        <3>1. Drifting' \subseteq Drifting \cup {r}
            BY <1>0, <2>1, <2>4 DEF Drifting, Strays
        <3> QED BY <2>4, <3>1 DEF Failing, Replacing, Writing
    <2> QED BY <1>4, <2>2, <2>3, <2>4 DEF Create, Goto, mailbox, NoFault, Mishap
<1>5. CASE Compose
    <2>1. /\ pc = "compose" /\ UNCHANGED <<place, receipt, copy, mishaps>>
          /\ pc' = "record" \/ (pc' = "idle" /\ place[copy.remote] # "draft")
        BY <1>5 DEF Compose, At, Goto, NoFault
    <2> QED BY <1>0, <1>1, <2>1 DEF Replacing, Writing
<1>6. CASE Record
    <2>1. /\ pc = "record" /\ pc' = "inspect" /\ receipt' = copy
          /\ UNCHANGED <<place, copy, mishaps>>
        BY <1>6 DEF Record, At, Goto, Write, mailbox, NoFault
    <2>2. Drifting' \subseteq Drifting \cup {receipt.remote}
        BY <2>1 DEF Drifting, Strays
    <2>3. CASE receipt = NoReceipt
        <3>1. Drifting' \subseteq Drifting
            BY <1>0, <2>1, <2>2, <2>3 DEF Drifting, Strays
        <3> QED BY <1>0, <2>1, <3>1 DEF Settling, Replacing, Writing
    <2>4. CASE receipt # NoReceipt
        BY <2>1, <2>2, <2>4 DEF Replaced, Replacing, Writing
    <2> QED BY <2>3, <2>4
<1>7. CASE Stop
    <2>1. /\ pc' = "idle" /\ mishaps' = mishaps + 1 /\ UNCHANGED <<place, receipt, copy>>
        BY <1>7 DEF Stop, Goto, mailbox, Mishap
    <2>2. Drifting' \subseteq Drifting \cup {copy.remote}
        BY <2>1 DEF Drifting, Strays
    <2> QED BY <2>1, <2>2 DEF Failing, Replacing, Writing
<1>8. CASE Overwritten
    <2>1. /\ pc = "idle" /\ mishaps' = mishaps + 1 /\ UNCHANGED <<place, pc, copy>>
        BY <1>8 DEF Overwritten, At, mailbox, Mishap
    <2>2. Drifting' \subseteq Drifting \cup {receipt.remote}
        BY <2>1 DEF Drifting, Strays
    <2> QED BY <2>1, <2>2 DEF Failing, Replacing, Writing
<1>9. CASE Reconcile
    <2>1. /\ pc = "idle" /\ UNCHANGED <<place, copy, pc>> /\ mishaps' >= mishaps
        BY <1>0, <1>9 DEF Reconcile, At, mailbox, NoFault, Mishap
    <2>2. \E s : receipt' = [receipt EXCEPT !.state = s]
        BY <1>9 DEF Reconcile, Write
    <2>3. receipt'.remote = receipt.remote
        BY <1>0, <2>2, SMT DEF Receipt, NoReceipt
    <2> QED BY <1>1, <2>1, <2>3 DEF Replacing, Writing
<1>10. CASE Answered \/ Mailbox \/ UNCHANGED vars
    <2>1. UNCHANGED <<receipt, copy, pc>> /\ mishaps' >= mishaps
        BY <1>0, <1>10 DEF Answered, Conclude, Recheck, Mailbox, Edit, Delete, SendByHand,
                           Depart, Outside, NoFault, Mishap, vars
    <2>2. \A r \in Remotes : place'[r] = "draft" => place[r] = "draft"
        BY <1>0, <1>10 DEF Answered, Conclude, Recheck, Mailbox, Edit, Delete, SendByHand,
                           Depart, vars, mailbox
    <2> QED BY <1>0, <1>1, <2>1, <2>2 DEF Replacing
<1>11. CASE RecheckDies
    <2>1. pc = "idle" /\ UNCHANGED <<place, copy, pc>> /\ mishaps' >= mishaps
        BY <1>0, <1>11 DEF RecheckDies, At, mailbox, Mishap
    <2>2. \E s : receipt' = [receipt EXCEPT !.state = s]
        BY <1>11 DEF RecheckDies, Write
    <2>3. receipt'.remote = receipt.remote
        BY <1>0, <2>2, SMT DEF Receipt, NoReceipt
    <2> QED BY <1>1, <2>1, <2>3 DEF Replacing, Writing
<1> QED
    BY <1>2, <1>3, <1>4, <1>5, <1>6, <1>7, <1>8, <1>9, <1>10, <1>11
       DEF Next, Step, Recover, Answered

\* Nothing drifts at first.
LEMMA InitOwed == Init => Owed
<1> SUFFICES ASSUME Init PROVE Owed
    OBVIOUS
<1>1. Drifting = {} /\ ~Replacing /\ mishaps = 0
    BY DEF Init, Drifting, Strays, Replacing
<1> QED BY <1>1, FS_EmptySet DEF Owed

\* A draft in the mailbox that no receipt names has a failure of its own: a crash, a lost
\* answer, or a receipts file that could not be read.
THEOREM StraysArePaidFor == Spec => []StraysPaidFor
<1>1. Inv /\ Owed /\ [Next]_vars => Owed'
    BY DriftStep, Balanced, NextInv
<1>2. Inv /\ Owed => StraysPaidFor
    <2> SUFFICES ASSUME Inv, Owed PROVE StraysPaidFor
        OBVIOUS
    <2>1. Cardinality(Drifting) \in Nat /\ mishaps \in Nat
        BY MailAssumption, FS_Subset, FS_CardinalityType DEF Drifting, Strays, Inv, TypeOK
    <2> QED BY <2>1 DEF Owed, StraysPaidFor, Drifting
<1> QED BY InitOwed, Invariance, <1>1, <1>2, PTL DEF Spec

=============================================================================
