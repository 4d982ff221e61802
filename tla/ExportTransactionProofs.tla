----------------------- MODULE ExportTransactionProofs -----------------------
(***************************************************************************)
(* Theorems about ExportTransaction, for every set of edits and every      *)
(* number of failures: the types, that the owner's work is kept, that the  *)
(* file an export replaced can be restored, and that the journal is true.  *)
(***************************************************************************)
EXTENDS ExportTransaction, TLAPS

\* The phase in which each step runs.
IntentSteps == {"prepare", "snapshot", "keep", "prepared"}
PreparedSteps ==
    {"commit", "reserve", "marking", "stage", "staging", "check", "displace",
     "authenticate", "publish", "verify", "retire", "finish", "record", "compensate"}
ReplaceSteps ==
    {"copy_back", "copying_back", "swap", "swapped", "republish", "confirm",
     "retire_replaced", "retire_copy"}
RemoveSteps == {"remove", "removed", "purge"}

StepPhase ==
    /\ pc = "begin" => phase \in {"none", "rolled_back"}
    /\ pc \in IntentSteps => phase = "intent"
    /\ pc \in PreparedSteps => phase = "prepared"
    /\ pc = "unstage" => phase \in {"prepared", "committed"}
    /\ pc = "undo" => phase = "committed"
    /\ pc \in ReplaceSteps \cup RemoveSteps \cup {"restore", "undone"} => phase = "rolling_back"
    /\ pc = "cleanup" => phase = "rolled_back"
    /\ pc \in ReplaceSteps => Existed
    /\ pc \in RemoveSteps => ~Existed

\* A backup is the prior file, and is there when the journal needs it.
Backup ==
    /\ file["backup"] \in {"none", prior}
    /\ pc = "prepared" /\ Existed => file["backup"] = prior
    /\ phase = "none" \/ pc = "begin" => file["backup"] = "none"
    /\ PriorKept

\* The names under which the destination is moved aside are free outside the steps
\* that use them.
Aside ==
    /\ phase # "prepared" \/ pc \in {"record", "unstage"} => file["displaced"] = "none"
    /\ phase # "rolling_back" \/ ~Existed \/ pc \in {"retire_copy", "undone"}
           => file["replace"] = "none"
    /\ phase # "rolling_back" \/ Existed \/ pc = "undone" => file["delete"] = "none"

\* No edit is saved twice, so what the owner did to the prior file shows.
Fresh ==
    /\ latest \in {"none", "old"} \cup saved
    /\ prior \in {"none", "old"} \cup saved
    /\ phase = "none" \/ pc = "begin" => file["dest"] \in {"none", "old"} \cup saved

\* Where the destination is known.
Restored == pc \in {"retire_replaced", "retire_copy", "undone"} \/ phase = "rolled_back"
Landed ==
    /\ Restored /\ Existed /\ (latest = prior \/ ~touched) => file["dest"] = prior
    /\ ~touched =>
          /\ phase = "intent" => file["dest"] = prior
          /\ phase = "committed" \/ pc \in {"retire", "unstage", "record", "finish"}
                => file["dest"] = "output"
          /\ pc \in {"removed", "purge", "undone"} \/ phase = "rolled_back"
                => Existed \/ file["dest"] = "none"

IInv == TypeOK /\ StepPhase /\ Backup /\ Aside /\ Fresh /\ Landed /\ WorkKept

\* Nothing is exported yet.
LEMMA InitInv == Init => IInv
<1> USE EditsAssumption
        DEF IInv, TypeOK, StepPhase, Backup, Aside, Fresh, Landed, Restored, WorkKept, PriorKept,
            IntentSteps, PreparedSteps, ReplaceSteps, RemoveSteps, Phases, Labels,
            Owned, Contents, Names, Helpers, Existed, Expected, Checkpointed,
            At, Goto, Raise, Put, Retire, Move, Keep, Quiet, Journal, owner, journal
<1> SUFFICES ASSUME Init PROVE IInv
  OBVIOUS
<1>1. PICK c \in {"none", "old"} :
        file = [n \in Names |-> IF n = "dest" THEN c ELSE "none"] /\ latest = c
  BY DEF Init
<1>2. file["dest"] = c /\ \A n \in Helpers : file[n] = "none"
  BY <1>1
<1>3. TypeOK
  <2>1. file \in [Names -> Contents]
    BY <1>1
  <2>2. approved \in BOOLEAN /\ touched \in BOOLEAN
    BY DEF Init
  <2>3. saved \subseteq Edits /\ mishaps \in 0 .. MaxMishaps
    BY DEF Init
  <2>4. phase \in Phases /\ pc \in Labels /\ prior \in Owned /\ seen \in Contents
    BY DEF Init
  <2> QED BY <1>1, <2>1, <2>2, <2>3, <2>4
<1>4. WorkKept
  BY <1>1, <1>2
<1> QED BY <1>1, <1>2, <1>3, <1>4 DEF Init

\* The steps of an export.
LEMMA ExportInv ==
    ASSUME IInv, ExportStep
    PROVE  IInv'
<1> USE EditsAssumption
        DEF IInv, TypeOK, StepPhase, Backup, Aside, Fresh, Landed, Restored, WorkKept, PriorKept,
            IntentSteps, PreparedSteps, ReplaceSteps, RemoveSteps, Phases, Labels,
            Owned, Contents, Names, Helpers, Existed, Expected, Checkpointed,
            At, Goto, Raise, Put, Retire, Move, Keep, Quiet, Journal, owner, journal
<1>1. CASE Begin
  <2>1. CASE file["dest"] # "none" /\ ~approved
    BY <1>1, <2>1 DEF Begin
  <2>2. CASE ~(file["dest"] # "none" /\ ~approved)
    <3> USE <1>1, <2>2 DEF Begin
    <3>1. file' \in [Names -> Contents] /\ file'["dest"] = file["dest"]
          /\ \A n \in Helpers : file'[n] = "none"
      OBVIOUS
    <3>2. prior' \in Owned
      OBVIOUS
    <3>3. TypeOK'
      BY <3>1, <3>2
    <3>4. WorkKept'
      BY <3>1
    <3>5. StepPhase' /\ Backup' /\ Aside' /\ Fresh' /\ Landed'
      BY <3>1
    <3> QED BY <3>3, <3>4, <3>5
  <2> QED BY <2>1, <2>2
<1>2. CASE Prepare
  BY <1>2 DEF Prepare
<1>3. CASE Snapshot
  BY <1>3 DEF Snapshot
<1>4. CASE KeepPrior
  BY <1>4 DEF KeepPrior
<1>5. CASE Prepared
  BY <1>5 DEF Prepared
<1>6. CASE Commit
  BY <1>6 DEF Commit
<1>7. CASE Reserve
  BY <1>7 DEF Reserve
<1>8. CASE Mark
  BY <1>8 DEF Mark
<1>9. CASE Stage
  BY <1>9 DEF Stage
<1>10. CASE Staged
  BY <1>10 DEF Staged
<1>11. CASE Check
  BY <1>11 DEF Check
<1>12. CASE Displace
  BY <1>12 DEF Displace
<1>13. CASE Authenticate
  BY <1>13 DEF Authenticate
<1>14. CASE Publish
  BY <1>14 DEF Publish
<1>15. CASE Verify
  BY <1>15 DEF Verify
<1>16. CASE RetireDisplaced
  BY <1>16 DEF RetireDisplaced
<1>17. CASE Unstage
  BY <1>17 DEF Unstage
<1>18. CASE Finish
  BY <1>18 DEF Finish
<1>19. CASE Record
  BY <1>19 DEF Record
<1>20. CASE Compensate
  BY <1>20 DEF Compensate
<1> QED BY <1>1, <1>2, <1>3, <1>4, <1>5, <1>6, <1>7, <1>8, <1>9, <1>10, <1>11, <1>12, <1>13, <1>14, <1>15, <1>16, <1>17, <1>18, <1>19, <1>20 DEF ExportStep

\* The steps of a rollback.
LEMMA RollbackInv ==
    ASSUME IInv, RollbackStep
    PROVE  IInv'
<1> USE EditsAssumption
        DEF IInv, TypeOK, StepPhase, Backup, Aside, Fresh, Landed, Restored, WorkKept, PriorKept,
            IntentSteps, PreparedSteps, ReplaceSteps, RemoveSteps, Phases, Labels,
            Owned, Contents, Names, Helpers, Existed, Expected, Checkpointed,
            At, Goto, Raise, Put, Retire, Move, Keep, Quiet, Journal, owner, journal
<1>1. CASE Undo
  BY <1>1 DEF Undo
<1>2. CASE Restore
  BY <1>2 DEF Restore
<1>3. CASE CopyBack
  BY <1>3 DEF CopyBack
<1>4. CASE CopiedBack
  BY <1>4 DEF CopiedBack
<1>5. CASE Swap
  BY <1>5 DEF Swap
<1>6. CASE Swapped
  BY <1>6 DEF Swapped
<1>7. CASE Republish
  BY <1>7 DEF Republish
<1>8. CASE Confirm
  BY <1>8 DEF Confirm
<1>9. CASE RetireReplaced
  BY <1>9 DEF RetireReplaced
<1>10. CASE RetireCopy
  BY <1>10 DEF RetireCopy
<1>11. CASE Remove
  BY <1>11 DEF Remove
<1>12. CASE Removed
  BY <1>12 DEF Removed
<1>13. CASE Purge
  BY <1>13 DEF Purge
<1>14. CASE Undone
  BY <1>14 DEF Undone
<1>15. CASE Cleanup
  BY <1>15 DEF Cleanup
<1> QED BY <1>1, <1>2, <1>3, <1>4, <1>5, <1>6, <1>7, <1>8, <1>9, <1>10, <1>11, <1>12, <1>13, <1>14, <1>15 DEF RollbackStep

\* The calls, the failures and the owner.
LEMMA OtherInv ==
    ASSUME IInv, Export \/ Rollback \/ Fail \/ Crash \/ (\E e \in Edits : Save(e)) \/ Delete
    PROVE  IInv'
<1> USE EditsAssumption
        DEF IInv, TypeOK, StepPhase, Backup, Aside, Fresh, Landed, Restored, WorkKept, PriorKept,
            IntentSteps, PreparedSteps, ReplaceSteps, RemoveSteps, Phases, Labels,
            Owned, Contents, Names, Helpers, Existed, Expected, Checkpointed,
            At, Goto, Raise, Put, Retire, Move, Keep, Quiet, Journal, owner, journal
<1>1. CASE Export
  BY <1>1 DEF Export
<1>2. CASE Rollback
  BY <1>2 DEF Rollback
<1>3. CASE Fail
  BY <1>3 DEF Fail, Mishap, Publishing, Copies
<1>4. CASE Crash
  BY <1>4 DEF Crash, Mishap
<1>5. CASE \E e \in Edits : Save(e)
  BY <1>5 DEF Save, Leave
<1>6. CASE Delete
  BY <1>6 DEF Delete, Leave
<1> QED BY <1>1, <1>2, <1>3, <1>4, <1>5, <1>6

LEMMA Inductive == IInv /\ [Next]_vars => IInv'
<1> SUFFICES ASSUME IInv, [Next]_vars PROVE IInv'
  OBVIOUS
<1>1. CASE Next
  BY <1>1, ExportInv, RollbackInv, OtherInv DEF Next
<1>2. CASE UNCHANGED vars
  BY <1>2 DEF vars, IInv, TypeOK, StepPhase, Backup, Aside, Fresh, Landed, Restored,
              WorkKept, PriorKept, Existed
<1> QED BY <1>1, <1>2

LEMMA Invariance == Spec => []IInv
<1> QED BY InitInv, Inductive, PTL DEF Spec

\* The variables have their types.
THEOREM TypeCorrect == Spec => []TypeOK
<1>1. IInv => TypeOK
  BY DEF IInv
<1> QED BY <1>1, Invariance, PTL

\* However the owner's saves, the failures, the crashes and the retries fall, what the
\* owner left last is never destroyed.
THEOREM OwnersWorkKept == Spec => []WorkKept
<1>1. IInv => WorkKept
  BY DEF IInv
<1> QED BY <1>1, Invariance, PTL

\* What an export replaced can be restored until its rollback is over.
THEOREM ReplacedFileKept == Spec => []PriorKept
<1>1. IInv => PriorKept
  BY DEF IInv, Backup
<1> QED BY <1>1, Invariance, PTL

\* A journal found after a crash says what is at an undisturbed destination.
THEOREM JournalIsTrue == Spec => []JournalTrue
<1>1. IInv => JournalTrue
  BY DEF IInv, Landed, Restored, JournalTrue, Existed
<1> QED BY <1>1, Invariance, PTL

-----------------------------------------------------------------------------
\* Without failures the owner's work is in its place whenever nothing runs.

\* It is on its way when a step has moved the destination and not yet looked at it.
Aloft ==
    /\ file["dest"] = "none"
    /\ \/ pc = "authenticate" /\ file["displaced"] = latest
       \/ pc = "swapped" /\ file["replace"] = latest
       \/ pc = "removed" /\ file["delete"] = latest

\* It is replaced when it is what the owner agreed to replace.
Carried ==
    /\ latest = prior
    /\ \/ pc = "publish" /\ file["dest"] = "none"
       \/ pc \in {"verify", "retire", "unstage", "record"} /\ file["dest"] = "output"
       \/ phase = "committed" /\ file["dest"] = "output"
       \/ /\ pc \in {"restore", "copy_back", "copying_back", "swap"}
          /\ file["dest"] = "output" /\ file["replace"] = "none"
          /\ pc # "restore" => seen = "output"
          /\ pc \in {"restore", "copy_back"} => file["rollback"] = "none"
          /\ pc = "swap" => file["rollback"] = prior
       \/ /\ pc \in {"swapped", "republish"}
          /\ file["dest"] = "none" /\ file["replace"] = "output" /\ file["rollback"] = prior

Visible ==
    mishaps = 0 /\ latest # "none" => file["dest"] = latest \/ Aloft \/ Carried

Seen ==
    /\ Existed => approved
    /\ touched /\ latest # "none" => latest # prior
    /\ phase \notin {"rolling_back", "rolled_back"} => file["rollback"] = "none"
    /\ pc \in {"check", "displace", "authenticate", "publish"} => file["staging"] = "output"
    /\ pc \in {"publish", "verify", "retire"} => Checkpointed
    /\ Visible


\* The steps of an export.
LEMMA ExportSeen ==
    ASSUME IInv, Seen, ExportStep
    PROVE  Seen'
<1> USE EditsAssumption
        DEF IInv, Visible, Carried, Aloft, Seen, TypeOK, StepPhase, Backup, Aside, Fresh, Landed, Restored, WorkKept, PriorKept,
            IntentSteps, PreparedSteps, ReplaceSteps, RemoveSteps, Phases, Labels,
            Owned, Contents, Names, Helpers, Existed, Expected, Checkpointed,
            At, Goto, Raise, Put, Retire, Move, Keep, Quiet, Journal, owner, journal
<1>1. CASE Begin
  <2>1. CASE file["dest"] # "none" /\ ~approved
    BY <1>1, <2>1 DEF Begin
  <2>2. CASE ~(file["dest"] # "none" /\ ~approved)
    <3> USE <1>1, <2>2 DEF Begin
    <3>1. file'["dest"] = file["dest"] /\ \A n \in Helpers : file'[n] = "none"
      OBVIOUS
    <3>2. prior' = file["dest"] /\ approved' = approved /\ touched' = FALSE
      OBVIOUS
    <3>3. (Existed => approved)'
      BY <3>2, Zenon
    <3>4. latest # "none" => file["dest"] = latest
      OBVIOUS
    <3>5. Visible'
      BY <3>1, <3>4
    <3> QED BY <3>1, <3>2, <3>3, <3>5
  <2> QED BY <2>1, <2>2
<1>2. CASE Prepare
  BY <1>2 DEF Prepare
<1>3. CASE Snapshot
  BY <1>3 DEF Snapshot
<1>4. CASE KeepPrior
  BY <1>4 DEF KeepPrior
<1>5. CASE Prepared
  BY <1>5 DEF Prepared
<1>6. CASE Commit
  BY <1>6 DEF Commit
<1>7. CASE Reserve
  BY <1>7 DEF Reserve
<1>8. CASE Mark
  BY <1>8 DEF Mark
<1>9. CASE Stage
  BY <1>9 DEF Stage
<1>10. CASE Staged
  BY <1>10 DEF Staged
<1>11. CASE Check
  BY <1>11 DEF Check
<1>12. CASE Displace
  BY <1>12 DEF Displace
<1>13. CASE Authenticate
  BY <1>13 DEF Authenticate
<1>14. CASE Publish
  <2> USE <1>14 DEF Publish
  <2>1. CASE file["dest"] = "none"
    <3>1. file' = [file EXCEPT !["dest"] = "output"] /\ pc' = "verify"
      BY <2>1
    <3>2. Visible'
      BY <2>1, <3>1
    <3> QED BY <3>1, <3>2
  <2>2. CASE file["dest"] # "none"
    <3>1. file' = file /\ pc' \in {"verify", "compensate"}
      BY <2>2
    <3>2. Visible'
      BY <2>2, <3>1
    <3> QED BY <3>1, <3>2
  <2> QED BY <2>1, <2>2
<1>15. CASE Verify
  BY <1>15 DEF Verify
<1>16. CASE RetireDisplaced
  BY <1>16 DEF RetireDisplaced
<1>17. CASE Unstage
  BY <1>17 DEF Unstage
<1>18. CASE Finish
  BY <1>18 DEF Finish
<1>19. CASE Record
  BY <1>19 DEF Record
<1>20. CASE Compensate
  BY <1>20 DEF Compensate
<1> QED BY <1>1, <1>2, <1>3, <1>4, <1>5, <1>6, <1>7, <1>8, <1>9, <1>10, <1>11, <1>12, <1>13, <1>14, <1>15, <1>16, <1>17, <1>18, <1>19, <1>20 DEF ExportStep

\* The steps of a rollback.
LEMMA RollbackSeen ==
    ASSUME IInv, Seen, RollbackStep
    PROVE  Seen'
<1> USE EditsAssumption
        DEF IInv, Visible, Carried, Aloft, Seen, TypeOK, StepPhase, Backup, Aside, Fresh, Landed, Restored, WorkKept, PriorKept,
            IntentSteps, PreparedSteps, ReplaceSteps, RemoveSteps, Phases, Labels,
            Owned, Contents, Names, Helpers, Existed, Expected, Checkpointed,
            At, Goto, Raise, Put, Retire, Move, Keep, Quiet, Journal, owner, journal
<1>1. CASE Undo
  BY <1>1 DEF Undo
<1>2. CASE Restore
  BY <1>2 DEF Restore
<1>3. CASE CopyBack
  BY <1>3 DEF CopyBack
<1>4. CASE CopiedBack
  BY <1>4 DEF CopiedBack
<1>5. CASE Swap
  BY <1>5 DEF Swap
<1>6. CASE Swapped
  BY <1>6 DEF Swapped
<1>7. CASE Republish
  BY <1>7 DEF Republish
<1>8. CASE Confirm
  BY <1>8 DEF Confirm
<1>9. CASE RetireReplaced
  BY <1>9 DEF RetireReplaced
<1>10. CASE RetireCopy
  BY <1>10 DEF RetireCopy
<1>11. CASE Remove
  BY <1>11 DEF Remove
<1>12. CASE Removed
  BY <1>12 DEF Removed
<1>13. CASE Purge
  BY <1>13 DEF Purge
<1>14. CASE Undone
  BY <1>14 DEF Undone
<1>15. CASE Cleanup
  BY <1>15 DEF Cleanup
<1> QED BY <1>1, <1>2, <1>3, <1>4, <1>5, <1>6, <1>7, <1>8, <1>9, <1>10, <1>11, <1>12, <1>13, <1>14, <1>15 DEF RollbackStep

\* The calls, the failures and the owner.
LEMMA OtherSeen ==
    ASSUME IInv, Seen, Export \/ Rollback \/ Fail \/ Crash \/ (\E e \in Edits : Save(e)) \/ Delete
    PROVE  Seen'
<1> USE EditsAssumption
        DEF IInv, Visible, Carried, Aloft, Seen, TypeOK, StepPhase, Backup, Aside, Fresh, Landed, Restored, WorkKept, PriorKept,
            IntentSteps, PreparedSteps, ReplaceSteps, RemoveSteps, Phases, Labels,
            Owned, Contents, Names, Helpers, Existed, Expected, Checkpointed,
            At, Goto, Raise, Put, Retire, Move, Keep, Quiet, Journal, owner, journal
<1>1. CASE Export
  BY <1>1 DEF Export
<1>2. CASE Rollback
  BY <1>2 DEF Rollback
<1>3. CASE Fail
  BY <1>3 DEF Fail, Mishap, Publishing, Copies
<1>4. CASE Crash
  BY <1>4 DEF Crash, Mishap
<1>5. CASE \E e \in Edits : Save(e)
  BY <1>5 DEF Save, Leave
<1>6. CASE Delete
  BY <1>6 DEF Delete, Leave
<1> QED BY <1>1, <1>2, <1>3, <1>4, <1>5, <1>6

\* Unless an operation failed, an export or rollback that has ended leaves the owner's
\* last work in its place, or the output the owner approved.
THEOREM OwnersWorkSeen == Spec => []WorkSeen
<1>1. Init => Seen
  BY InitInv DEF Init, Seen, Visible, Existed, Names, Helpers
<1>2. IInv /\ Seen /\ [Next]_vars => Seen'
  <2> SUFFICES ASSUME IInv, Seen, [Next]_vars PROVE Seen'
    OBVIOUS
  <2>1. CASE Next
    BY <2>1, ExportSeen, RollbackSeen, OtherSeen DEF Next
  <2>2. CASE UNCHANGED vars
    BY <2>2 DEF vars, Seen, Visible, Aloft, Carried, Existed, Expected, Checkpointed
  <2> QED BY <2>1, <2>2
<1>3. IInv /\ Seen => WorkSeen
  BY DEF IInv, StepPhase, Seen, Visible, Aloft, Carried, WorkSeen, Existed
<1> QED BY <1>1, <1>2, <1>3, Invariance, PTL DEF Spec

=============================================================================
