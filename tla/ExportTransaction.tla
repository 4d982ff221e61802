------------------------- MODULE ExportTransaction -------------------------
(***************************************************************************)
(* One approved Office export and its rollback (birkin/office/export_*.py):*)
(* the copy of a validated draft to a destination that belongs to the      *)
(* owner, whose editor knows nothing of the export and saves or deletes    *)
(* the destination whenever it likes.                                      *)
(*                                                                         *)
(* Every file operation is a step of its own: the process may be killed    *)
(* between any two (Crash), and any operation may raise OSError (Fail).    *)
(* The destination lock and the journal lock keep all other exports and    *)
(* rollbacks of this destination away, so one program counter is enough.   *)
(* A digest is the content it is the digest of, and a helper file is its   *)
(* content: nothing outside the export touches one, so the comparisons of  *)
(* inode identity that guard them never fail.                              *)
(***************************************************************************)
EXTENDS Naturals

CONSTANTS
    Edits,          \* what the owner may save, each once
    MaxMishaps      \* bound on crashes and failing operations

Helpers == {"staging", "displaced", "prepare", "backup",
            "rollback", "replace", "delete"}
Names == Helpers \cup {"dest"}

Owned == {"none", "old"} \cup Edits
\* "mark" reserves a new destination, "torn" is a copy that was cut short.
Contents == Owned \cup {"output", "mark", "torn"}

ASSUME EditsAssumption ==
    /\ Edits \cap {"none", "old", "output", "mark", "torn"} = {}
    /\ MaxMishaps \in Nat

VARIABLES
    file,       \* the content of every file, "none" when it is absent
    phase,      \* the journal
    prior,      \* the journal's destination_sha256, "none" for a new destination
    approved,   \* the request's overwrite_approved
    seen,       \* the destination as the rollback read it, used later
    pc,         \* what the lock's holder does next
    saved,      \* the edits that were saved
    latest,     \* the owner's file as the owner last left it
    touched,    \* the owner acted on the destination since the journal began
    mishaps     \* crashes and failing operations so far

vars == <<file, phase, prior, approved, seen, pc, saved, latest, touched, mishaps>>
owner == <<saved, latest, touched>>
journal == <<phase, prior, approved>>

Existed == prior # "none"
Expected == IF Existed THEN prior ELSE "mark"
Checkpointed == file["displaced"] = Expected

At(l) == pc = l
Goto(l) == pc' = l
Raise == Goto("idle")

Put(n, c) == file' = [file EXCEPT ![n] = c]
Retire(n) == Put(n, "none")
Move(a, b) == file' = [file EXCEPT ![a] = "none", ![b] = file[a]]
Keep == UNCHANGED file

\* A step of the lock's holder that leaves the journal alone, and one that writes it.
Quiet == UNCHANGED <<journal, seen, owner, mishaps>>
Journal(p) == phase' = p /\ UNCHANGED <<prior, approved, seen, owner, mishaps>>

-----------------------------------------------------------------------------
\* Export: the journal decides where to go on.

\* Mutant of Export: a rollback that was cut short is begun anew as well.
ExportUnfinished ==
    /\ At("idle")
    /\ \/ phase = "none" /\ Goto("begin")
       \/ phase = "intent" /\ Goto("prepare")
       \/ phase = "prepared" /\ Goto("commit")
       \/ phase \in {"rolling_back", "rolled_back"} /\ Goto("begin")
    /\ Keep
    /\ Quiet

Export ==
    /\ At("idle")
    /\ \/ phase = "none" /\ Goto("begin") /\ Keep
       \/ phase = "intent" /\ Goto("prepare") /\ Keep
       \/ phase = "prepared" /\ Goto("commit") /\ Keep
       \* a rolled-back transaction is retired and begun anew
       \/ /\ phase = "rolled_back"
          /\ file["dest"] = prior
          /\ file' = [file EXCEPT !["backup"] = "none",
                                  !["staging"] = IF @ = "output" THEN "none" ELSE @]
          /\ Goto("begin")
    /\ Quiet

\* A new token names new helper files; those of an earlier token are forgotten.
Begin ==
    /\ At("begin")
    /\ IF file["dest"] # "none" /\ ~approved
       THEN Raise /\ Keep /\ Quiet
       ELSE /\ phase' = "intent"
            /\ prior' = file["dest"]
            /\ file' = [n \in Names |-> IF n = "dest" THEN file[n] ELSE "none"]
            /\ touched' = FALSE
            /\ Goto("prepare")
            /\ UNCHANGED <<approved, seen, saved, latest, mishaps>>

Prepare ==
    /\ At("prepare")
    /\ IF ~Existed
       THEN Keep /\ IF file["dest"] = "none" THEN Goto("prepared") ELSE Raise
       ELSE IF file["backup"] # "none"
       THEN Keep /\ IF file["backup"] = prior THEN Goto("prepared") ELSE Raise
       ELSE IF file["dest"] # prior THEN Keep /\ Raise
       ELSE IF file["prepare"] # "none"
       THEN Keep /\ IF file["prepare"] = prior THEN Goto("keep") ELSE Raise
       ELSE Put("prepare", "torn") /\ Goto("snapshot")
    /\ Quiet

\* A destination that is saved while it is copied gives a copy of either or of both.
Snapshot ==
    /\ At("snapshot")
    /\ \E c \in IF file["dest"] = prior THEN {prior} ELSE {prior, "torn"} : Put("prepare", c)
    /\ Goto("keep")
    /\ Quiet

\* Mutant of KeepPrior: the copy is not compared with what was to be copied.
KeepAnyCopy == At("keep") /\ Move("prepare", "backup") /\ Goto("prepared") /\ Quiet

KeepPrior ==
    /\ At("keep")
    /\ IF file["prepare"] = prior
       THEN Move("prepare", "backup") /\ Goto("prepared")
       ELSE Keep /\ Raise
    /\ Quiet

Prepared == At("prepared") /\ Journal("prepared") /\ Goto("commit") /\ Keep

\* Mutant of Commit: a displaced destination is not looked for.
CommitFresh ==
    /\ At("commit")
    /\ IF file["dest"] = "output" THEN Goto("finish")
       ELSE IF file["dest"] = prior THEN Goto(IF Existed THEN "stage" ELSE "reserve")
       ELSE Raise
    /\ Keep
    /\ Quiet

Commit ==
    /\ At("commit")
    /\ IF file["dest"] = "output" THEN Goto("finish")
       ELSE IF Checkpointed \/ (Existed /\ file["dest"] = prior) THEN Goto("stage")
       ELSE IF Existed THEN Raise
       ELSE Goto("reserve")
    /\ Keep
    /\ Quiet

Reserve ==
    /\ At("reserve")
    /\ IF file["dest"] = "mark" THEN Keep /\ Goto("stage")
       ELSE IF file["dest"] = "none" THEN Put("dest", "torn") /\ Goto("marking")
       ELSE Keep /\ Raise
    /\ Quiet

\* A destination that the owner replaced takes no marker.
Mark ==
    /\ At("marking")
    /\ IF file["dest"] = "torn" THEN Put("dest", "mark") ELSE Keep
    /\ Goto("stage")
    /\ Quiet

Stage ==
    /\ At("stage")
    /\ IF file["staging"] = "output" THEN Keep /\ Goto("check")
       ELSE IF file["staging"] = "none" THEN Put("staging", "torn") /\ Goto("staging")
       ELSE Keep /\ Raise
    /\ Quiet

Staged == At("staging") /\ Put("staging", "output") /\ Goto("check") /\ Quiet

Check ==
    /\ At("check")
    /\ IF file["dest"] = Expected \/ Checkpointed THEN Goto("displace") ELSE Raise
    /\ Keep
    /\ Quiet

-----------------------------------------------------------------------------
\* Publication: every failure from here on is compensated.

Publishing == {"displace", "authenticate", "publish", "verify", "retire"}

Displace ==
    /\ At("displace")
    /\ IF file["displaced"] # "none"
       THEN Keep /\ Goto(IF Checkpointed THEN "publish" ELSE "compensate")
       ELSE IF file["dest"] = "none" THEN Keep /\ Goto("compensate")
       ELSE Move("dest", "displaced") /\ Goto("authenticate")
    /\ Quiet

\* Mutant of Authenticate: what was displaced by mistake stays displaced.
AuthenticateOnly ==
    /\ At("authenticate")
    /\ Goto(IF Checkpointed THEN "publish" ELSE "compensate")
    /\ Keep
    /\ Quiet

\* What was displaced is not what was read: put it back.
Authenticate ==
    /\ At("authenticate")
    /\ IF Checkpointed THEN Keep /\ Goto("publish")
       ELSE /\ Goto("compensate")
            /\ IF file["dest"] = "none" THEN Move("displaced", "dest") ELSE Keep
    /\ Quiet

Publish ==
    /\ At("publish")
    /\ IF file["dest"] = "none" THEN Put("dest", file["staging"]) /\ Goto("verify")
       ELSE IF file["dest"] = "output" THEN Keep /\ Goto("verify")
       ELSE Keep /\ Goto("compensate")
    /\ Quiet

Verify ==
    /\ At("verify")
    /\ Goto(IF file["dest"] = "output" THEN "retire" ELSE "compensate")
    /\ Keep
    /\ Quiet

RetireDisplaced ==
    /\ At("retire")
    /\ IF Checkpointed THEN Retire("displaced") /\ Goto("unstage")
       ELSE Keep /\ Goto("compensate")
    /\ Quiet

\* Before the journal is written after a publication, after it when a retry
\* finds the output in place.
Unstage ==
    /\ At("unstage")
    /\ IF file["staging"] = "output" THEN Retire("staging") ELSE Keep
    /\ Goto(IF phase = "committed" THEN "idle" ELSE "record")
    /\ Quiet

\* A retry that finds the output in place.
Finish ==
    /\ At("finish")
    /\ IF file["displaced"] = "none" THEN Keep /\ Goto("record")
       ELSE IF Checkpointed /\ file["dest"] = "output" THEN Retire("displaced") /\ Goto("record")
       ELSE Keep /\ Raise
    /\ Quiet

Record ==
    /\ At("record")
    /\ Journal("committed")
    /\ Goto(IF file["staging"] = "output" THEN "unstage" ELSE "idle")
    /\ Keep

Compensate ==
    /\ At("compensate")
    /\ IF Checkpointed /\ file["dest"] = "none" THEN Move("displaced", "dest") ELSE Keep
    /\ Raise
    /\ Quiet

-----------------------------------------------------------------------------
\* Rollback, by the receipt of a committed export.

Rollback ==
    /\ At("idle")
    /\ \/ phase = "committed" /\ Goto("undo")
       \/ phase = "rolling_back" /\ Goto("restore")
       \/ phase = "rolled_back" /\ file["dest"] = prior /\ Goto("cleanup")
    /\ Keep
    /\ Quiet

\* Mutant of Undo: the journal says rolled back before the files are.
UndoAhead == At("undo") /\ Journal("rolled_back") /\ Goto("restore") /\ Keep

Undo == At("undo") /\ Journal("rolling_back") /\ Goto("restore") /\ Keep

Restore ==
    /\ At("restore")
    /\ seen' = file["dest"]
    /\ Goto(CASE Existed /\ file["dest"] = prior ->
                    IF file["replace"] = "none" THEN "undone" ELSE "retire_replaced"
              [] Existed /\ file["dest"] # prior ->
                    IF file["backup"] = "none" THEN "idle" ELSE "copy_back"
              [] ~Existed /\ file["dest"] = "none" ->
                    IF file["delete"] = "none" THEN "undone" ELSE "purge"
              [] ~Existed /\ file["dest"] # "none" ->
                    IF file["dest"] = "output" THEN "remove" ELSE "idle")
    /\ Keep
    /\ UNCHANGED <<journal, owner, mishaps>>

CopyBack ==
    /\ At("copy_back")
    /\ IF file["rollback"] = prior THEN Keep /\ Goto("swap")
       ELSE IF file["rollback"] = "none" THEN Put("rollback", "torn") /\ Goto("copying_back")
       ELSE Keep /\ Raise
    /\ Quiet

CopiedBack == At("copying_back") /\ Put("rollback", file["backup"]) /\ Goto("swap") /\ Quiet

\* Mutant of Swap: an output moved aside by an earlier attempt is in the way.
SwapOnce ==
    /\ At("swap")
    /\ IF seen = "output" /\ file["dest"] # "none" /\ file["replace"] = "none"
       THEN Move("dest", "replace") /\ Goto("swapped")
       ELSE Keep /\ Raise
    /\ Quiet

\* The guard reads what Restore saw, the move takes what is there now.
Swap ==
    /\ At("swap")
    /\ IF file["replace"] # "none" THEN Keep /\ Goto("swapped")
       ELSE IF seen = "output" /\ file["dest"] # "none"
       THEN Move("dest", "replace") /\ Goto("swapped")
       ELSE Keep /\ Raise
    /\ Quiet

Swapped ==
    /\ At("swapped")
    /\ IF file["replace"] = "output" THEN Keep /\ Goto("republish")
       ELSE /\ Raise
            /\ IF file["dest"] = "none" THEN Move("replace", "dest") ELSE Keep
    /\ Quiet

\* Mutant of Republish: os.replace, whatever is in the way.
RepublishOver == At("republish") /\ Put("dest", file["rollback"]) /\ Goto("confirm") /\ Quiet

Republish ==
    /\ At("republish")
    /\ IF file["dest"] = "none" THEN Put("dest", file["rollback"]) /\ Goto("confirm")
       ELSE IF file["dest"] = prior THEN Keep /\ Goto("confirm")
       ELSE Keep /\ Raise
    /\ Quiet

Confirm ==
    /\ At("confirm")
    /\ IF file["dest"] = prior THEN Goto("retire_replaced") ELSE Raise
    /\ Keep
    /\ Quiet

RetireReplaced ==
    /\ At("retire_replaced")
    /\ IF file["replace"] = "output" THEN Retire("replace") /\ Goto("retire_copy")
       ELSE Keep /\ Raise
    /\ Quiet

RetireCopy ==
    /\ At("retire_copy")
    /\ IF file["rollback"] = prior THEN Retire("rollback") ELSE Keep
    /\ Goto("undone")
    /\ Quiet

Remove ==
    /\ At("remove")
    /\ IF file["dest"] # "none" /\ file["delete"] = "none"
       THEN Move("dest", "delete") /\ Goto("removed")
       ELSE Keep /\ Raise
    /\ Quiet

Removed ==
    /\ At("removed")
    /\ IF file["delete"] = "output" THEN Keep /\ Goto("purge")
       ELSE /\ Raise
            /\ IF file["dest"] = "none" THEN Move("delete", "dest") ELSE Keep
    /\ Quiet

\* Only the process that removed the destination looks at it again.
Purge ==
    /\ At("purge")
    /\ IF file["delete"] = "output"
       THEN /\ Retire("delete")
            /\ Goto(IF seen = "output" /\ file["dest"] # "none" THEN "idle" ELSE "undone")
       ELSE Keep /\ Raise
    /\ Quiet

Undone == At("undone") /\ Journal("rolled_back") /\ Goto("cleanup") /\ Keep

Cleanup == At("cleanup") /\ Retire("backup") /\ Raise /\ Quiet

-----------------------------------------------------------------------------
\* Failures, and the owner.

Mishap == mishaps < MaxMishaps /\ mishaps' = mishaps + 1

Copies == [snapshot |-> "prepare", staging |-> "staging", copying_back |-> "rollback"]

\* An operation raises OSError: a copy removes what it wrote, a publication is
\* compensated, anything else leaves the files as they are.
Fail ==
    /\ pc # "idle"
    /\ Mishap
    /\ Goto(IF pc \in Publishing \/ (At("unstage") /\ phase # "committed")
            THEN "compensate" ELSE "idle")
    /\ IF pc \in DOMAIN Copies THEN Retire(Copies[pc]) ELSE Keep
    /\ UNCHANGED <<journal, seen, owner>>

Crash ==
    /\ pc # "idle"
    /\ Mishap
    /\ Goto("idle")
    /\ Keep
    /\ UNCHANGED <<journal, seen, owner>>

Leave(c) ==
    /\ Put("dest", c)
    /\ latest' = c
    /\ touched' = TRUE
    /\ UNCHANGED <<journal, seen, pc, mishaps>>

Save(e) == e \notin saved /\ saved' = saved \cup {e} /\ Leave(e)

Delete == file["dest"] # "none" /\ Leave("none") /\ UNCHANGED saved

-----------------------------------------------------------------------------

Init ==
    /\ \E c \in {"none", "old"} :
          /\ file = [n \in Names |-> IF n = "dest" THEN c ELSE "none"]
          /\ latest = c
    /\ phase = "none" /\ prior = "none" /\ seen = "none"
    /\ approved \in BOOLEAN
    /\ pc = "idle"
    /\ saved = {} /\ touched = FALSE
    /\ mishaps = 0

ExportStep ==
    \/ Begin \/ Prepare \/ Snapshot \/ KeepPrior \/ Prepared \/ Commit \/ Reserve \/ Mark
    \/ Stage \/ Staged \/ Check \/ Displace \/ Authenticate \/ Publish \/ Verify
    \/ RetireDisplaced \/ Unstage \/ Finish \/ Record \/ Compensate

RollbackStep ==
    \/ Undo \/ Restore \/ CopyBack \/ CopiedBack \/ Swap \/ Swapped \/ Republish \/ Confirm
    \/ RetireReplaced \/ RetireCopy \/ Remove \/ Removed \/ Purge \/ Undone \/ Cleanup

Next ==
    \/ Export \/ Rollback \/ ExportStep \/ RollbackStep
    \/ Fail \/ Crash
    \/ \E e \in Edits : Save(e)
    \/ Delete

Spec == Init /\ [][Next]_vars

\* An operation ends, and what was begun is asked for again.
FairSpec ==
    /\ Spec
    /\ WF_vars(ExportStep \/ RollbackStep)
    /\ WF_vars(phase \in {"intent", "prepared"} /\ Export)
    /\ WF_vars(phase = "rolling_back" /\ Rollback)

-----------------------------------------------------------------------------
\* Properties

Phases == {"none", "intent", "prepared", "committed", "rolling_back", "rolled_back"}

Labels ==
    {"idle", "begin", "prepare", "snapshot", "keep", "prepared", "commit", "reserve",
     "marking", "stage", "staging", "check", "displace", "authenticate", "publish",
     "verify", "retire", "unstage", "finish", "record", "compensate",
     "undo", "restore", "copy_back", "copying_back", "swap", "swapped", "republish",
     "confirm", "retire_replaced", "retire_copy", "remove", "removed", "purge",
     "undone", "cleanup"}

\* The variables have their types.
TypeOK ==
    /\ file \in [Names -> Contents]
    /\ phase \in Phases /\ prior \in Owned /\ approved \in BOOLEAN
    /\ seen \in Contents
    /\ pc \in Labels
    /\ saved \subseteq Edits /\ latest \in Owned /\ touched \in BOOLEAN
    /\ mishaps \in 0 .. MaxMishaps

\* What the owner left last is always somewhere: at the destination, displaced by
\* the export or by its rollback, or in the backup.  No order of saves, crashes and
\* retries makes a rename, a retirement or a clean-up destroy the only copy.
WorkKept ==
    latest # "none" =>
        \E n \in {"dest", "displaced", "replace", "delete", "backup"} : file[n] = latest

\* Unless an operation failed or was killed, an export that has ended leaves the
\* owner's last work in its place, or else the output that replaced what the owner
\* had approved: a save that races the export is put back (export_compensation.py).
\* A deletion that races it may be undone: the prior file, or the reservation of a
\* new destination, comes back.
WorkSeen ==
    pc = "idle" /\ mishaps = 0 /\ latest # "none" =>
        \/ file["dest"] = latest
        \/ file["dest"] = "output" /\ phase = "committed" /\ approved /\ ~touched

\* From the moment the journal says prepared until the rollback is over, the file
\* that was replaced is in the backup, so that what was exported can be undone.
PriorKept ==
    phase \in {"prepared", "committed", "rolling_back"} /\ Existed => file["backup"] = prior

\* The journal is true whenever the process is killed: while the owner stays away,
\* committed means the output is in place and rolled_back that the prior file is.
JournalTrue ==
    ~touched =>
        /\ phase = "committed" => file["dest"] = "output"
        /\ phase = "rolled_back" => file["dest"] = prior
        /\ phase = "intent" => file["dest"] = prior

\* A copy that a crash cut short: every retry refuses it (export_commit_state.py:53).
Torn == pc = "idle" /\ \E n \in Names : file[n] = "torn"

\* A begun export that the owner does not disturb is published in the end, however
\* often it is interrupted, unless a crash cut a copy short.
Published == phase = "intent" ~> (phase = "committed" \/ touched \/ Torn)

\* A begun rollback of an undisturbed destination is finished in the end.
RolledBack == phase = "rolling_back" ~> (phase = "rolled_back" \/ touched \/ Torn)

=============================================================================
