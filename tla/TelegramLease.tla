---------------------------- MODULE TelegramLease ----------------------------
(***************************************************************************)
(* Which gateway process owns a Telegram bot: the lease file of one bot    *)
(* token, the guard lock beside it, and the processes that acquire,        *)
(* release and lose it.  A slot is an operating-system pid: a gateway may  *)
(* run there, or a stranger that was given the pid of a dead gateway.      *)
(* Everything under the guard happens in one process, so the loop of       *)
(* acquire_for_config links at most twice; three attempts are never used.  *)
(***************************************************************************)
EXTENDS GatewayMishaps

CONSTANTS
    Free,          \* holder of the guard when nobody holds it
    Stamps         \* creation times of processes, and of images in them

ASSUME SlotAssumption == Free \notin Slots

ASSUME StampAssumption == \E s, t \in Stamps : s # t

VARIABLES
    lease,      \* the owner record, or NoLease
    guard,      \* holder of the guard lock
    gw,         \* what runs in each slot, see Stage
    born,       \* creation time of the process in a slot
    me          \* image in a slot, the uuid of its instance

leaseVars == <<lease, guard, gw, born, me>>

NoLease == [state |-> "none"]

\* A random uuid: no two images share one, and none outlives its image.
InstanceId(p) == <<p, me[p]>>

\* Mutant of Owner: a record without the instance id.
OwnerUnnamed(p) == [state |-> "held", pid |-> p, created |-> born[p]]

Owner(p) == [state |-> "held", pid |-> p, created |-> born[p],
             instance |-> InstanceId(p)]

\* hidden: a stranger whose creation time may not be read.
\* stopping: do_hard_restart, or run() after the owner's Ctrl-C; both release.
\* gutted: the process could not be replaced and runs on without the lease.
Stage == {"off", "stranger", "hidden", "boot", "try", "reclaim", "serving",
          "stopping", "released", "gutted"}

Gateway(p) == gw[p] \notin {"off", "stranger", "hidden"}

\* The channel's threads poll and send.
Polling(p) == gw[p] \in {"serving", "stopping", "released", "gutted"}

\* Mutant of OwnerIsAlive: the pid alone, as before the creation time was kept.
OwnerIsAliveByPid(o) == gw[o.pid] # "off"

\* Mutant of OwnerIsAlive: an owner that cannot be read is taken for dead.
OwnerIsAliveIfReadable(o) == gw[o.pid] = "hidden"

OwnerIsAlive(o) ==
    \/ gw[o.pid] = "hidden"
    \/ gw[o.pid] # "off" /\ born[o.pid] = o.created

Move(p, stage) == gw' = [gw EXCEPT ![p] = stage]

\* A new process, or a new image, is none that the lease file remembers.
FreshBirth(p) ==
    \E t \in Stamps :
        /\ lease # NoLease /\ lease.pid = p => lease.created # t
        /\ born' = [born EXCEPT ![p] = t]

FreshInstance(p) ==
    \E i \in Stamps :
        /\ lease # NoLease /\ lease.pid = p => lease.instance # <<p, i>>
        /\ me' = [me EXCEPT ![p] = i]

LeaseInit ==
    /\ lease = NoLease /\ guard = Free
    /\ gw = [p \in Slots |-> "off"]
    /\ \E t \in Stamps : born = [p \in Slots |-> t]
    /\ me = born

-----------------------------------------------------------------------------
(* acquire_for_config *)

\* A gateway is started: by a service manager, at login, or by hand.
Spawn(p) ==
    /\ gw[p] = "off"
    /\ FreshBirth(p) /\ FreshInstance(p)
    /\ Move(p, "boot")
    /\ UNCHANGED <<lease, guard, mishaps>>

Guard(p) ==
    /\ gw[p] = "boot" /\ guard = Free
    /\ guard' = p
    /\ Move(p, "try")
    /\ UNCHANGED <<lease, born, me, mishaps>>

Link(p) ==
    /\ gw[p] = "try" /\ lease = NoLease
    /\ lease' = Owner(p) /\ guard' = Free
    /\ Move(p, "serving")
    /\ UNCHANGED <<born, me, mishaps>>

\* The owner is alive: run() reports it and the process exits.
Refused(p) ==
    /\ gw[p] = "try" /\ lease # NoLease
    /\ OwnerIsAlive(lease)
    /\ guard' = Free
    /\ Move(p, "off")
    /\ UNCHANGED <<lease, born, me, mishaps>>

FindDead(p) ==
    /\ gw[p] = "try" /\ lease # NoLease
    /\ ~OwnerIsAlive(lease)
    /\ Move(p, "reclaim")
    /\ UNCHANGED <<lease, guard, born, me, mishaps>>

Unlink(p) ==
    /\ gw[p] = "reclaim"
    /\ lease' = NoLease
    /\ Move(p, "try")
    /\ UNCHANGED <<guard, born, me, mishaps>>

\* The guard times out, or a file operation fails: TelegramGatewayLeaseRaceError.
Raced(p) ==
    /\ gw[p] \in {"boot", "try", "reclaim"}
    /\ Mishap
    /\ guard' = IF guard = p THEN Free ELSE guard
    /\ Move(p, "off")
    /\ UNCHANGED <<lease, born, me>>

-----------------------------------------------------------------------------
(* shutdown, called by do_hard_restart and at the end of run() *)

\* A channel worker replies to /hard_restart or to a change of model, and
\* again after every reply as long as the process could not be replaced; or
\* the owner presses Ctrl-C, and run() releases and returns (see Exit).
HardRestart(p) ==
    /\ gw[p] \in {"serving", "gutted"}
    /\ Mishap
    /\ Move(p, "stopping")
    /\ UNCHANGED <<lease, guard, born, me>>

\* Mutant of Release: whatever lease there is, is taken for one's own.
ReleaseUnchecked(p) ==
    /\ gw[p] = "stopping" /\ guard = Free
    /\ lease' = NoLease
    /\ Move(p, "released")
    /\ UNCHANGED <<guard, born, me, mishaps>>

Release(p) ==
    /\ gw[p] = "stopping" /\ guard = Free
    /\ lease' = IF lease # NoLease /\ lease.instance = InstanceId(p)
                THEN NoLease ELSE lease
    /\ Move(p, "released")
    /\ UNCHANGED <<guard, born, me, mishaps>>

\* do_hard_restart swallows what shutdown() raises; run() ends with it.
ReleaseFails(p) ==
    /\ gw[p] = "stopping"
    /\ Mishap
    /\ Move(p, "released")
    /\ UNCHANGED <<lease, guard, born, me>>

\* POSIX: the same process, another image, another instance.
Exec(p) ==
    /\ gw[p] = "released"
    /\ FreshInstance(p)
    /\ Move(p, "boot")
    /\ UNCHANGED <<lease, guard, born, mishaps>>

\* os.execv raises in the worker that called it; the other threads run on.
ExecFails(p) ==
    /\ gw[p] = "released"
    /\ Mishap
    /\ Move(p, "gutted")
    /\ UNCHANGED <<lease, guard, born, me>>

\* The end of run(), or Windows, where a Spawn is the replacement.
Exit(p) ==
    /\ gw[p] = "released"
    /\ Move(p, "off")
    /\ UNCHANGED <<lease, guard, born, me, mishaps>>

Crash(p) ==
    /\ Gateway(p)
    /\ Mishap
    /\ guard' = IF guard = p THEN Free ELSE guard
    /\ Move(p, "off")
    /\ UNCHANGED <<lease, born, me>>

-----------------------------------------------------------------------------
(* The pid of a dead gateway is given to another program *)

Reuse(p) ==
    /\ gw[p] = "off"
    /\ lease # NoLease /\ lease.pid = p
    /\ Mishap
    /\ FreshBirth(p)
    /\ \E stage \in {"stranger", "hidden"} : Move(p, stage)
    /\ UNCHANGED <<lease, guard, me>>

Vacate(p) ==
    /\ gw[p] \in {"stranger", "hidden"}
    /\ Move(p, "off")
    /\ UNCHANGED <<lease, guard, born, me, mishaps>>

Acquiring(p) ==
    \/ Guard(p) \/ Link(p) \/ Refused(p) \/ FindDead(p) \/ Unlink(p)

Leaving(p) == Release(p) \/ Exec(p) \/ Exit(p)

-----------------------------------------------------------------------------
(* What the lease promises *)

LeaseTypeOK ==
    /\ lease \in [state : {"held"}, pid : Slots, created : Stamps,
                  instance : Slots \X Stamps] \cup {NoLease}
    /\ guard \in Slots \cup {Free}
    /\ gw \in [Slots -> Stage]
    /\ born \in [Slots -> Stamps] /\ me \in [Slots -> Stamps]

\* One gateway serves a bot, and the lease file names it: a dead owner is
\* replaced, a live one never, and a process that lost the lease, or never
\* got it back, does not take it from its successor when it shuts down.
OneOwner ==
    \A p \in Slots : gw[p] = "serving" => lease = Owner(p)

=============================================================================
