---------------------------- MODULE PluginStore ----------------------------
(***************************************************************************)
(* The processes that manage the plugin store: each runs one command of    *)
(* owo_plugin_shell (install, install-risk, activate, deactivate, revoke,  *)
(* uninstall, cleanup) and ends.  What changes versions, records and the   *)
(* active record holds the mutation lock; extracting a package, validating *)
(* the staged files, saving an authorization and every query do not.  A    *)
(* file operation may fail and a process may die between any two of them.  *)
(*                                                                         *)
(* A step takes the lock together with the checks that follow it: what     *)
(* they read changes only under the lock.                                  *)
(***************************************************************************)
EXTENDS PluginDisk

CONSTANTS Nobody, MaxOps, MaxFaults   \* bounds: commands run, failures and deaths

ASSUME StoreAssumption == Nobody \notin Processes /\ MaxOps \in Nat /\ MaxFaults \in Nat

VARIABLES
    disk,
    starting,     \* a plugin host has read the active record and not yet used it
    lock,         \* Local\OwO.Plugin.Store.Mutation.v1
    pc, job,
    ops, faults

vars == <<disk, starting, lock, pc, job, ops, faults>>

Locked == {"record", "active", "activate", "remove", "detach", "profile", "unrecord",
           "ungrant", "untomb", "restoreRecord", "restoreDir", "restoreProfile", "report"}
Unlocked == {"idle", "extract", "publish", "discard", "grantCheck", "grant",
             "activateCheck", "deactivate", "cleanup", "uninstall"}

\* v, pkg: what the command is about.  For an uninstall, kept is the store when
\* it took the lock, last whether the plugin has no other version, gone whether
\* the profile was deleted, undone whether every step of a rollback worked; ok
\* and removed are its result.  raced is history: another process was about to
\* write an authorization of the version when the uninstall deleted it.
Job(op, v, pkg) ==
    [op |-> op, v |-> v, pkg |-> pkg, consent |-> FALSE, grants |-> {},
     item |-> Item("temporary", Left), dir |-> NoDir, profile |-> FALSE,
     last |-> FALSE, gone |-> FALSE, undone |-> FALSE, ok |-> FALSE, removed |-> FALSE,
     raced |-> FALSE]

NoJob == Job("none", CHOOSE v \in Versions: TRUE, NoPackage)

-----------------------------------------------------------------------------
(* A store as earlier commands left it: versions with their records, those *)
(* in consented with the authorization of an install-risk, and of those in *)
(* detached what an uninstall left that died after it took the directory.  *)

PackageOf(pkgs, v) == IF \E pkg \in pkgs: VersionOf[pkg] = v
                        THEN CHOOSE pkg \in pkgs: VersionOf[pkg] = v ELSE NoPackage

Store(installed, detached, active, consented) ==
    [dirs |-> [v \in Versions |-> LET pkg == PackageOf(installed, v)
                                  IN IF pkg = NoPackage THEN NoDir ELSE Dir(pkg, "whole")],
     records |-> [v \in Versions |-> PackageOf(installed \cup detached, v)],
     active |-> active,
     auths |-> [v \in Versions |->
                  LET pkg == PackageOf(consented, v)
                  IN IF pkg = NoPackage THEN NoGrant
                                        ELSE [pkg |-> pkg, grants |-> Permissions(pkg)]],
     temps |-> {},
     staging |-> [p \in Processes |-> NoDir], left |-> 0,
     tomb |-> NoDir, tombs |-> Cardinality(detached),
     profile |-> FALSE, harmed |-> {}]

Init ==
    /\ \E installed, detached \in SUBSET Packages:
         /\ installed \cap detached = {}
         /\ \A one, other \in installed \cup detached:
              VersionOf[one] = VersionOf[other] => one = other
         /\ Cardinality(detached) <= MaxFaults
         /\ \E active \in installed \cup {NoPackage}, consented \in SUBSET (installed \cup detached):
              /\ (installed \cup detached) \ consented \subseteq Trusted \ FullTrust
              /\ disk = Store(installed, detached, active, consented)
    /\ starting = FALSE
    /\ lock = Nobody
    /\ pc = [p \in Processes |-> "idle"]
    /\ job = [p \in Processes |-> NoJob]
    /\ ops = 0
    /\ faults = Cardinality({v \in Versions: ~Here(disk.dirs[v]) /\ disk.records[v] # NoPackage})

-----------------------------------------------------------------------------
(* The shape of a step.                                                    *)

Goto(p, step) == pc' = [pc EXCEPT ![p] = step]
SameJob == UNCHANGED <<job, ops>>
NoFault == UNCHANGED faults
Fault == faults < MaxFaults /\ faults' = faults + 1

\* A command begins.
Start(p, step, work) ==
    /\ pc[p] = "idle" /\ ops < MaxOps
    /\ ops' = ops + 1
    /\ job' = [job EXCEPT ![p] = work]
    /\ Goto(p, step)
    /\ UNCHANGED lock /\ NoFault

\* The command prints its result and its process ends.
Ends(p) == /\ Goto(p, "idle")
           /\ job' = [job EXCEPT ![p] = NoJob] /\ UNCHANGED ops

TakeLock(p) == lock = Nobody /\ lock' = p
KeepLock == UNCHANGED lock
FreeLock == lock' = Nobody

\* WaitForSingleObject gives up after five seconds.
LockTimeout(p) ==
    /\ pc[p] \in {"publish", "activateCheck", "deactivate", "cleanup", "uninstall"}
    /\ lock \notin {Nobody, p}
    /\ IF pc[p] = "publish" THEN Goto(p, "discard") /\ SameJob ELSE Ends(p)
    /\ KeepLock /\ NoFault /\ UNCHANGED disk

-----------------------------------------------------------------------------
(* install and install-risk: install_snapshot and publish_staged_plugin.   *)

\* Without a consent only a trusted package that asks for no full trust is
\* accepted.  Extraction begins in a staging directory of its own.
\* (A directory's name is never used again: not while a cleanup still has it.)
StartInstall(p, pkg, consent) ==
    /\ ~consent => pkg \in Trusted \ FullTrust
    /\ Start(p, "extract", [Job("install", VersionOf[pkg], pkg) EXCEPT
                              !.consent = consent, !.grants = Permissions(pkg)])
    /\ \A q \in Processes: job[q].item # Item("retained_staging", p)
    /\ disk' = [disk EXCEPT !.staging[p] = Dir(pkg, "part")]

\* Extraction ends, and publish_staged_plugin validates the staged manifest and
\* entry files.  It finds them unless a cleanup took them meanwhile.
Extracted(p) ==
    /\ pc[p] = "extract"
    /\ LET staged == disk.staging[p]
       IN \/ /\ Here(staged)
             /\ \E files \in IF "raided" \in staged.marks THEN {"part"} ELSE {"whole"}:
                  disk' = [disk EXCEPT !.staging[p].files = files]
             /\ Goto(p, "publish") /\ NoFault
          \/ /\ Goto(p, "discard") /\ UNCHANGED disk
             /\ IF "raided" \in staged.marks \/ ~Here(staged) THEN NoFault ELSE Fault
    /\ KeepLock /\ SameJob

\* remove_transaction_staging: what cannot be removed is left to recovery.
Discard(p) ==
    /\ pc[p] = "discard"
    /\ \/ disk' = [disk EXCEPT !.staging[p] = NoDir] /\ NoFault
       \/ /\ Here(disk.staging[p]) /\ Fault
          /\ disk' = [disk EXCEPT !.staging[p] = NoDir, !.left = @ + 1]
    /\ Ends(p) /\ KeepLock

\* Under the lock: the version must not exist, and the staged directory is
\* moved to its place.
PublishMove(p) ==
    /\ pc[p] = "publish"
    /\ LET v == job[p].v
           moves == Here(disk.staging[p]) /\ ~Here(disk.dirs[v])
           over == IF disk.records[v] = NoPackage THEN {} ELSE {"overOrphan"}
       IN \/ /\ moves /\ TakeLock(p)
             /\ disk' = [disk EXCEPT !.dirs[v] = [disk.staging[p] EXCEPT !.marks = @ \cup over],
                                     !.staging[p] = NoDir,
                                     !.harmed = IF "raided" \in disk.staging[p].marks
                                                  THEN @ \cup {v} ELSE @]
             /\ Goto(p, "record") /\ NoFault
          \/ /\ lock = Nobody /\ KeepLock
             /\ IF moves THEN Fault ELSE NoFault
             /\ Goto(p, "discard") /\ UNCHANGED disk
    /\ SameJob

\* The version record is written; if it cannot be, the directory is moved back.
PublishRecord(p) ==
    /\ pc[p] = "record"
    /\ LET v == job[p].v
           settled == [disk.dirs[v] EXCEPT !.marks = @ \ {"overOrphan"}]
       IN \/ /\ disk' = [disk EXCEPT !.records[v] = job[p].pkg, !.dirs[v] = settled]
             /\ IF job[p].consent THEN Goto(p, "grantCheck") /\ FreeLock
                                  ELSE Goto(p, "active") /\ KeepLock
             /\ SameJob /\ NoFault
          \/ /\ disk' = [disk EXCEPT !.staging[p] = settled, !.dirs[v] = NoDir]
             /\ Goto(p, "discard") /\ FreeLock /\ SameJob /\ Fault
          \/ /\ faults + 1 < MaxFaults /\ faults' = faults + 2
             /\ FreeLock /\ Ends(p) /\ UNCHANGED disk

\* Without a consent the version is activated at once.
PublishActive(p) ==
    /\ pc[p] = "active"
    /\ \/ disk' = [disk EXCEPT !.active = job[p].pkg] /\ NoFault
       \/ UNCHANGED disk /\ Fault
    /\ Ends(p) /\ FreeLock

\* save_plugin_authorization, without the lock: the installed package is
\* queried and the authorization must be canonical for it ...
GrantCheck(p) ==
    /\ pc[p] = "grantCheck"
    /\ LET v == job[p].v
           grant == [pkg |-> job[p].pkg, grants |-> job[p].grants]
       IN IF Installed(disk, v) /\ Canonical(disk, v, grant)
            THEN Goto(p, "grant") /\ SameJob ELSE Ends(p)
    /\ KeepLock /\ NoFault /\ UNCHANGED disk

\* ... and then the file is replaced.
GrantWrite(p) ==
    /\ pc[p] = "grant"
    /\ \/ /\ disk' = [disk EXCEPT !.auths[job[p].v] = [pkg |-> job[p].pkg, grants |-> job[p].grants]]
          /\ NoFault
       \/ UNCHANGED disk /\ Fault
    /\ Ends(p) /\ KeepLock

-----------------------------------------------------------------------------
(* activate, deactivate, revoke.                                           *)

\* The shell queries the version, and its grants when it asks for full trust.
StartActivate(p, v) ==
    /\ Installed(disk, v)
    /\ disk.dirs[v].pkg \in FullTrust => FullyGranted(disk, v)
    /\ Start(p, "activateCheck", Job("activate", v, NoPackage)) /\ UNCHANGED disk

\* activate_installed_plugin_version queries it again under the lock.
ActivateCheck(p) ==
    /\ pc[p] = "activateCheck"
    /\ \/ /\ Installed(disk, job[p].v) /\ TakeLock(p)
          /\ Goto(p, "activate") /\ SameJob
       \/ ~Installed(disk, job[p].v) /\ lock = Nobody /\ KeepLock /\ Ends(p)
    /\ NoFault /\ UNCHANGED disk

ActivateWrite(p) ==
    /\ pc[p] = "activate"
    /\ \/ disk' = [disk EXCEPT !.active = disk.records[job[p].v]] /\ NoFault
       \/ UNCHANGED disk /\ Fault
    /\ Ends(p) /\ FreeLock

StartDeactivate(p, v) ==
    /\ Start(p, "deactivate", Job("deactivate", v, NoPackage)) /\ UNCHANGED disk

\* deactivate_plugin: only the version the caller names is disabled.
Deactivate(p) ==
    /\ pc[p] = "deactivate" /\ lock = Nobody
    /\ LET expected == ActiveOk(disk) /\ VersionOf[disk.active] = job[p].v
       IN \/ expected /\ disk' = [disk EXCEPT !.active = NoPackage] /\ NoFault
          \/ UNCHANGED disk /\ IF expected THEN Fault ELSE NoFault
    /\ Ends(p) /\ KeepLock

\* revoke: the authorization is replaced by one that grants nothing.
StartRevoke(p, v) ==
    /\ Loads(disk, v)
    /\ Start(p, "grantCheck", Job("revoke", v, disk.records[v])) /\ UNCHANGED disk

-----------------------------------------------------------------------------
(* cleanup: the item the user chose is in the shell's scan, and must still *)
(* be in the scan made under the lock.                                     *)

StartCleanup(p, item) ==
    /\ Cleanable(item)
    /\ Start(p, "cleanup", [Job("cleanup", NoJob.v, NoPackage) EXCEPT !.item = item])
    /\ UNCHANGED disk

\* Sensitivity variant: the shell's scan is believed.
CleanupCheckBelieving(p) ==
    /\ pc[p] = "cleanup" /\ Cleanable(job[p].item)
    /\ TakeLock(p) /\ Goto(p, "remove") /\ SameJob /\ NoFault /\ UNCHANGED disk

CleanupCheck(p) ==
    /\ pc[p] = "cleanup"
    /\ LET found == job[p].item \in Scan(disk) /\ Cleanable(job[p].item)
       IN \/ found /\ TakeLock(p) /\ Goto(p, "remove") /\ SameJob
          \/ ~found /\ lock = Nobody /\ KeepLock /\ Ends(p)
    /\ NoFault /\ UNCHANGED disk

\* A staging directory may be gone by now: its installation discarded it.
CleanupRemove(p) ==
    /\ pc[p] = "remove"
    /\ \/ disk' = Removed(disk, job[p].item) /\ NoFault
       \/ Fault /\ disk' \in HalfRemoved(disk, job[p].item)
    /\ Ends(p) /\ FreeLock

-----------------------------------------------------------------------------
(* uninstall: uninstall_plugin_version.                                    *)

StartUninstall(p, v) ==
    /\ Start(p, "uninstall", Job("uninstall", v, NoPackage)) /\ UNCHANGED disk

\* An active record must be sound and name another version.
MayUninstall(d, v) ==
    /\ Installed(d, v)
    /\ d.active # NoPackage => ActiveOk(d) /\ VersionOf[d.active] # v

\* Sensitivity variant: the lock is not taken, and whether the version is the
\* last one is not looked at.
UninstallCheckEarly(p) ==
    /\ pc[p] = "uninstall" /\ MayUninstall(disk, job[p].v) /\ KeepLock
    /\ job' = [job EXCEPT ![p].pkg = disk.records[job[p].v], ![p].dir = disk.dirs[job[p].v],
                          ![p].profile = disk.profile]
    /\ Goto(p, "detach") /\ UNCHANGED <<ops, disk>> /\ NoFault

UninstallCheck(p) ==
    /\ pc[p] = "uninstall"
    /\ LET v == job[p].v
       IN \/ /\ MayUninstall(disk, v) /\ TakeLock(p)
             /\ job' = [job EXCEPT ![p].pkg = disk.records[v], ![p].dir = disk.dirs[v],
                                   ![p].profile = disk.profile,
                                   ![p].last = \A other \in Versions \ {v}:
                                                 ~Here(disk.dirs[other])]
             /\ Goto(p, "detach") /\ UNCHANGED ops
          \/ ~MayUninstall(disk, v) /\ lock = Nobody /\ KeepLock /\ Ends(p)
    /\ NoFault /\ UNCHANGED disk

\* A step of the uninstall, still under the lock.
Uninstalling(p, step, work) ==
    /\ Goto(p, step) /\ KeepLock /\ UNCHANGED ops
    /\ job' = [job EXCEPT ![p] = work]

\* The version directory becomes the tombstone.
Detach(p) ==
    /\ pc[p] = "detach"
    /\ LET v == job[p].v
       IN \/ /\ disk' = [disk EXCEPT !.tomb = disk.dirs[v], !.dirs[v] = NoDir]
             /\ NoFault
             /\ Uninstalling(p, IF job[p].last THEN "profile" ELSE "unrecord",
                             [job[p] EXCEPT !.removed = TRUE])
          \/ UNCHANGED disk /\ Fault /\ Uninstalling(p, "report", job[p])

\* The last version takes the sandbox profile with it.
DeleteProfile(p) ==
    /\ pc[p] = "profile"
    /\ \/ /\ disk' = [disk EXCEPT !.profile = FALSE] /\ NoFault
          /\ Uninstalling(p, "unrecord", [job[p] EXCEPT !.gone = TRUE])
       \/ UNCHANGED disk /\ Fault
          /\ Uninstalling(p, "restoreDir", [job[p] EXCEPT !.undone = TRUE])

\* delete_expected_record_file: only the record read before is deleted.
DeleteRecord(p) ==
    /\ pc[p] = "unrecord"
    /\ LET v == job[p].v
       IN \/ /\ disk.records[v] = job[p].pkg
             /\ disk' = [disk EXCEPT !.records[v] = NoPackage] /\ NoFault
             /\ Uninstalling(p, "ungrant", job[p])
          \/ UNCHANGED disk /\ Fault
             /\ Uninstalling(p, "restoreDir", [job[p] EXCEPT !.undone = TRUE])

\* Sensitivity variant: the rollback does not restore the record.
DeleteGrantForgetting(p) ==
    /\ pc[p] = "ungrant"
    /\ \/ /\ disk' = [disk EXCEPT !.auths[job[p].v] = NoGrant] /\ NoFault
          /\ Uninstalling(p, "untomb", job[p])
       \/ UNCHANGED disk /\ Fault
          /\ Uninstalling(p, "restoreDir", [job[p] EXCEPT !.undone = TRUE])

GrantUnderWay(v) == \E p \in Processes: pc[p] = "grant" /\ job[p].v = v

\* delete_optional_safe_file: an authorization that another process has checked
\* and not yet written comes after it.
DeleteGrant(p) ==
    /\ pc[p] = "ungrant"
    /\ \/ /\ disk' = [disk EXCEPT !.auths[job[p].v] = NoGrant] /\ NoFault
          /\ Uninstalling(p, "untomb", [job[p] EXCEPT !.raced = GrantUnderWay(job[p].v)])
       \/ UNCHANGED disk /\ Fault
          /\ Uninstalling(p, "restoreRecord", [job[p] EXCEPT !.undone = TRUE])

\* The tombstone is deleted, or retained for recovery.
DeleteTomb(p) ==
    /\ pc[p] = "untomb"
    /\ \/ /\ disk' = [disk EXCEPT !.tomb = NoDir] /\ NoFault
          /\ Uninstalling(p, "report", [job[p] EXCEPT !.ok = TRUE])
       \/ UNCHANGED disk /\ Fault /\ Uninstalling(p, "report", job[p])

\* rollback: every part is tried, whatever became of the others.
RestoreRecord(p) ==
    /\ pc[p] = "restoreRecord"
    /\ \/ /\ disk' = [disk EXCEPT !.records[job[p].v] = job[p].pkg] /\ NoFault
          /\ Uninstalling(p, "restoreDir", job[p])
       \/ UNCHANGED disk /\ Fault
          /\ Uninstalling(p, "restoreDir", [job[p] EXCEPT !.undone = FALSE])

RestoreDir(p) ==
    /\ pc[p] = "restoreDir"
    /\ \/ /\ disk' = [disk EXCEPT !.dirs[job[p].v] = disk.tomb, !.tomb = NoDir] /\ NoFault
          /\ Uninstalling(p, "restoreProfile", job[p])
       \/ UNCHANGED disk /\ Fault
          /\ Uninstalling(p, "restoreProfile", [job[p] EXCEPT !.undone = FALSE])

\* The profile is prepared again if it was deleted; the version counts as not
\* removed only if the whole rollback worked.
RestoreProfile(p) ==
    /\ pc[p] = "restoreProfile"
    /\ \/ /\ disk' = [disk EXCEPT !.profile = @ \/ job[p].gone] /\ NoFault
          /\ Uninstalling(p, "report", [job[p] EXCEPT !.removed = ~job[p].undone])
       \/ job[p].gone /\ UNCHANGED disk /\ Fault /\ Uninstalling(p, "report", job[p])

\* The result is returned and the lock released.
Report(p) ==
    /\ pc[p] = "report"
    /\ disk' = IF Here(disk.tomb) THEN [disk EXCEPT !.tomb = NoDir, !.tombs = @ + 1] ELSE disk
    /\ Ends(p) /\ FreeLock /\ NoFault

-----------------------------------------------------------------------------
(* Where a death of p may leave a temporary file.                          *)
Writing(p) == CASE pc[p] \in {"record", "restoreRecord"} -> {"records"}
                [] pc[p] \in {"active", "activate"} -> {"active"}
                [] pc[p] = "grant" -> {"authorizations"}
                [] OTHER -> {}

\* A store after its owner p is gone: nobody removes its staging directory or
\* its tombstone any more.
Orphaned(d, p) ==
    LET staged == IF Here(d.staging[p])
                    THEN [d EXCEPT !.staging[p] = NoDir, !.left = @ + 1] ELSE d
    IN IF lock = p /\ Here(d.tomb)
         THEN [staged EXCEPT !.tomb = NoDir, !.tombs = @ + 1] ELSE staged

\* The process dies.  A dead owner's mutex counts as acquired by the next.
Crash(p) ==
    /\ pc[p] # "idle" /\ Fault
    /\ \E temps \in SUBSET Writing(p):
         disk' = [Orphaned(disk, p) EXCEPT !.temps = @ \cup temps]
    /\ lock' = IF lock = p THEN Nobody ELSE lock
    /\ Ends(p)

\* The plugin host starts a plugin: it queries the active version, and later
\* prepares the sandbox profile.
HostQueries ==
    /\ ~starting /\ ActiveOk(disk)
    /\ disk.dirs[VersionOf[disk.active]].pkg \notin FullTrust
    /\ starting' = TRUE /\ UNCHANGED disk

HostPrepares ==
    /\ starting /\ starting' = FALSE
    /\ disk' = [disk EXCEPT !.profile = TRUE]

Host == (HostQueries \/ HostPrepares) /\ UNCHANGED <<lock, pc, job, ops, faults>>

Step(p) ==
    \/ \E pkg \in Packages, consent \in BOOLEAN: StartInstall(p, pkg, consent)
    \/ \E v \in Versions: StartActivate(p, v)
    \/ \E v \in Versions: StartDeactivate(p, v)
    \/ \E v \in Versions: StartRevoke(p, v)
    \/ \E v \in Versions: StartUninstall(p, v)
    \/ \E item \in Scan(disk): StartCleanup(p, item)
    \/ LockTimeout(p)
    \/ Extracted(p) \/ Discard(p)
    \/ PublishMove(p) \/ PublishRecord(p) \/ PublishActive(p)
    \/ GrantCheck(p) \/ GrantWrite(p)
    \/ ActivateCheck(p) \/ ActivateWrite(p) \/ Deactivate(p)
    \/ CleanupCheck(p) \/ CleanupRemove(p)
    \/ UninstallCheck(p) \/ Detach(p) \/ DeleteProfile(p) \/ DeleteRecord(p)
    \/ DeleteGrant(p) \/ DeleteTomb(p)
    \/ RestoreRecord(p) \/ RestoreDir(p) \/ RestoreProfile(p) \/ Report(p)
    \/ Crash(p)

Next == \/ Host
        \/ \E p \in Processes: Step(p) /\ UNCHANGED starting

Spec == Init /\ [][Next]_vars

-----------------------------------------------------------------------------
(* Properties.                                                             *)

TypeOK ==
    /\ disk \in Disks
    /\ starting \in BOOLEAN
    /\ lock \in Processes \cup {Nobody}
    /\ pc \in [Processes -> Locked \cup Unlocked]
    /\ ops \in 0..MaxOps /\ faults \in 0..MaxFaults

\* The active record always names a version that is there, whose version record
\* binds the same package, and whose directory holds that whole package unless
\* it stands beside the record of an earlier build because the publication that
\* moved it in did not come to its record (plugin_store.cpp:453-476).  A version
\* is excepted once it was published while a cleanup took its files: it can be
\* activated without its manifest and then be cleaned up as an orphan.
ActiveResolves ==
    disk.active # NoPackage /\ VersionOf[disk.active] \notin disk.harmed =>
        LET v == VersionOf[disk.active]
        IN /\ Here(disk.dirs[v]) /\ disk.records[v] = disk.active
           /\ disk.dirs[v].marks = {} => disk.dirs[v] = Dir(disk.active, "whole")

\* A version that queries accept stops being one only by its own uninstall, or
\* because the publication that was just moving it in takes it back: no
\* cleanup, failure or death of another command does it
\* (plugin_store.cpp:902-926, 1000).
InstalledStays ==
    [][\A v \in Versions:
         Installed(disk, v) /\ ~Installed(disk, v)' =>
           \E p \in Processes: job[p].v = v /\ pc[p] \in {"detach", "record"}]_vars

\* An uninstall reports what it did.  When it succeeds, the directory, the record
\* and the tombstone are gone, and so is the authorization unless a revoke or an
\* install-risk of another process, which takes no lock, was about to write one
\* when it was deleted.  When it says that the version was not removed, the
\* version, its record and the profile are as they were.  When it says that it
\* was removed but did not succeed, the files are back in their place or still in
\* the tombstone, and not lost (plugin_store.cpp:1004-1060,
\* plugin_authorization_store.cpp's save_plugin_authorization).
UninstallHonest ==
    \A p \in Processes: pc[p] = "report" =>
        LET v == job[p].v
        IN /\ job[p].ok => /\ ~Here(disk.dirs[v]) /\ ~Here(disk.tomb)
                           /\ disk.records[v] = NoPackage
                           /\ disk.auths[v] = NoGrant \/ job[p].raced
           /\ ~job[p].removed => /\ disk.dirs[v] = job[p].dir /\ ~Here(disk.tomb)
                                 /\ disk.records[v] = job[p].pkg
                                 /\ job[p].profile => disk.profile
           /\ job[p].removed /\ ~job[p].ok => job[p].dir \in {disk.tomb, disk.dirs[v]}
           /\ disk.active # NoPackage => VersionOf[disk.active] # v

\* The store if every process died now.
Abandoned(d) ==
    [d EXCEPT !.staging = [p \in Processes |-> NoDir], !.tomb = NoDir,
              !.left = @ + Cardinality({p \in Processes: Here(d.staging[p])}),
              !.tombs = @ + (IF Here(d.tomb) THEN 1 ELSE 0)]

\* The store once the user has cleaned up everything the scan offers, one item
\* after the other: each is looked for again when its turn comes.
Cleaned(item, d) == IF item \in Scan(d) THEN Removed(d, item) ELSE d
CleanedUp(d) == FoldSet(Cleaned, d, {item \in Scan(d): Cleanable(item)})

Sound(d) ==
    /\ d.temps = {}
    /\ \A v \in Versions: Here(d.dirs[v]) <=> d.records[v] # NoPackage
    /\ \A v \in Versions: d.auths[v] # NoGrant =>
                             Here(d.dirs[v]) /\ d.auths[v].pkg = d.records[v]
    /\ d.active # NoPackage => d.records[VersionOf[d.active]] = d.active

\* Wherever the processes die, cleaning up once what the scan lists leaves a
\* sound store with every installed version, the active one and every valid
\* authorization still in it (plugin_store.cpp:604-792, 899-932).
CleanupRecovers ==
    LET before == Abandoned(disk)
        after == CleanedUp(before)
    IN /\ Sound(after)
       /\ before.left > 0 => after.left < before.left      \* one directory each
       /\ before.tombs > 0 => after.tombs < before.tombs
       /\ \A v \in Versions:
            /\ Installed(before, v) => /\ after.dirs[v] = before.dirs[v]
                                       /\ after.records[v] = before.records[v]
            /\ Loads(before, v) => after.auths[v] = before.auths[v]
       /\ ActiveOk(before) => after.active = before.active
=============================================================================
