-------------------------- MODULE PluginStoreProofs --------------------------
(***************************************************************************)
(* Theorems about the plugin store, for any processes, versions, packages  *)
(* and bounds.                                                             *)
(*                                                                         *)
(* What holds the store together is the mutation lock, and what a process  *)
(* knows while it holds it: the invariant says for each step of a command  *)
(* what the store is like then.  A step without the lock leaves all that   *)
(* alone (Quiet), and a step under the lock happens while nobody else      *)
(* relies on it.                                                           *)
(***************************************************************************)
EXTENDS PluginStore, FiniteSetTheorems, TLAPS

---------------------------------------------------------------------------
(* The fields of a store and of a job *)

Fields == {"dirs", "records", "active", "auths", "temps", "staging", "left", "tomb", "tombs", "profile", "harmed"}
IsDisk(d) ==
  d = [dirs |-> d.dirs, records |-> d.records, active |-> d.active, auths |-> d.auths, temps |-> d.temps,
       staging |-> d.staging, left |-> d.left, tomb |-> d.tomb, tombs |-> d.tombs, profile |-> d.profile,
       harmed |-> d.harmed]
IsJob(j) ==
  j = [op |-> j.op, v |-> j.v, pkg |-> j.pkg, consent |-> j.consent, grants |-> j.grants, item |-> j.item,
       dir |-> j.dir, profile |-> j.profile, last |-> j.last, gone |-> j.gone, undone |-> j.undone,
       ok |-> j.ok, removed |-> j.removed, raced |-> j.raced]

\* The store e differs from d in these fields only.
Only(d, e, fields) == IsDisk(e) /\ \A f \in Fields \ fields : e[f] = d[f]

\* ... and there it has these values.
Sets(d, e, f, x) == Only(d, e, {f}) /\ e[f] = x
Sets2(d, e, f, x, g, y) == Only(d, e, {f, g}) /\ e[f] = x /\ e[g] = y
Sets3(d, e, f, x, g, y, h, z) == Only(d, e, {f, g, h}) /\ e[f] = x /\ e[g] = y /\ e[h] = z

DiskTyped(d) ==
  /\ IsDisk(d)
  /\ d.dirs \in [Versions -> Dirs] /\ d.records \in [Versions -> Packages \cup {NoPackage}]
  /\ d.active \in Packages \cup {NoPackage} /\ d.auths \in [Versions -> Grants \cup {NoGrant}]
  /\ d.temps \subseteq Written /\ d.staging \in [Processes -> Dirs] /\ d.left \in Nat
  /\ d.tomb \in Dirs /\ d.tombs \in Nat /\ d.profile \in BOOLEAN /\ d.harmed \subseteq Versions

Jobs ==
  /\ job = [p \in Processes |-> job[p]]
  /\ \A p \in Processes : IsJob(job[p])
  /\ \A p \in Processes : pc[p] # "idle" => job[p].v \in Versions /\ job[p].grants \subseteq {"plain", "full_trust"}

---------------------------------------------------------------------------
(* The invariant: what holds always *)

\* Exactly the steps between taking and freeing the lock are those of its owner.
LockHeld == \A p \in Processes : pc[p] \in Locked <=> lock = p

Named == \A v \in Versions : disk.records[v] # NoPackage => VersionOf[disk.records[v]] = v

\* A directory beside a record can be queried, and is the whole package of the
\* record unless that is one of an earlier build.
BoundTo(dir, pkg) == HasManifest(dir) /\ (dir.marks = {} => dir = Dir(pkg, "whole"))
Bound ==
  \A v \in Versions \ disk.harmed :
    Here(disk.dirs[v]) /\ disk.records[v] # NoPackage => BoundTo(disk.dirs[v], disk.records[v])

ActiveBound ==
  disk.active # NoPackage /\ VersionOf[disk.active] \notin disk.harmed =>
    Here(disk.dirs[VersionOf[disk.active]]) /\ disk.records[VersionOf[disk.active]] = disk.active

ActiveIsNot(v) == disk.active # NoPackage => VersionOf[disk.active] # v

---------------------------------------------------------------------------
(* The invariant: what a process knows at each of its steps *)

OfItsVersion(p) == job[p].pkg \in Packages /\ VersionOf[job[p].pkg] = job[p].v

\* The staging directory has the package, whole once it is extracted unless a
\* cleanup took files of it.
Staged(p) ==
  pc[p] \in {"extract", "publish"} =>
    /\ OfItsVersion(p)
    /\ LET staged == disk.staging[p]
       IN Here(staged) => /\ staged.pkg = job[p].pkg /\ staged.marks \subseteq {"raided"}
                          /\ pc[p] = "publish" /\ "raided" \notin staged.marks => staged.files = "whole"

\* What was moved in is what was staged, of a version that is not active.
Moved(p) ==
  pc[p] = "record" =>
    /\ OfItsVersion(p)
    /\ job[p].v \notin disk.harmed =>
         LET dir == disk.dirs[job[p].v]
         IN /\ ActiveIsNot(job[p].v)
            /\ dir.pkg = job[p].pkg /\ dir.files = "whole" /\ dir.marks \subseteq {"overOrphan"}

Recorded(p) ==
  pc[p] = "active" =>
    /\ OfItsVersion(p)
    /\ job[p].v \notin disk.harmed => Here(disk.dirs[job[p].v]) /\ disk.records[job[p].v] = job[p].pkg

Activating(p) == pc[p] = "activate" => Installed(disk, job[p].v)

Granting(p) == pc[p] \in {"grantCheck", "grant"} => job[p].pkg \in Packages

\* What the cleanup removes is not installed and is there.
Removing(p) ==
  pc[p] = "remove" =>
    LET item == job[p].item
    IN /\ item.kind \in {"orphaned_version", "orphaned_record"} => item.at \in Versions /\ ~Installed(disk, item.at)
       /\ item.kind = "retained_staging" /\ item.at = Left => disk.left > 0
       /\ item.kind = "retained_uninstall" => disk.tombs > 0

Uninstalls == {"detach", "profile", "unrecord", "ungrant", "untomb", "restoreRecord", "restoreDir",
               "restoreProfile", "report"}

\* An uninstall knows the package and the directory that it found.
Found(p) ==
  pc[p] \in Uninstalls =>
    /\ OfItsVersion(p) /\ job[p].dir \in Dirs /\ HasManifest(job[p].dir)
    /\ job[p].v \notin disk.harmed => BoundTo(job[p].dir, job[p].pkg)
    /\ ActiveIsNot(job[p].v)

\* Where the directory is: in its place, or in the tombstone.
InPlace(p) == disk.dirs[job[p].v] = job[p].dir /\ disk.tomb = NoDir
InTomb(p) == disk.dirs[job[p].v] = NoDir /\ disk.tomb = job[p].dir
HasRecord(p) == disk.records[job[p].v] = job[p].pkg
NoRecord(p) == disk.records[job[p].v] = NoPackage
HasProfile(p) == job[p].gone \/ (job[p].profile => disk.profile)

Uninstall(p) ==
  /\ pc[p] = "uninstall" => ~job[p].gone /\ ~job[p].ok /\ ~job[p].removed
  /\ pc[p] = "detach" => InPlace(p) /\ HasRecord(p) /\ HasProfile(p) /\ ~job[p].gone /\ ~job[p].ok /\ ~job[p].removed
  /\ pc[p] \in {"profile", "unrecord"} => HasRecord(p)
  /\ pc[p] \in {"ungrant", "untomb", "restoreRecord"} => NoRecord(p)
  /\ pc[p] \in {"profile", "unrecord", "ungrant", "untomb", "restoreRecord", "restoreDir"} => InTomb(p)
  /\ pc[p] \in {"profile", "unrecord", "ungrant", "untomb", "restoreRecord", "restoreDir", "restoreProfile"} =>
       HasProfile(p) /\ ~job[p].ok /\ job[p].removed
  /\ pc[p] = "restoreDir" => HasRecord(p) \/ (NoRecord(p) /\ ~job[p].undone)
  /\ pc[p] = "restoreRecord" => job[p].undone
  /\ pc[p] = "restoreProfile" => (InPlace(p) /\ HasRecord(p)) \/ (~job[p].undone /\ (InPlace(p) \/ InTomb(p)))

\* What an uninstall reports.
Reported(p) ==
  pc[p] = "report" =>
    /\ job[p].ok => disk.dirs[job[p].v] = NoDir /\ disk.tomb = NoDir /\ NoRecord(p)
    /\ ~job[p].removed => InPlace(p) /\ HasRecord(p) /\ (job[p].profile => disk.profile)
    /\ job[p].removed /\ ~job[p].ok => InPlace(p) \/ InTomb(p)

\* Only an uninstall has a tombstone.
TombFree == (\A p \in Processes : pc[p] \notin Uninstalls) => disk.tomb = NoDir

Phase(p) ==
  /\ Staged(p) /\ Moved(p) /\ Recorded(p) /\ Activating(p) /\ Granting(p) /\ Removing(p)
  /\ Found(p) /\ Uninstall(p) /\ Reported(p)

StoreInv ==
  /\ TypeOK /\ Jobs
  /\ LockHeld /\ Named /\ Bound /\ ActiveBound /\ TombFree
  /\ \A p \in Processes : Phase(p)
---------------------------------------------------------------------------
(* Stores and jobs that change in a field *)

\* A store is one of Disks exactly when each of its fields is of its type.
LEMMA DiskTypes ==
  ASSUME NEW d
  PROVE  d \in Disks <=> DiskTyped(d)
<1>1. ASSUME d \in Disks PROVE DiskTyped(d)
  <2>1. IsDisk(d)
    BY <1>1 DEF Disks, IsDisk
  <2>2. /\ d.dirs \in [Versions -> Dirs] /\ d.records \in [Versions -> Packages \cup {NoPackage}]
        /\ d.active \in Packages \cup {NoPackage} /\ d.auths \in [Versions -> Grants \cup {NoGrant}]
        /\ d.temps \subseteq Written /\ d.staging \in [Processes -> Dirs] /\ d.left \in Nat
        /\ d.tomb \in Dirs /\ d.tombs \in Nat /\ d.harmed \subseteq Versions
    BY <1>1 DEF Disks
  <2>3. d.profile \in BOOLEAN
    BY <1>1, Zenon DEF Disks
  <2> QED BY <2>1, <2>2, <2>3 DEF DiskTyped
<1>2. ASSUME DiskTyped(d) PROVE d \in Disks
  BY <1>2, Zenon DEF DiskTyped, Disks, IsDisk
<1> QED BY <1>1, <1>2

\* Replacing one field of a store leaves the others.
LEMMA DiskPut ==
  ASSUME NEW d, IsDisk(d), NEW x
  PROVE  /\ Only(d, [d EXCEPT !.dirs = x], {"dirs"}) /\ [d EXCEPT !.dirs = x].dirs = x
         /\ Only(d, [d EXCEPT !.records = x], {"records"}) /\ [d EXCEPT !.records = x].records = x
         /\ Only(d, [d EXCEPT !.active = x], {"active"}) /\ [d EXCEPT !.active = x].active = x
         /\ Only(d, [d EXCEPT !.auths = x], {"auths"}) /\ [d EXCEPT !.auths = x].auths = x
         /\ Only(d, [d EXCEPT !.temps = x], {"temps"}) /\ [d EXCEPT !.temps = x].temps = x
         /\ Only(d, [d EXCEPT !.staging = x], {"staging"}) /\ [d EXCEPT !.staging = x].staging = x
         /\ Only(d, [d EXCEPT !.left = x], {"left"}) /\ [d EXCEPT !.left = x].left = x
         /\ Only(d, [d EXCEPT !.tomb = x], {"tomb"}) /\ [d EXCEPT !.tomb = x].tomb = x
         /\ Only(d, [d EXCEPT !.tombs = x], {"tombs"}) /\ [d EXCEPT !.tombs = x].tombs = x
         /\ Only(d, [d EXCEPT !.profile = x], {"profile"}) /\ [d EXCEPT !.profile = x].profile = x
         /\ Only(d, [d EXCEPT !.harmed = x], {"harmed"}) /\ [d EXCEPT !.harmed = x].harmed = x
BY SMTT(60) DEF IsDisk, Only, Fields

\* A store with one field replaced, for each field.
LEMMA PutField ==
  ASSUME NEW d, IsDisk(d), NEW x, NEW e
  PROVE  /\ e = [d EXCEPT !.dirs = x] => Sets(d, e, "dirs", x)
         /\ e = [d EXCEPT !.records = x] => Sets(d, e, "records", x)
         /\ e = [d EXCEPT !.active = x] => Sets(d, e, "active", x)
         /\ e = [d EXCEPT !.auths = x] => Sets(d, e, "auths", x)
         /\ e = [d EXCEPT !.temps = x] => Sets(d, e, "temps", x)
         /\ e = [d EXCEPT !.staging = x] => Sets(d, e, "staging", x)
         /\ e = [d EXCEPT !.left = x] => Sets(d, e, "left", x)
         /\ e = [d EXCEPT !.tomb = x] => Sets(d, e, "tomb", x)
         /\ e = [d EXCEPT !.tombs = x] => Sets(d, e, "tombs", x)
         /\ e = [d EXCEPT !.profile = x] => Sets(d, e, "profile", x)
<1>1. ASSUME e = [d EXCEPT !.dirs = x] PROVE Sets(d, e, "dirs", x)
  BY <1>1, DiskPut DEF Sets
<1>2. ASSUME e = [d EXCEPT !.records = x] PROVE Sets(d, e, "records", x)
  BY <1>2, DiskPut DEF Sets
<1>3. ASSUME e = [d EXCEPT !.active = x] PROVE Sets(d, e, "active", x)
  BY <1>3, DiskPut DEF Sets
<1>4. ASSUME e = [d EXCEPT !.auths = x] PROVE Sets(d, e, "auths", x)
  BY <1>4, DiskPut DEF Sets
<1>5. ASSUME e = [d EXCEPT !.temps = x] PROVE Sets(d, e, "temps", x)
  BY <1>5, DiskPut DEF Sets
<1>6. ASSUME e = [d EXCEPT !.staging = x] PROVE Sets(d, e, "staging", x)
  BY <1>6, DiskPut DEF Sets
<1>7. ASSUME e = [d EXCEPT !.left = x] PROVE Sets(d, e, "left", x)
  BY <1>7, DiskPut DEF Sets
<1>8. ASSUME e = [d EXCEPT !.tomb = x] PROVE Sets(d, e, "tomb", x)
  BY <1>8, DiskPut DEF Sets
<1>9. ASSUME e = [d EXCEPT !.tombs = x] PROVE Sets(d, e, "tombs", x)
  BY <1>9, DiskPut DEF Sets
<1>10. ASSUME e = [d EXCEPT !.profile = x] PROVE Sets(d, e, "profile", x)
  BY <1>10, DiskPut DEF Sets
<1> QED BY <1>1, <1>2, <1>3, <1>4, <1>5, <1>6, <1>7, <1>8, <1>9, <1>10

\* What changes in two or three fields.
LEMMA PutStagingLeft ==
  ASSUME NEW d, IsDisk(d), NEW x, NEW y, NEW e, e = [d EXCEPT !.staging = x, !.left = y]
  PROVE  Sets2(d, e, "staging", x, "left", y)
<1> DEFINE c == [d EXCEPT !.staging = x]
           g == [c EXCEPT !.left = y]
<1>1. Only(d, c, {"staging"}) /\ c.staging = x /\ IsDisk(c)
  <2>1. Only(d, c, {"staging"}) /\ c.staging = x
    BY DiskPut
  <2> QED BY <2>1 DEF Only
<1> HIDE DEF c
<1>2. Only(c, g, {"left"}) /\ g.left = y
  BY <1>1, DiskPut
<1>3. e = g
  BY DEF c
<1> HIDE DEF g
<1> QED BY <1>1, <1>2, <1>3 DEF Only, Fields, Sets2

\* A tombstone that becomes one of those left behind.
LEMMA PutTombTombs ==
  ASSUME NEW d, IsDisk(d), NEW x, NEW y, NEW e, e = [d EXCEPT !.tomb = x, !.tombs = y]
  PROVE  Sets2(d, e, "tomb", x, "tombs", y)
<1> DEFINE c == [d EXCEPT !.tomb = x]
           g == [c EXCEPT !.tombs = y]
<1>1. Only(d, c, {"tomb"}) /\ c.tomb = x /\ IsDisk(c)
  <2>1. Only(d, c, {"tomb"}) /\ c.tomb = x
    BY DiskPut
  <2> QED BY <2>1 DEF Only
<1> HIDE DEF c
<1>2. Only(c, g, {"tombs"}) /\ g.tombs = y
  BY <1>1, DiskPut
<1>3. e = g
  BY DEF c
<1> HIDE DEF g
<1> QED BY <1>1, <1>2, <1>3 DEF Only, Fields, Sets2

\* A directory that moves to the tombstone.
LEMMA PutTombDirs ==
  ASSUME NEW d, IsDisk(d), NEW x, NEW y, NEW e, e = [d EXCEPT !.tomb = x, !.dirs = y]
  PROVE  Sets2(d, e, "tomb", x, "dirs", y)
<1> DEFINE c == [d EXCEPT !.tomb = x]
           g == [c EXCEPT !.dirs = y]
<1>1. Only(d, c, {"tomb"}) /\ c.tomb = x /\ IsDisk(c)
  <2>1. Only(d, c, {"tomb"}) /\ c.tomb = x
    BY DiskPut
  <2> QED BY <2>1 DEF Only
<1> HIDE DEF c
<1>2. Only(c, g, {"dirs"}) /\ g.dirs = y
  BY <1>1, DiskPut
<1>3. e = g
  BY DEF c
<1> HIDE DEF g
<1> QED BY <1>1, <1>2, <1>3 DEF Only, Fields, Sets2

\* A directory that moves back from the tombstone.
LEMMA PutDirsTomb ==
  ASSUME NEW d, IsDisk(d), NEW x, NEW y, NEW e, e = [d EXCEPT !.dirs = x, !.tomb = y]
  PROVE  Sets2(d, e, "dirs", x, "tomb", y)
<1> DEFINE c == [d EXCEPT !.dirs = x]
           g == [c EXCEPT !.tomb = y]
<1>1. Only(d, c, {"dirs"}) /\ c.dirs = x /\ IsDisk(c)
  <2>1. Only(d, c, {"dirs"}) /\ c.dirs = x
    BY DiskPut
  <2> QED BY <2>1 DEF Only
<1> HIDE DEF c
<1>2. Only(c, g, {"tomb"}) /\ g.tomb = y
  BY <1>1, DiskPut
<1>3. e = g
  BY DEF c
<1> HIDE DEF g
<1> QED BY <1>1, <1>2, <1>3 DEF Only, Fields, Sets2

\* A record that is written beside a directory.
LEMMA PutRecordsDirs ==
  ASSUME NEW d, IsDisk(d), NEW x, NEW y, NEW e, e = [d EXCEPT !.records = x, !.dirs = y]
  PROVE  Sets2(d, e, "records", x, "dirs", y)
<1> DEFINE c == [d EXCEPT !.records = x]
           g == [c EXCEPT !.dirs = y]
<1>1. Only(d, c, {"records"}) /\ c.records = x /\ IsDisk(c)
  <2>1. Only(d, c, {"records"}) /\ c.records = x
    BY DiskPut
  <2> QED BY <2>1 DEF Only
<1> HIDE DEF c
<1>2. Only(c, g, {"dirs"}) /\ g.dirs = y
  BY <1>1, DiskPut
<1>3. e = g
  BY DEF c
<1> HIDE DEF g
<1> QED BY <1>1, <1>2, <1>3 DEF Only, Fields, Sets2

\* A staged directory that changes with the directories of versions.
LEMMA PutStagingDirs ==
  ASSUME NEW d, IsDisk(d), NEW x, NEW y, NEW e, e = [d EXCEPT !.staging = x, !.dirs = y]
  PROVE  Sets2(d, e, "staging", x, "dirs", y)
<1> DEFINE c == [d EXCEPT !.staging = x]
           g == [c EXCEPT !.dirs = y]
<1>1. Only(d, c, {"staging"}) /\ c.staging = x /\ IsDisk(c)
  <2>1. Only(d, c, {"staging"}) /\ c.staging = x
    BY DiskPut
  <2> QED BY <2>1 DEF Only
<1> HIDE DEF c
<1>2. Only(c, g, {"dirs"}) /\ g.dirs = y
  BY <1>1, DiskPut
<1>3. e = g
  BY DEF c
<1> HIDE DEF g
<1> QED BY <1>1, <1>2, <1>3 DEF Only, Fields, Sets2

\* A staged directory that moves in, and may turn out to have been harmed.
LEMMA PutPublished ==
  ASSUME NEW d, IsDisk(d), NEW x, NEW y, NEW z, NEW e, e = [d EXCEPT !.dirs = x, !.staging = y, !.harmed = z]
  PROVE  Sets3(d, e, "dirs", x, "staging", y, "harmed", z)
<1> DEFINE c == [d EXCEPT !.dirs = x]
           b == [c EXCEPT !.staging = y]
           g == [b EXCEPT !.harmed = z]
<1>1. Only(d, c, {"dirs"}) /\ c.dirs = x /\ IsDisk(c)
  <2>1. Only(d, c, {"dirs"}) /\ c.dirs = x
    BY DiskPut
  <2> QED BY <2>1 DEF Only
<1> HIDE DEF c
<1>2. Only(c, b, {"staging"}) /\ b.staging = y /\ IsDisk(b)
  <2>1. Only(c, b, {"staging"}) /\ b.staging = y
    BY <1>1, DiskPut
  <2> QED BY <2>1 DEF Only
<1> HIDE DEF b
<1>3. Only(b, g, {"harmed"}) /\ g.harmed = z
  BY <1>2, DiskPut
<1>4. e = g
  BY DEF c, b
<1> HIDE DEF g
<1> QED BY <1>1, <1>2, <1>3, <1>4 DEF Only, Fields, Sets3

\* The job k differs from j in this field only.
JobSets(j, k, f, x) ==
  /\ IsJob(k) /\ k[f] = x
  /\ \A g \in {"v", "pkg", "grants", "dir", "profile", "gone", "undone", "ok", "removed", "raced"} \ {f} : k[g] = j[g]

\* An uninstall notes one result and keeps what it knows.
LEMMA JobPut ==
  ASSUME NEW j, IsJob(j), NEW x, NEW k
  PROVE  /\ k = [j EXCEPT !.gone = x] => JobSets(j, k, "gone", x)
         /\ k = [j EXCEPT !.undone = x] => JobSets(j, k, "undone", x)
         /\ k = [j EXCEPT !.ok = x] => JobSets(j, k, "ok", x)
         /\ k = [j EXCEPT !.removed = x] => JobSets(j, k, "removed", x)
         /\ k = [j EXCEPT !.raced = x] => JobSets(j, k, "raced", x)
<1>1. ASSUME k = [j EXCEPT !.gone = x] PROVE JobSets(j, k, "gone", x)
  BY <1>1, SMTT(30) DEF IsJob, JobSets
<1>2. ASSUME k = [j EXCEPT !.undone = x] PROVE JobSets(j, k, "undone", x)
  BY <1>2, SMTT(30) DEF IsJob, JobSets
<1>3. ASSUME k = [j EXCEPT !.ok = x] PROVE JobSets(j, k, "ok", x)
  BY <1>3, SMTT(30) DEF IsJob, JobSets
<1>4. ASSUME k = [j EXCEPT !.removed = x] PROVE JobSets(j, k, "removed", x)
  BY <1>4, SMTT(30) DEF IsJob, JobSets
<1>5. ASSUME k = [j EXCEPT !.raced = x] PROVE JobSets(j, k, "raced", x)
  BY <1>5, SMTT(30) DEF IsJob, JobSets
<1> QED BY <1>1, <1>2, <1>3, <1>4, <1>5

\* A cleanup notes its item and keeps its version and authorizations.
LEMMA JobPutItem ==
  ASSUME NEW j, IsJob(j), NEW x
  PROVE  IsJob([j EXCEPT !.item = x]) /\ [j EXCEPT !.item = x].v = j.v /\ [j EXCEPT !.item = x].grants = j.grants
BY SMTT(30) DEF IsJob

\* An installation notes an authorization and keeps its version and package.
LEMMA JobPutGrants ==
  ASSUME NEW j, IsJob(j), NEW x
  PROVE  /\ LET k == [j EXCEPT !.consent = x] IN IsJob(k) /\ k.v = j.v /\ k.pkg = j.pkg
         /\ LET k == [j EXCEPT !.grants = x] IN IsJob(k) /\ k.v = j.v /\ k.pkg = j.pkg /\ k.grants = x
BY SMTT(30) DEF IsJob

\* A command starts with no result.
LEMMA NewJob ==
  ASSUME NEW op, NEW v, NEW pkg
  PROVE  /\ IsJob(Job(op, v, pkg)) /\ Job(op, v, pkg).v = v /\ Job(op, v, pkg).pkg = pkg
         /\ Job(op, v, pkg).grants = {}
         /\ ~Job(op, v, pkg).gone /\ ~Job(op, v, pkg).ok /\ ~Job(op, v, pkg).removed
BY DEF Job, IsJob
---------------------------------------------------------------------------
(* What a step of one process leaves to the others *)

\* Nothing that a process under the lock relies on changes to its disadvantage.
Quiet ==
  /\ disk'.dirs = disk.dirs /\ disk'.records = disk.records /\ disk'.active = disk.active
  /\ disk'.tomb = disk.tomb /\ disk'.harmed = disk.harmed
  /\ disk'.left >= disk.left /\ disk'.tombs >= disk.tombs
  /\ disk.profile => disk'.profile

\* The staging directory of p is as it was, gone or raided.
StagingKept(p) ==
  LET before == disk.staging[p]
      after == disk'.staging[p]
  IN Here(after) => after = before \/ (Here(before) /\ after.pkg = before.pkg /\ after.marks = before.marks \cup {"raided"})

\* A process that keeps its step, job and staging directory knows what it knew, if the step of another
\* leaves the store under the lock alone or the process does not hold the lock.
LEMMA OthersKeep ==
  ASSUME DiskTyped(disk), DiskTyped(disk'), NEW p \in Processes, Phase(p), pc'[p] = pc[p], job'[p] = job[p], StagingKept(p),
         Quiet \/ pc[p] \notin Locked
  PROVE  Phase(p)'
<1>1. Staged(p)'
  BY DEF Phase, Staged, StagingKept, OfItsVersion
<1>2. Granting(p)'
  BY DEF Phase, Granting
<1>3. CASE pc[p] \notin Locked
  BY <1>1, <1>2, <1>3 DEF Phase, Locked, Moved, Recorded, Activating, Removing, Found, Uninstall, Reported, Uninstalls
<1>4. CASE Quiet
  <2>1. Moved(p)' /\ Recorded(p)' /\ Activating(p)'
    BY <1>4 DEF Phase, Quiet, Moved, Recorded, Activating, OfItsVersion, ActiveIsNot, Installed
  <2>2. Removing(p)'
    <3>1. /\ disk.left \in Nat /\ disk.tombs \in Nat /\ disk'.left >= disk.left /\ disk'.tombs >= disk.tombs
          /\ disk'.left \in Nat /\ disk'.tombs \in Nat
          /\ disk'.dirs = disk.dirs /\ disk'.records = disk.records
      BY <1>4 DEF DiskTyped, Quiet
    <3>2. (disk.left > 0 => disk'.left > 0) /\ (disk.tombs > 0 => disk'.tombs > 0)
      BY <3>1
    <3> QED BY <3>1, <3>2 DEF Phase, Removing, Installed
  <2>3. Found(p)'
    BY <1>4 DEF Phase, Quiet, Found, OfItsVersion, ActiveIsNot
  <2>4. Uninstall(p)'
    BY <1>4 DEF Phase, Quiet, Uninstall, InPlace, InTomb, HasRecord, NoRecord, HasProfile
  <2>5. Reported(p)'
    BY <1>4 DEF Phase, Quiet, Reported, InPlace, InTomb, HasRecord, NoRecord
  <2> QED BY <1>1, <1>2, <2>1, <2>2, <2>3, <2>4, <2>5 DEF Phase
<1> QED BY <1>3, <1>4

\* A step that leaves directories, records and the active record alone keeps what holds always.
LEMMA QuietKeeps ==
  ASSUME Named, Bound, ActiveBound, Quiet
  PROVE  Named' /\ Bound' /\ ActiveBound'
BY DEF Named, Bound, ActiveBound, Quiet

\* An idle process, and one at these steps, knows nothing.
LEMMA NothingKnown ==
  ASSUME NEW p, pc'[p] \in {"idle", "discard", "activateCheck", "deactivate", "cleanup"}
  PROVE  Phase(p)'
BY DEF Phase, Staged, Moved, Recorded, Activating, Granting, Removing, Found, Uninstall, Reported, Uninstalls

\* What a step of q must show.
Takes(q, s, j) ==
  /\ pc' = [pc EXCEPT ![q] = s] /\ job' = [job EXCEPT ![q] = j]
  /\ s \in Locked \cup Unlocked
  /\ IsJob(j) /\ (s # "idle" => j.v \in Versions /\ j.grants \subseteq {"plain", "full_trust"})
  /\ lock' = (IF s \in Locked THEN q ELSE IF lock = q THEN Nobody ELSE lock)
  /\ s \in Locked => lock \in {q, Nobody}
  /\ ops' \in 0..MaxOps /\ faults' \in 0..MaxFaults /\ starting' = starting

\* A step keeps the invariant if it keeps what holds always, establishes what its process knows next, and
\* is quiet or happens while nobody else has the lock.
LEMMA StepKeeps ==
  ASSUME StoreInv, NEW q \in Processes, NEW s, NEW j, Takes(q, s, j), DiskTyped(disk'),
         \A p \in Processes \ {q} : StagingKept(p),
         Quiet \/ lock \in {q, Nobody},
         Named' /\ Bound' /\ ActiveBound' /\ TombFree', Phase(q)'
  PROVE  StoreInv'
<1> USE StoreAssumption
<1>0. pc \in [Processes -> Locked \cup Unlocked] /\ job = [p \in Processes |-> job[p]] /\ lock \in Processes \cup {Nobody}
  BY DEF StoreInv, TypeOK, Jobs
<1>1. \A p \in Processes \ {q} : pc'[p] = pc[p] /\ job'[p] = job[p]
  BY <1>0 DEF Takes
<1>2. pc'[q] = s /\ job'[q] = j
  BY <1>0 DEF Takes
<1>3. Jobs'
  <2>1. job' = [p \in Processes |-> job'[p]]
    BY <1>0 DEF Takes
  <2> QED BY <1>1, <1>2, <2>1 DEF Jobs, StoreInv, Takes
<1>4. LockHeld'
  <2>1. (s \in Locked <=> lock' = q) /\ \A p \in Processes \ {q} : lock' = p <=> lock = p
    BY <1>0 DEF Takes
  <2> QED BY <1>1, <1>2, <2>1 DEF LockHeld, StoreInv
<1>5. TypeOK'
  <2>1. disk' \in Disks
    BY DiskTypes
  <2>2. lock' \in Processes \cup {Nobody}
    BY <1>0 DEF Takes
  <2>3. pc' \in [Processes -> Locked \cup Unlocked] /\ ops' \in 0..MaxOps /\ faults' \in 0..MaxFaults
    BY <1>0 DEF Takes
  <2>4. starting' \in BOOLEAN
    BY Zenon DEF Takes, StoreInv, TypeOK
  <2> QED BY <2>1, <2>2, <2>3, <2>4 DEF TypeOK
<1>6. ASSUME NEW p \in Processes \ {q} PROVE Phase(p)'
  <2>1. lock \in {q, Nobody} => pc[p] \notin Locked
    BY DEF LockHeld, StoreInv
  <2>2. DiskTyped(disk)
    BY DiskTypes DEF StoreInv, TypeOK
  <2>3. Phase(p) /\ StagingKept(p) /\ p \in Processes
    BY DEF StoreInv
  <2> QED BY <1>1, <2>1, <2>2, <2>3, OthersKeep
<1> QED BY <1>3, <1>4, <1>5, <1>6 DEF StoreInv
\* Steps that leave the store as it is.
LEMMA StillStep ==
  ASSUME StoreInv, NEW q \in Processes, NEW s, NEW j, Takes(q, s, j), UNCHANGED disk,
         pc[q] \in Uninstalls => s \in Uninstalls, Phase(q)'
  PROVE  StoreInv'
<1>1. DiskTyped(disk) /\ DiskTyped(disk')
  BY DiskTypes DEF StoreInv, TypeOK
<1>2. Quiet /\ \A p \in Processes : StagingKept(p)
  BY <1>1 DEF DiskTyped, Quiet, StagingKept
<1>3. Named' /\ Bound' /\ ActiveBound'
  BY <1>2, QuietKeeps DEF StoreInv
<1>4. TombFree'
  <2>1. pc' = [pc EXCEPT ![q] = s] /\ pc \in [Processes -> Locked \cup Unlocked]
    BY DEF Takes, StoreInv, TypeOK
  <2> QED BY <2>1 DEF TombFree, StoreInv
<1> QED BY <1>1, <1>2, <1>3, <1>4, StepKeeps

---------------------------------------------------------------------------
(* The shapes of a step *)

Counted ==
  /\ UNCHANGED ops \/ (ops < MaxOps /\ ops' = ops + 1)
  /\ UNCHANGED faults \/ Fault \/ (faults + 1 < MaxFaults /\ faults' = faults + 2)

\* A counted step keeps the bounds of the counters.
LEMMA CountsKept ==
  ASSUME TypeOK, Counted
  PROVE  ops' \in 0..MaxOps /\ faults' \in 0..MaxFaults
<1>1. ops \in 0..MaxOps /\ faults \in 0..MaxFaults /\ MaxOps \in Nat /\ MaxFaults \in Nat
  BY StoreAssumption DEF TypeOK
<1> QED BY <1>1 DEF Counted, Fault

\* The lock goes with the step.
LockGoes(q, s) ==
  /\ lock' = (IF s \in Locked THEN q ELSE IF lock = q THEN Nobody ELSE lock)
  /\ s \in Locked => lock \in {q, Nobody}

\* Starting a command is a step to a place without the lock.
LEMMA StartTakes ==
  ASSUME StoreInv, NEW q \in Processes, NEW s \in Unlocked, NEW w, Start(q, s, w), starting' = starting,
         IsJob(w), w.v \in Versions, w.grants \subseteq {"plain", "full_trust"}
  PROVE  Takes(q, s, w)
<1>1. Counted
  BY DEF Start, NoFault, Counted
<1>2. lock # q /\ lock' = lock
  BY DEF Start, StoreInv, LockHeld, Locked
<1>3. s \notin Locked
  BY DEF Locked, Unlocked
<1> QED BY <1>1, <1>2, <1>3, CountsKept DEF Takes, Start, Goto, StoreInv

\* A step that keeps the job.
LEMMA SameTakes ==
  ASSUME StoreInv, NEW q \in Processes, NEW s \in Locked \cup Unlocked, Goto(q, s), SameJob, NoFault \/ Fault,
         starting' = starting, LockGoes(q, s), pc[q] # "idle"
  PROVE  Takes(q, s, job[q])
<1>1. Counted
  BY DEF SameJob, NoFault, Counted
<1>2. job' = [job EXCEPT ![q] = job[q]] /\ IsJob(job[q])
      /\ job[q].v \in Versions /\ job[q].grants \subseteq {"plain", "full_trust"}
  BY DEF SameJob, StoreInv, Jobs
<1> QED BY <1>1, <1>2, CountsKept DEF Takes, Goto, LockGoes, StoreInv

\* The end of a command forgets the job.
LEMMA EndTakes ==
  ASSUME StoreInv, NEW q \in Processes, Ends(q), NoFault \/ Fault \/ (faults + 1 < MaxFaults /\ faults' = faults + 2),
         starting' = starting, LockGoes(q, "idle")
  PROVE  Takes(q, "idle", NoJob)
<1>1. Counted
  BY DEF Ends, NoFault, Counted
<1>2. IsJob(NoJob)
  BY NewJob DEF NoJob
<1>3. "idle" \in Unlocked
  BY DEF Unlocked
<1> QED BY <1>1, <1>2, <1>3, CountsKept DEF Takes, Ends, Goto, LockGoes, StoreInv

\* A step of an uninstall that notes a result.
LEMMA WorkTakes ==
  ASSUME StoreInv, NEW q \in Processes, NEW s \in Locked, NEW w, Uninstalling(q, s, w), NoFault \/ Fault,
         starting' = starting, pc[q] \in Locked, IsJob(w), w.v = job[q].v, w.grants = job[q].grants
  PROVE  Takes(q, s, w)
<1>1. Counted
  BY DEF Uninstalling, NoFault, Counted
<1>2. lock = q
  BY DEF StoreInv, LockHeld
<1>3. job[q].v \in Versions /\ job[q].grants \subseteq {"plain", "full_trust"}
  BY DEF StoreInv, Jobs, Locked
<1> QED BY <1>1, <1>2, <1>3, CountsKept DEF Takes, Uninstalling, Goto, KeepLock, StoreInv

---------------------------------------------------------------------------
(* Steps without the lock *)

Unhurried(q) ==
  \/ \E v \in Versions : StartActivate(q, v) \/ StartDeactivate(q, v) \/ StartUninstall(q, v)
  \/ \E item \in Scan(disk) : StartCleanup(q, item)
  \/ LockTimeout(q)

\* Starting a command keeps the invariant: it takes no lock and changes no file.
LEMMA StartKeeps ==
  ASSUME StoreInv, NEW q \in Processes, Unhurried(q), starting' = starting
  PROVE  StoreInv'
<1>0. pc \in [Processes -> Locked \cup Unlocked] /\ job = [p \in Processes |-> job[p]]
  BY DEF StoreInv, TypeOK, Jobs
<1>1. ASSUME NEW s, NEW j, Takes(q, s, j) PROVE pc'[q] = s /\ job'[q] = j
  BY <1>0, <1>1 DEF Takes
<1>2. ASSUME NEW v \in Versions, StartActivate(q, v) \/ StartDeactivate(q, v) PROVE StoreInv'
  <2>1. PICK s, w : /\ s \in {"activateCheck", "deactivate"}
                    /\ Start(q, s, w) /\ UNCHANGED disk /\ IsJob(w) /\ w.v = v /\ w.grants = {}
    BY <1>2, NewJob DEF StartActivate, StartDeactivate
  <2>2. s \in Unlocked /\ s \notin Uninstalls /\ pc[q] = "idle" /\ pc[q] \notin Uninstalls
    BY <2>1 DEF Unlocked, Uninstalls, Start
  <2>3. Takes(q, s, w)
    BY <2>1, <2>2, StartTakes
  <2>4. Phase(q)'
    BY <1>1, <2>1, <2>3, NothingKnown
  <2> QED BY <2>1, <2>2, <2>3, <2>4, StillStep
<1>3. ASSUME NEW v \in Versions, StartUninstall(q, v) PROVE StoreInv'
  <2> DEFINE w == Job("uninstall", v, NoPackage)
  <2>1. Start(q, "uninstall", w) /\ UNCHANGED disk
    BY <1>3 DEF StartUninstall
  <2>2. IsJob(w) /\ w.v = v /\ w.grants = {} /\ ~w.gone /\ ~w.ok /\ ~w.removed
    BY NewJob
  <2> HIDE DEF w
  <2>3. "uninstall" \in Unlocked /\ pc[q] \notin Uninstalls
    BY <2>1 DEF Unlocked, Uninstalls, Start
  <2>4. Takes(q, "uninstall", w)
    BY <2>1, <2>2, <2>3, StartTakes
  <2>5. Phase(q)'
    BY <1>1, <2>2, <2>4 DEF Phase, Staged, Moved, Recorded, Activating, Granting, Removing, Found, Uninstall,
       Reported,
         Uninstalls
  <2> QED BY <2>1, <2>3, <2>4, <2>5, StillStep
<1>4. ASSUME NEW item \in Scan(disk), StartCleanup(q, item) PROVE StoreInv'
  <2> DEFINE base == Job("cleanup", NoJob.v, NoPackage)
             w == [base EXCEPT !.item = item]
  <2>1. Start(q, "cleanup", w) /\ UNCHANGED disk
    BY <1>4 DEF StartCleanup
  <2>2. IsJob(base) /\ base.v = NoJob.v /\ base.grants = {}
    BY NewJob
  <2> HIDE DEF base
  <2>3. IsJob(w) /\ w.v = NoJob.v /\ w.grants = {}
    BY <2>2, JobPutItem
  <2>4. NoJob.v \in Versions
    <3>1. NoJob.v = CHOOSE v \in Versions : TRUE
      BY NewJob DEF NoJob
    <3> QED BY <3>1, PackagesAssumption
  <2> HIDE DEF w
  <2>5. "cleanup" \in Unlocked /\ pc[q] \notin Uninstalls
    BY <2>1 DEF Unlocked, Uninstalls, Start
  <2>6. Takes(q, "cleanup", w)
    BY <2>1, <2>3, <2>4, <2>5, StartTakes
  <2>7. Phase(q)'
    BY <1>1, <2>6, NothingKnown
  <2> QED BY <2>1, <2>5, <2>6, <2>7, StillStep
<1>5. CASE LockTimeout(q)
  <2>1. pc[q] \notin Locked /\ pc[q] \notin Uninstalls /\ pc[q] # "idle" /\ UNCHANGED disk /\ lock # q /\ lock' = lock
    BY <1>5 DEF LockTimeout, Locked, Uninstalls, KeepLock
  <2>2. CASE pc[q] = "publish"
    <3>1. "discard" \in Unlocked /\ "discard" \notin Locked
      BY DEF Unlocked, Locked
    <3>2. Takes(q, "discard", job[q])
      BY <1>5, <2>1, <2>2, <3>1, SameTakes DEF LockTimeout, LockGoes
    <3>3. Phase(q)'
      BY <1>1, <3>2, NothingKnown
    <3> QED BY <2>1, <3>2, <3>3, StillStep
  <2>3. CASE pc[q] # "publish"
    <3>1. Takes(q, "idle", NoJob)
      BY <1>5, <2>1, <2>3, EndTakes DEF LockTimeout, LockGoes, Locked
    <3>2. Phase(q)'
      BY <1>1, <3>1, NothingKnown
    <3> QED BY <2>1, <3>1, <3>2, StillStep
  <2> QED BY <2>2, <2>3
<1> QED BY <1>2, <1>3, <1>4, <1>5 DEF Unhurried
---------------------------------------------------------------------------
(* Directories *)

\* What a directory is, what is in one, and that none is nothing.
LEMMA DirTypes ==
  /\ NoDir \in Dirs /\ ~Here(NoDir) /\ ~HasManifest(NoDir)
  /\ \A pkg \in Packages, files \in {"whole", "part", "bare"} :
       Dir(pkg, files) \in Dirs /\ Here(Dir(pkg, files)) /\ Dir(pkg, files).pkg = pkg
       /\ Dir(pkg, files).files = files /\ Dir(pkg, files).marks = {}
  /\ \A dir \in Dirs : /\ Here(dir) => dir.pkg \in Packages /\ dir.marks \subseteq Marks
                                         /\ dir = [pkg |-> dir.pkg, files |-> dir.files, marks |-> dir.marks]
                       /\ ~Here(dir) => dir = NoDir
                       /\ HasManifest(dir) => Here(dir)
BY DEF Dirs, NoDir, Here, HasManifest, Dir, Marks

IsDir(dir) == dir = [pkg |-> dir.pkg, files |-> dir.files, marks |-> dir.marks]

\* A directory whose files or marks are replaced is of the same package.
LEMMA DirPut ==
  ASSUME NEW dir, IsDir(dir), NEW x, NEW y
  PROVE  /\ [dir EXCEPT !.files = x] = [pkg |-> dir.pkg, files |-> x, marks |-> dir.marks]
         /\ [dir EXCEPT !.marks = x] = [pkg |-> dir.pkg, files |-> dir.files, marks |-> x]
         /\ [dir EXCEPT !.files = x, !.marks = y] = [pkg |-> dir.pkg, files |-> x, marks |-> y]
<1>1. ASSUME NEW d, IsDir(d), NEW z
      PROVE  /\ [d EXCEPT !.files = z] = [pkg |-> d.pkg, files |-> z, marks |-> d.marks]
             /\ [d EXCEPT !.marks = z] = [pkg |-> d.pkg, files |-> d.files, marks |-> z]
  BY <1>1, SMTT(30) DEF IsDir
<1>2. [dir EXCEPT !.files = x, !.marks = y] = [pkg |-> dir.pkg, files |-> x, marks |-> y]
  <2> DEFINE c == [dir EXCEPT !.files = x]
             e == [c EXCEPT !.marks = y]
  <2>1. c = [pkg |-> dir.pkg, files |-> x, marks |-> dir.marks]
    BY <1>1
  <2> HIDE DEF c
  <2>2. IsDir(c) /\ c.pkg = dir.pkg /\ c.files = x
    BY <2>1 DEF IsDir
  <2>3. e = [pkg |-> dir.pkg, files |-> x, marks |-> y]
    BY <1>1, <2>2
  <2> QED BY <2>3 DEF c
<1> QED BY <1>1, <1>2

\* A directory of a package with other files or other marks is one.
LEMMA DirMade ==
  ASSUME NEW pkg \in Packages, NEW files \in {"whole", "part", "bare"}, NEW marks \in SUBSET Marks
  PROVE  LET e == [pkg |-> pkg, files |-> files, marks |-> marks]
         IN e \in Dirs /\ e.pkg = pkg /\ e.files = files /\ e.marks = marks /\ Here(e) /\ (HasManifest(e) <=> files # "bare")
BY DEF Dirs, Here, HasManifest

\* What is left of a directory is one of its package.
LEMMA RemainsAre ==
  ASSUME NEW dir \in Dirs, NEW marks \in SUBSET Marks, NEW r \in Remains(dir, marks)
  PROVE  Here(dir) /\ Here(r) /\ r \in Dirs /\ r.pkg = dir.pkg /\ r.marks = dir.marks \cup marks /\ r.files # "whole"
<1>1. PICK files \in {f \in {"part", "bare"} : Here(dir) /\ (dir.files = "bare" => f = "bare")} :
        r = [dir EXCEPT !.files = files, !.marks = dir.marks \cup marks]
  BY DEF Remains
<1>2. Here(dir) /\ files \in {"whole", "part", "bare"} /\ files # "whole" /\ IsDir(dir) /\ dir.pkg \in Packages
      /\ dir.marks \cup marks \in SUBSET Marks
  BY <1>1, DirTypes DEF IsDir
<1>3. r = [pkg |-> dir.pkg, files |-> files, marks |-> dir.marks \cup marks]
  BY <1>1, <1>2, DirPut
<1> QED BY <1>2, <1>3, DirMade

\* A store keeps its types if the fields that change get values of theirs.
LEMMA TypedPut ==
  ASSUME NEW d, DiskTyped(d), NEW e, NEW fields, Only(d, e, fields),
         "dirs" \in fields => e.dirs \in [Versions -> Dirs],
         "records" \in fields => e.records \in [Versions -> Packages \cup {NoPackage}],
         "active" \in fields => e.active \in Packages \cup {NoPackage},
         "auths" \in fields => e.auths \in [Versions -> Grants \cup {NoGrant}],
         "temps" \in fields => e.temps \subseteq Written,
         "staging" \in fields => e.staging \in [Processes -> Dirs],
         "left" \in fields => e.left \in Nat,
         "tomb" \in fields => e.tomb \in Dirs,
         "tombs" \in fields => e.tombs \in Nat,
         "profile" \in fields => e.profile \in BOOLEAN,
         "harmed" \in fields => e.harmed \subseteq Versions
  PROVE  DiskTyped(e)
BY DEF DiskTyped, Only, Fields

\* Steps that change nothing that a process under the lock relies on.
LEMMA QuietStep ==
  ASSUME StoreInv, NEW q \in Processes, NEW s, NEW j, Takes(q, s, j), DiskTyped(disk'), Quiet,
         \A p \in Processes \ {q} : StagingKept(p),
         pc[q] \in Uninstalls => s \in Uninstalls, Phase(q)'
  PROVE  StoreInv'
<1>1. Named' /\ Bound' /\ ActiveBound'
  BY QuietKeeps DEF StoreInv
<1>2. TombFree'
  <2>1. pc' = [pc EXCEPT ![q] = s] /\ pc \in [Processes -> Locked \cup Unlocked] /\ disk'.tomb = disk.tomb
    BY DEF Takes, StoreInv, TypeOK, Quiet
  <2> QED BY <2>1 DEF TombFree, StoreInv
<1> QED BY <1>1, <1>2, StepKeeps

\* ... of which those are that write the staging directory of q alone.
LEMMA StagingOnly ==
  ASSUME DiskTyped(disk), NEW q \in Processes, NEW dir \in Dirs, disk' = [disk EXCEPT !.staging[q] = dir]
  PROVE  /\ DiskTyped(disk') /\ Quiet /\ disk'.staging[q] = dir
         /\ \A p \in Processes \ {q} : StagingKept(p)
<1> DEFINE st == [disk.staging EXCEPT ![q] = dir]
<1>0. IsDisk(disk) /\ disk' = [disk EXCEPT !.staging = st]
  BY DEF DiskTyped
<1> HIDE DEF st
<1>1. Only(disk, disk', {"staging"}) /\ disk'.staging = st
  <2>1. Only(disk, [disk EXCEPT !.staging = st], {"staging"}) /\ [disk EXCEPT !.staging = st].staging = st
    BY <1>0, DiskPut
  <2> QED BY <1>0, <2>1, Zenon
<1>2. st \in [Processes -> Dirs] /\ st[q] = dir /\ \A p \in Processes \ {q} : st[p] = disk.staging[p]
  BY DEF DiskTyped, st
<1>3. DiskTyped(disk')
  BY <1>1, <1>2, TypedPut
<1>4. Quiet
  BY <1>1 DEF Quiet, Only, Fields, DiskTyped
<1> QED BY <1>1, <1>2, <1>3, <1>4 DEF StagingKept

\* At each step a process knows what is said of that step.
LEMMA PhaseAt ==
  ASSUME NEW p
  PROVE  /\ pc'[p] \in {"extract", "publish"} /\ Staged(p)' => Phase(p)'
         /\ pc'[p] = "record" /\ Moved(p)' => Phase(p)'
         /\ pc'[p] = "active" /\ Recorded(p)' => Phase(p)'
         /\ pc'[p] = "activate" /\ Activating(p)' => Phase(p)'
         /\ pc'[p] \in {"grantCheck", "grant"} /\ Granting(p)' => Phase(p)'
         /\ pc'[p] = "remove" /\ Removing(p)' => Phase(p)'
         /\ pc'[p] = "report" /\ Found(p)' /\ Reported(p)' => Phase(p)'
         /\ pc'[p] \in Uninstalls \ {"report"} /\ Found(p)' /\ Uninstall(p)' => Phase(p)'
<1> USE DEF Phase
<1>1. pc'[p] \in {"extract", "publish"} /\ Staged(p)' => Phase(p)'
  BY DEF Moved, Recorded, Activating, Granting, Removing, Found, Uninstall, Reported, Uninstalls
<1>2. pc'[p] \in {"record", "active", "activate", "grantCheck", "grant", "remove"} =>
        Staged(p)' /\ Found(p)' /\ Uninstall(p)' /\ Reported(p)'
  BY DEF Staged, Found, Uninstall, Reported, Uninstalls
<1>3. pc'[p] \in Uninstalls =>
        Staged(p)' /\ Moved(p)' /\ Recorded(p)' /\ Activating(p)' /\ Granting(p)' /\ Removing(p)'
  BY DEF Staged, Moved, Recorded, Activating, Granting, Removing, Uninstalls
<1>4. /\ pc'[p] = "record" /\ Moved(p)' => Phase(p)'
      /\ pc'[p] = "active" /\ Recorded(p)' => Phase(p)'
      /\ pc'[p] = "activate" /\ Activating(p)' => Phase(p)'
  BY <1>2 DEF Moved, Recorded, Activating, Granting, Removing
<1>5. /\ pc'[p] \in {"grantCheck", "grant"} /\ Granting(p)' => Phase(p)'
      /\ pc'[p] = "remove" /\ Removing(p)' => Phase(p)'
  BY <1>2 DEF Moved, Recorded, Activating, Granting, Removing
<1>6. pc'[p] = "report" /\ Found(p)' /\ Reported(p)' => Phase(p)'
  BY <1>3 DEF Uninstall, Uninstalls
<1>7. pc'[p] \in Uninstalls \ {"report"} /\ Found(p)' /\ Uninstall(p)' => Phase(p)'
  BY <1>3 DEF Reported
<1> QED BY <1>1, <1>4, <1>5, <1>6, <1>7

\* After its step a process is where it went, and the others where they were.
LEMMA NowAt ==
  ASSUME StoreInv, NEW q \in Processes, NEW s, NEW j, Takes(q, s, j)
  PROVE  pc'[q] = s /\ job'[q] = j /\ \A p \in Processes \ {q} : pc'[p] = pc[p] /\ job'[p] = job[p]
<1>1. pc \in [Processes -> Locked \cup Unlocked] /\ job = [p \in Processes |-> job[p]]
  BY DEF StoreInv, TypeOK, Jobs
<1> QED BY <1>1 DEF Takes

\* The invariant gives the types of the store.
LEMMA TheDisk ==
  ASSUME StoreInv
  PROVE  DiskTyped(disk) /\ IsDisk(disk)
BY DiskTypes DEF StoreInv, TypeOK, DiskTyped

\* Extracting and discarding change only the own staging directory.
LEMMA ExtractKeeps ==
  ASSUME StoreInv, NEW q \in Processes, Extracted(q) \/ Discard(q), starting' = starting
  PROVE  StoreInv'
<1>0. DiskTyped(disk)
  BY TheDisk
<1>1. CASE Extracted(q)
  <2> DEFINE staged == disk.staging[q]
  <2>1. pc[q] = "extract" /\ lock # q /\ lock' = lock /\ SameJob /\ pc[q] \notin Uninstalls
    BY <1>1 DEF Extracted, KeepLock, StoreInv, LockHeld, Locked, Uninstalls
  <2>2. /\ OfItsVersion(q)
        /\ Here(staged) => staged.pkg = job[q].pkg /\ staged.marks \subseteq {"raided"}
    BY <2>1 DEF StoreInv, Phase, Staged
  <2>3. ASSUME Here(staged), NEW files \in (IF "raided" \in staged.marks THEN {"part"} ELSE {"whole"}),
               disk' = [disk EXCEPT !.staging[q].files = files], Goto(q, "publish"), NoFault
        PROVE  StoreInv'
    <3> DEFINE dir == [staged EXCEPT !.files = files]
    <3>1. staged \in Dirs /\ IsDir(staged) /\ staged.pkg \in Packages /\ staged.marks \in SUBSET Marks
      BY <1>0, <2>3, DirTypes DEF DiskTyped, IsDir
    <3>2. dir = [pkg |-> staged.pkg, files |-> files, marks |-> staged.marks]
      BY <3>1, DirPut
    <3>3. files \in {"whole", "part", "bare"} /\ ("raided" \notin staged.marks => files = "whole")
      BY <2>3
    <3>4. dir \in Dirs /\ dir.pkg = staged.pkg /\ dir.files = files /\ dir.marks = staged.marks
      BY <3>1, <3>2, <3>3, DirMade
    <3>5. disk' = [disk EXCEPT !.staging[q] = dir]
      BY <2>3
    <3> HIDE DEF dir
    <3>6. DiskTyped(disk') /\ Quiet /\ disk'.staging[q] = dir /\ \A p \in Processes \ {q} : StagingKept(p)
      BY <1>0, <3>4, <3>5, StagingOnly
    <3>7. Takes(q, "publish", job[q])
      <4>1. "publish" \in Unlocked /\ "publish" \notin Locked
        BY DEF Unlocked, Locked
      <4> QED BY <2>1, <2>3, <4>1, SameTakes DEF LockGoes
    <3>8. pc'[q] = "publish" /\ job'[q] = job[q]
      BY <3>7, NowAt
    <3>9. Staged(q)'
      BY <2>2, <2>3, <3>3, <3>4, <3>6, <3>8 DEF Staged, OfItsVersion
    <3>10. Phase(q)'
      BY <3>8, <3>9, PhaseAt
    <3> QED BY <2>1, <3>6, <3>7, <3>10, QuietStep
  <2>4. ASSUME Goto(q, "discard"), UNCHANGED disk, NoFault \/ Fault PROVE StoreInv'
    <3>1. "discard" \in Unlocked /\ "discard" \notin Locked
      BY DEF Unlocked, Locked
    <3>2. Takes(q, "discard", job[q])
      BY <2>1, <2>4, <3>1, SameTakes DEF LockGoes
    <3>3. Phase(q)'
      BY <3>2, NowAt, NothingKnown
    <3> QED BY <2>1, <2>4, <3>2, <3>3, StillStep
  <2> QED BY <1>1, <2>3, <2>4 DEF Extracted
<1>2. CASE Discard(q)
  <2>1. pc[q] = "discard" /\ lock # q /\ lock' = lock /\ Ends(q) /\ pc[q] \notin Uninstalls /\ (NoFault \/ Fault)
    BY <1>2 DEF Discard, KeepLock, StoreInv, LockHeld, Locked, Uninstalls
  <2>2. Takes(q, "idle", NoJob)
    BY <2>1, EndTakes DEF LockGoes, Locked
  <2>3. Phase(q)'
    BY <2>2, NowAt, NothingKnown
  <2>4. DiskTyped(disk') /\ Quiet /\ \A p \in Processes \ {q} : StagingKept(p)
    <3>1. CASE disk' = [disk EXCEPT !.staging[q] = NoDir]
      BY <1>0, <3>1, DirTypes, StagingOnly
    <3>2. CASE disk' = [disk EXCEPT !.staging[q] = NoDir, !.left = @ + 1]
      <4> DEFINE st == [disk.staging EXCEPT ![q] = NoDir]
                 n == disk.left + 1
      <4>1. disk' = [disk EXCEPT !.staging = st, !.left = n]
        BY <3>2
      <4>2. st \in [Processes -> Dirs] /\ \A p \in Processes \ {q} : st[p] = disk.staging[p]
        BY <1>0, DirTypes DEF DiskTyped
      <4>3. n \in Nat /\ n >= disk.left
        BY <1>0 DEF DiskTyped
      <4> HIDE DEF st, n
      <4>4. Only(disk, disk', {"staging", "left"}) /\ disk'.staging = st /\ disk'.left = n
        <5>1. IsDisk(disk)
          BY TheDisk
        <5>2. Sets2(disk, disk', "staging", st, "left", n)
          BY <4>1, <5>1, PutStagingLeft
        <5> QED BY <5>2 DEF Sets2
      <4>5. DiskTyped(disk')
        BY <1>0, <4>2, <4>3, <4>4, TypedPut
      <4>6. Quiet
        BY <1>0, <4>3, <4>4 DEF Quiet, Only, Fields, DiskTyped
      <4> QED BY <4>2, <4>4, <4>5, <4>6 DEF StagingKept
    <3> QED BY <1>2, <3>1, <3>2 DEF Discard
  <2> QED BY <2>1, <2>2, <2>3, <2>4, QuietStep
<1> QED BY <1>1, <1>2

\* An installation starts with a staging directory of its own, in which there is no more than a part of its
\* package.
LEMMA InstallKeeps ==
  ASSUME StoreInv, NEW q \in Processes, NEW pkg \in Packages, NEW consent \in BOOLEAN, StartInstall(q, pkg, consent),
         starting' = starting
  PROVE  StoreInv'
<1> DEFINE base == Job("install", VersionOf[pkg], pkg)
           w == [base EXCEPT !.consent = consent, !.grants = Permissions(pkg)]
<1>1. Start(q, "extract", w)
  BY DEF StartInstall
<1>2. disk' = [disk EXCEPT !.staging[q] = Dir(pkg, "part")]
  BY DEF StartInstall
<1>3. IsJob(w) /\ w.v = VersionOf[pkg] /\ w.pkg = pkg /\ w.grants = Permissions(pkg)
  <2>1. IsJob(base) /\ base.v = VersionOf[pkg] /\ base.pkg = pkg
    BY NewJob
  <2> HIDE DEF base
  <2> DEFINE c == [base EXCEPT !.consent = consent]
             k == [c EXCEPT !.grants = Permissions(pkg)]
  <2>2. IsJob(c) /\ c.v = base.v /\ c.pkg = base.pkg
    BY <2>1, JobPutGrants
  <2> HIDE DEF c
  <2>a. IsJob(c)
    BY <2>2
  <2>3. IsJob(k) /\ k.v = c.v /\ k.pkg = c.pkg /\ k.grants = Permissions(pkg)
    BY <2>a, JobPutGrants
  <2>4. k = w
    BY DEF c
  <2> HIDE DEF k, w
  <2> QED BY <2>1, <2>2, <2>3, <2>4
<1> HIDE DEF w
<1>4. VersionOf[pkg] \in Versions /\ Permissions(pkg) \subseteq {"plain", "full_trust"}
  BY PackagesAssumption DEF Permissions
<1>5. "extract" \in Unlocked /\ pc[q] \notin Uninstalls
  BY <1>1 DEF Unlocked, Uninstalls, Start
<1>6. Takes(q, "extract", w)
  BY <1>1, <1>3, <1>4, <1>5, StartTakes
<1>7. pc'[q] = "extract" /\ job'[q] = w
  BY <1>6, NowAt
<1>8. /\ Dir(pkg, "part") \in Dirs /\ Dir(pkg, "part").pkg = pkg /\ Dir(pkg, "part").marks = {}
  BY DirTypes
<1>9. DiskTyped(disk') /\ Quiet /\ disk'.staging[q] = Dir(pkg, "part") /\ \A p \in Processes \ {q} : StagingKept(p)
  BY <1>2, <1>8, TheDisk, StagingOnly
<1>10. Staged(q)'
  BY <1>3, <1>7, <1>8, <1>9 DEF Staged, OfItsVersion
<1>11. Phase(q)'
  BY <1>7, <1>10, PhaseAt
<1> QED BY <1>5, <1>6, <1>9, <1>11, QuietStep

\* An authorization is of a package, whatever the lock does.
LEMMA GrantKeeps ==
  ASSUME StoreInv, NEW q \in Processes, GrantCheck(q) \/ GrantWrite(q) \/ \E v \in Versions : StartRevoke(q, v),
         starting' = starting
  PROVE  StoreInv'
<1>0. DiskTyped(disk)
  BY TheDisk
<1>1. CASE GrantCheck(q)
  <2>1. pc[q] = "grantCheck" /\ lock # q /\ lock' = lock /\ NoFault /\ pc[q] \notin Uninstalls /\ UNCHANGED disk
    BY <1>1 DEF GrantCheck, KeepLock, StoreInv, LockHeld, Locked, Uninstalls
  <2>2. CASE Goto(q, "grant") /\ SameJob
    <3>1. "grant" \in Unlocked /\ "grant" \notin Locked
      BY DEF Unlocked, Locked
    <3>2. Takes(q, "grant", job[q])
      BY <2>1, <2>2, <3>1, SameTakes DEF LockGoes
    <3>3. pc'[q] = "grant" /\ job'[q] = job[q]
      BY <3>2, NowAt
    <3>4. Granting(q)'
      BY <2>1, <3>3 DEF StoreInv, Phase, Granting
    <3>5. Phase(q)'
      BY <3>3, <3>4, PhaseAt
    <3> QED BY <2>1, <3>2, <3>5, StillStep
  <2>3. CASE Ends(q)
    <3>1. Takes(q, "idle", NoJob)
      BY <2>1, <2>3, EndTakes DEF LockGoes, Locked
    <3>2. Phase(q)'
      BY <3>1, NowAt, NothingKnown
    <3> QED BY <2>1, <3>1, <3>2, StillStep
  <2> QED BY <1>1, <2>2, <2>3 DEF GrantCheck
<1>2. CASE GrantWrite(q)
  <2>1. pc[q] = "grant" /\ lock # q /\ lock' = lock /\ (NoFault \/ Fault) /\ pc[q] \notin Uninstalls /\ Ends(q)
    BY <1>2 DEF GrantWrite, KeepLock, StoreInv, LockHeld, Locked, Uninstalls
  <2>2. Takes(q, "idle", NoJob)
    BY <2>1, EndTakes DEF LockGoes, Locked
  <2>3. Phase(q)'
    BY <2>2, NowAt, NothingKnown
  <2>4. CASE UNCHANGED disk
    BY <2>1, <2>2, <2>3, <2>4, StillStep
  <2>5. CASE disk' = [disk EXCEPT !.auths[job[q].v] = [pkg |-> job[q].pkg, grants |-> job[q].grants]]
    <3> DEFINE grant == [pkg |-> job[q].pkg, grants |-> job[q].grants]
               auths == [disk.auths EXCEPT ![job[q].v] = grant]
    <3>1. grant \in Grants
      <4>1. job[q].grants \subseteq {"plain", "full_trust"} /\ job[q].pkg \in Packages
        BY <2>1 DEF StoreInv, Jobs, Phase, Granting
      <4> QED BY <4>1 DEF Grants
    <3>2. disk' = [disk EXCEPT !.auths = auths]
      BY <2>5
    <3> HIDE DEF grant
    <3>3. auths \in [Versions -> Grants \cup {NoGrant}]
      BY <1>0, <3>1 DEF DiskTyped
    <3> HIDE DEF auths
    <3>4. Only(disk, disk', {"auths"}) /\ disk'.auths = auths
      <4>1. IsDisk(disk)
        BY TheDisk
      <4>2. Only(disk, [disk EXCEPT !.auths = auths], {"auths"}) /\ [disk EXCEPT !.auths = auths].auths = auths
        BY <4>1, DiskPut
      <4> QED BY <3>2, <4>2, Zenon
    <3>5. DiskTyped(disk')
      BY <1>0, <3>3, <3>4, TypedPut
    <3>6. Quiet /\ \A p \in Processes : StagingKept(p)
      BY <1>0, <3>4 DEF Quiet, Only, Fields, DiskTyped, StagingKept
    <3> QED BY <2>1, <2>2, <2>3, <3>5, <3>6, QuietStep
  <2> QED BY <1>2, <2>4, <2>5 DEF GrantWrite
<1>3. ASSUME NEW v \in Versions, StartRevoke(q, v) PROVE StoreInv'
  <2> DEFINE w == Job("revoke", v, disk.records[v])
  <2>1. Start(q, "grantCheck", w) /\ UNCHANGED disk /\ disk.records[v] # NoPackage
    BY <1>3 DEF StartRevoke, Loads, Installed
  <2>2. IsJob(w) /\ w.v = v /\ w.grants = {} /\ w.pkg = disk.records[v]
    BY NewJob
  <2> HIDE DEF w
  <2>3. "grantCheck" \in Unlocked /\ pc[q] \notin Uninstalls
    BY <2>1 DEF Unlocked, Uninstalls, Start
  <2>4. Takes(q, "grantCheck", w)
    BY <2>1, <2>2, <2>3, StartTakes
  <2>5. pc'[q] = "grantCheck" /\ job'[q] = w
    BY <2>4, NowAt
  <2>6. disk.records[v] \in Packages
    BY <1>0, <2>1 DEF DiskTyped
  <2>7. Granting(q)'
    BY <2>2, <2>5, <2>6 DEF Granting
  <2>8. Phase(q)'
    BY <2>5, <2>7, PhaseAt
  <2> QED BY <2>1, <2>3, <2>4, <2>8, StillStep
<1> QED BY <1>1, <1>2, <1>3

---------------------------------------------------------------------------
(* Steps that take the lock *)

\* What the recovery scan lists is not installed, or is there.
LEMMA ScanFinds ==
  ASSUME NEW d, NEW item \in Scan(d)
  PROVE  /\ item.kind \in {"orphaned_version", "orphaned_record"} => item.at \in Versions /\ ~Installed(d, item.at)
         /\ item.kind = "retained_staging" /\ item.at = Left => d.left > 0
         /\ item.kind = "retained_uninstall" => d.tombs > 0
<1>1. \/ item = Item("invalid_active_record", Left)
      \/ \E v \in OrphanedVersions(d) : item = Item("orphaned_version", v)
      \/ \E v \in InactiveVersions(d) : item = Item("inactive_version", v)
      \/ \E v \in OrphanedRecords(d) : item = Item("orphaned_record", v)
      \/ \E v \in OrphanedAuthorizations(d) : item = Item("orphaned_authorization", v)
      \/ \E t \in d.temps : item = Item("temporary", t)
      \/ \E p \in Processes : item = Item("retained_staging", p)
      \/ d.left > 0 /\ item = Item("retained_staging", Left)
      \/ d.tombs > 0 /\ item = Item("retained_uninstall", Left)
  BY Zenon DEF Scan, When
<1>2. \A kind, at : Item(kind, at).kind = kind /\ Item(kind, at).at = at
  BY DEF Item
<1>3. Left \notin Processes
  BY PackagesAssumption
<1> QED BY <1>1, <1>2, <1>3 DEF OrphanedVersions, OrphanedRecords

\* Activating and cleaning up take the lock and look: what they act on is installed, respectively listed.
LEMMA CheckKeeps ==
  ASSUME StoreInv, NEW q \in Processes, ActivateCheck(q) \/ CleanupCheck(q), starting' = starting
  PROVE  StoreInv'
<1>1. pc[q] \in {"activateCheck", "cleanup"} /\ lock # q /\ pc[q] # "idle" /\ UNCHANGED disk /\ NoFault
      /\ pc[q] \notin Uninstalls
  BY DEF ActivateCheck, CleanupCheck, StoreInv, LockHeld, Locked, Uninstalls
<1>2. ASSUME Ends(q), KeepLock PROVE StoreInv'
  <2>1. Takes(q, "idle", NoJob)
    BY <1>1, <1>2, EndTakes DEF LockGoes, Locked, KeepLock
  <2>2. Phase(q)'
    BY <2>1, NowAt, NothingKnown
  <2> QED BY <1>1, <2>1, <2>2, StillStep
<1>3. ASSUME NEW s \in {"activate", "remove"}, TakeLock(q), Goto(q, s), SameJob PROVE Takes(q, s, job[q])
  <2>1. s \in Locked
    BY DEF Locked
  <2> QED BY <1>1, <1>3, <2>1, SameTakes DEF LockGoes, TakeLock
<1>4. ASSUME Installed(disk, job[q].v), TakeLock(q), Goto(q, "activate"), SameJob PROVE StoreInv'
  <2>1. Takes(q, "activate", job[q])
    BY <1>3, <1>4
  <2>2. pc'[q] = "activate" /\ job'[q] = job[q]
    BY <2>1, NowAt
  <2>3. Activating(q)'
    BY <1>1, <1>4, <2>2 DEF Activating, Installed
  <2>4. Phase(q)'
    BY <2>2, <2>3, PhaseAt
  <2> QED BY <1>1, <2>1, <2>4, StillStep
<1>5. ASSUME job[q].item \in Scan(disk), TakeLock(q), Goto(q, "remove"), SameJob PROVE StoreInv'
  <2>1. Takes(q, "remove", job[q])
    BY <1>3, <1>5
  <2>2. pc'[q] = "remove" /\ job'[q] = job[q]
    BY <2>1, NowAt
  <2>3. Removing(q)'
    BY <1>1, <1>5, <2>2, ScanFinds DEF Removing, Installed
  <2>4. Phase(q)'
    BY <2>2, <2>3, PhaseAt
  <2> QED BY <1>1, <2>1, <2>4, StillStep
<1> QED BY <1>2, <1>4, <1>5 DEF ActivateCheck, CleanupCheck

FoundBy(q, a, b, c, d) == [job EXCEPT ![q].pkg = a, ![q].dir = b, ![q].profile = c, ![q].last = d]

\* An uninstall notes the package, the directory and the profile it found.
LEMMA JobPutFound ==
  ASSUME NEW q \in Processes, job = [p \in Processes |-> job[p]], IsJob(job[q]), NEW a, NEW b, NEW c, NEW d,
         job' = FoundBy(q, a, b, c, d)
  PROVE  \E k : /\ job' = [job EXCEPT ![q] = k] /\ IsJob(k) /\ k.v = job[q].v /\ k.grants = job[q].grants
                /\ k.pkg = a /\ k.dir = b /\ k.profile = c
                /\ k.gone = job[q].gone /\ k.ok = job[q].ok /\ k.removed = job[q].removed
<1> DEFINE k1 == [job[q] EXCEPT !.pkg = a]
           k2 == [k1 EXCEPT !.dir = b]
           k3 == [k2 EXCEPT !.profile = c]
           k4 == [k3 EXCEPT !.last = d]
           j1 == [job EXCEPT ![q].pkg = a]
           j2 == [j1 EXCEPT ![q].dir = b]
           j3 == [j2 EXCEPT ![q].profile = c]
           j4 == [j3 EXCEPT ![q].last = d]
<1>1. j1 = [p \in Processes |-> IF p = q THEN k1 ELSE job[p]]
  OBVIOUS
<1>2. IsJob(k1) /\ k1.v = job[q].v /\ k1.grants = job[q].grants /\ k1.pkg = a
      /\ k1.gone = job[q].gone /\ k1.ok = job[q].ok /\ k1.removed = job[q].removed
  BY SMTT(30) DEF IsJob
<1> HIDE DEF k1, j1
<1>3. j2 = [p \in Processes |-> IF p = q THEN k2 ELSE job[p]]
  BY <1>1
<1>4. IsJob(k2) /\ k2.v = job[q].v /\ k2.grants = job[q].grants /\ k2.pkg = a /\ k2.dir = b
      /\ k2.gone = job[q].gone /\ k2.ok = job[q].ok /\ k2.removed = job[q].removed
  BY <1>2, SMTT(30) DEF IsJob
<1> HIDE DEF k2, j2
<1>5. j3 = [p \in Processes |-> IF p = q THEN k3 ELSE job[p]]
  BY <1>3
<1>6. IsJob(k3) /\ k3.v = job[q].v /\ k3.grants = job[q].grants /\ k3.pkg = a /\ k3.dir = b /\ k3.profile = c
      /\ k3.gone = job[q].gone /\ k3.ok = job[q].ok /\ k3.removed = job[q].removed
  BY <1>4, SMTT(30) DEF IsJob
<1> HIDE DEF k3, j3
<1>7. j4 = [p \in Processes |-> IF p = q THEN k4 ELSE job[p]]
  BY <1>5
<1>8. IsJob(k4) /\ k4.v = job[q].v /\ k4.grants = job[q].grants /\ k4.pkg = a /\ k4.dir = b /\ k4.profile = c
      /\ k4.gone = job[q].gone /\ k4.ok = job[q].ok /\ k4.removed = job[q].removed
  BY <1>6, SMTT(30) DEF IsJob
<1>9. job' = j4
  BY DEF j1, j2, j3, FoundBy
<1> HIDE DEF k4, j4
<1>10. job' = [job EXCEPT ![q] = k4]
  BY <1>7, <1>9
<1> QED BY <1>8, <1>10

\* Under the lock nobody else uninstalls, so there is no tombstone.
LEMMA NoTomb ==
  ASSUME StoreInv, lock = Nobody
  PROVE  disk.tomb = NoDir /\ \A p \in Processes : pc[p] \notin Locked
<1>1. \A p \in Processes : pc[p] \notin Locked
  BY StoreAssumption DEF StoreInv, LockHeld
<1> QED BY <1>1 DEF StoreInv, TombFree, Uninstalls, Locked

\* An uninstall goes on only with a version that is installed and not active.
LEMMA UninstallCheckKeeps ==
  ASSUME StoreInv, NEW q \in Processes, UninstallCheck(q), starting' = starting
  PROVE  StoreInv'
<1> DEFINE v == job[q].v
<1>1. pc[q] = "uninstall" /\ lock # q /\ UNCHANGED disk /\ NoFault /\ pc[q] \notin Uninstalls /\ lock = Nobody
  BY DEF UninstallCheck, StoreInv, LockHeld, Locked, Uninstalls, TakeLock
<1>2. CASE KeepLock /\ Ends(q)
  <2>1. Takes(q, "idle", NoJob)
    BY <1>1, <1>2, EndTakes DEF LockGoes, Locked, KeepLock
  <2>2. Phase(q)'
    BY <2>1, NowAt, NothingKnown
  <2> QED BY <1>1, <2>1, <2>2, StillStep
<1>3. ASSUME MayUninstall(disk, v), TakeLock(q), NEW last,
             job' = [job EXCEPT ![q].pkg = disk.records[v], ![q].dir = disk.dirs[v], ![q].profile = disk.profile,
                                ![q].last = last],
             Goto(q, "detach"), UNCHANGED ops
      PROVE  StoreInv'
  <2>1. job = [p \in Processes |-> job[p]] /\ IsJob(job[q]) /\ v \in Versions
        /\ job[q].grants \subseteq {"plain", "full_trust"}
    BY <1>1 DEF StoreInv, Jobs
  <2>2. PICK k : /\ job' = [job EXCEPT ![q] = k] /\ IsJob(k) /\ k.v = job[q].v /\ k.grants = job[q].grants
                 /\ k.pkg = disk.records[v] /\ k.dir = disk.dirs[v] /\ k.profile = disk.profile
                 /\ k.gone = job[q].gone /\ k.ok = job[q].ok /\ k.removed = job[q].removed
    <3>0. job' = FoundBy(q, disk.records[v], disk.dirs[v], disk.profile, last)
      BY <1>3 DEF FoundBy
    <3>1. \A a, b, c, d : job' = FoundBy(q, a, b, c, d) =>
            \E k : /\ job' = [job EXCEPT ![q] = k] /\ IsJob(k) /\ k.v = job[q].v /\ k.grants = job[q].grants
                   /\ k.pkg = a /\ k.dir = b /\ k.profile = c
                   /\ k.gone = job[q].gone /\ k.ok = job[q].ok /\ k.removed = job[q].removed
      BY <2>1, JobPutFound
    <3> QED BY <3>0, <3>1
  <2>3. Takes(q, "detach", k)
    <3>1. Counted
      BY <1>1, <1>3 DEF Counted, NoFault
    <3>2. "detach" \in Locked
      BY DEF Locked
    <3> QED BY <1>1, <1>3, <2>1, <2>2, <3>1, <3>2, CountsKept DEF Takes, Goto, TakeLock, StoreInv
  <2>4. pc'[q] = "detach" /\ job'[q] = k
    BY <2>3, NowAt
  <2>5. disk' = disk /\ disk.tomb = NoDir /\ DiskTyped(disk)
    BY <1>1, NoTomb, TheDisk
  <2>6. Installed(disk, v) /\ ActiveIsNot(v)
    BY <1>3 DEF MayUninstall, ActiveIsNot
  <2>7. disk.records[v] \in Packages /\ VersionOf[disk.records[v]] = v /\ disk.dirs[v] \in Dirs /\ HasManifest(disk.dirs[v])
    BY <2>1, <2>5, <2>6 DEF Installed, DiskTyped, StoreInv, Named
  <2>8. v \notin disk.harmed => BoundTo(disk.dirs[v], disk.records[v])
    BY <2>1, <2>6, <2>7, DirTypes DEF StoreInv, Bound, Installed
  <2>9. Found(q)'
    BY <2>2, <2>4, <2>5, <2>6, <2>7, <2>8 DEF Found, OfItsVersion, ActiveIsNot, Uninstalls
  <2>10. ~job[q].gone /\ ~job[q].ok /\ ~job[q].removed
    BY <1>1 DEF StoreInv, Phase, Uninstall
  <2>11. InPlace(q)' /\ HasRecord(q)' /\ HasProfile(q)' /\ ~k.gone /\ ~k.ok /\ ~k.removed
    <3>1. InPlace(q)' /\ HasRecord(q)'
      BY <2>2, <2>4, <2>5 DEF InPlace, HasRecord
    <3>2. k.profile = disk'.profile /\ job'[q].profile = k.profile
      BY <2>2, <2>4, <2>5
    <3>3. HasProfile(q)'
      BY <3>2, Zenon DEF HasProfile
    <3> QED BY <2>2, <2>10, <3>1, <3>3, Zenon
  <2>12. Uninstall(q)'
    BY <2>4, <2>11 DEF Uninstall
  <2>13. Phase(q)'
    BY <2>4, <2>9, <2>12, PhaseAt DEF Uninstalls
  <2> QED BY <1>1, <2>3, <2>13, StillStep
<1> QED BY <1>2, <1>3 DEF UninstallCheck

---------------------------------------------------------------------------
(* Steps under the lock *)

\* Its owner is the only process at such a step.
LEMMA OwnerAlone ==
  ASSUME StoreInv, NEW q \in Processes, pc[q] \in Locked
  PROVE  /\ lock = q /\ \A p \in Processes \ {q} : pc[p] \notin Locked
         /\ pc[q] \notin Uninstalls => disk.tomb = NoDir
<1>1. lock = q /\ \A p \in Processes \ {q} : pc[p] \notin Locked
  BY DEF StoreInv, LockHeld
<1>2. ASSUME pc[q] \notin Uninstalls PROVE disk.tomb = NoDir
  BY <1>1, <1>2 DEF StoreInv, TombFree, Uninstalls, Locked
<1> QED BY <1>1, <1>2

\* A step of the process that holds the lock keeps the invariant if it keeps what holds always and
\* establishes what that process knows next.
LEMMA OwnStep ==
  ASSUME StoreInv, NEW q \in Processes, NEW s, NEW j, Takes(q, s, j), lock \in {q, Nobody}, DiskTyped(disk'),
         \A p \in Processes \ {q} : StagingKept(p), Named' /\ Bound' /\ ActiveBound',
         s \in Uninstalls \/ disk'.tomb = NoDir, Phase(q)'
  PROVE  StoreInv'
<1>1. TombFree'
  BY NowAt DEF TombFree
<1> QED BY <1>1, StepKeeps

\* What changes is about the version v.
LEMMA VersionStep ==
  ASSUME StoreInv, NEW v \in Versions,
         \A w \in Versions \ {v} : disk'.dirs[w] = disk.dirs[w] /\ disk'.records[w] = disk.records[w],
         disk.harmed \subseteq disk'.harmed, disk'.active = disk.active,
         disk'.records[v] # NoPackage => VersionOf[disk'.records[v]] = v,
         v \notin disk'.harmed /\ Here(disk'.dirs[v]) /\ disk'.records[v] # NoPackage =>
           BoundTo(disk'.dirs[v], disk'.records[v]),
         v \notin disk'.harmed => ActiveIsNot(v)
  PROVE  Named' /\ Bound' /\ ActiveBound'
<1>1. disk.active # NoPackage => VersionOf[disk.active] \in Versions
  BY TheDisk, PackagesAssumption DEF DiskTyped
<1>2. Named'
  BY DEF StoreInv, Named
<1>3. Bound'
  BY DEF StoreInv, Bound
<1>4. ActiveBound'
  BY <1>1 DEF StoreInv, ActiveBound, ActiveIsNot
<1> QED BY <1>2, <1>3, <1>4

\* What changes is the active record.
LEMMA ActiveStep ==
  ASSUME StoreInv, Only(disk, disk', {"active"}),
         disk'.active # NoPackage /\ VersionOf[disk'.active] \notin disk.harmed =>
           Here(disk.dirs[VersionOf[disk'.active]]) /\ disk.records[VersionOf[disk'.active]] = disk'.active
  PROVE  Named' /\ Bound' /\ ActiveBound'
<1>1. disk'.dirs = disk.dirs /\ disk'.records = disk.records /\ disk'.harmed = disk.harmed
  BY DEF Only, Fields
<1> QED BY <1>1 DEF StoreInv, Named, Bound, ActiveBound

\* A directory with other marks is one.
LEMMA Marked ==
  ASSUME NEW dir \in Dirs, NEW marks \in SUBSET Marks, Here(dir)
  PROVE  LET e == [dir EXCEPT !.marks = marks]
         IN e \in Dirs /\ e.pkg = dir.pkg /\ e.files = dir.files /\ e.marks = marks
            /\ e = [pkg |-> dir.pkg, files |-> dir.files, marks |-> marks]
<1>1. IsDir(dir) /\ dir.pkg \in Packages /\ dir.files \in {"whole", "part", "bare"}
  BY DirTypes DEF IsDir, Dirs, NoDir, Here
<1>2. [dir EXCEPT !.marks = marks] = [pkg |-> dir.pkg, files |-> dir.files, marks |-> marks]
  BY <1>1, DirPut
<1> QED BY <1>1, <1>2, DirMade

\* Moving the staged directory in keeps the active version, since a version with a directory is refused.
LEMMA PublishMoveKeeps ==
  ASSUME StoreInv, NEW q \in Processes, PublishMove(q), starting' = starting
  PROVE  StoreInv'
<1> DEFINE v == job[q].v
           staged == disk.staging[q]
<1>1. pc[q] = "publish" /\ SameJob /\ lock = Nobody /\ lock # q /\ pc[q] \notin Uninstalls
  BY StoreAssumption DEF PublishMove, TakeLock, Uninstalls
<1>2. /\ v \in Versions /\ DiskTyped(disk) /\ IsDisk(disk) /\ staged \in Dirs
      /\ OfItsVersion(q)
      /\ Here(staged) => /\ staged.pkg = job[q].pkg /\ staged.marks \subseteq {"raided"}
                         /\ "raided" \notin staged.marks => staged.files = "whole"
  BY <1>1, TheDisk DEF StoreInv, Jobs, Phase, Staged, DiskTyped
<1>3. ASSUME KeepLock, NoFault \/ Fault, Goto(q, "discard"), UNCHANGED disk PROVE StoreInv'
  <2>1. "discard" \in Unlocked /\ "discard" \notin Locked
    BY DEF Unlocked, Locked
  <2>2. Takes(q, "discard", job[q])
    BY <1>1, <1>3, <2>1, SameTakes DEF LockGoes, KeepLock
  <2>3. Phase(q)'
    BY <2>2, NowAt, NothingKnown
  <2> QED BY <1>1, <1>3, <2>2, <2>3, StillStep
<1>4. ASSUME Here(staged), ~Here(disk.dirs[v]), TakeLock(q), Goto(q, "record"), NoFault,
             NEW over \in {{}, {"overOrphan"}}, disk.records[v] # NoPackage => over = {"overOrphan"},
             disk' = [disk EXCEPT !.dirs[v] = [staged EXCEPT !.marks = staged.marks \cup over], !.staging[q] = NoDir,
                                  !.harmed = IF "raided" \in staged.marks THEN disk.harmed \cup {v} ELSE disk.harmed]
      PROVE  StoreInv'
  <2> DEFINE marks == staged.marks \cup over
             dir == [staged EXCEPT !.marks = marks]
             ds == [disk.dirs EXCEPT ![v] = dir]
             st == [disk.staging EXCEPT ![q] = NoDir]
             hm == IF "raided" \in staged.marks THEN disk.harmed \cup {v} ELSE disk.harmed
  <2>1. disk' = [disk EXCEPT !.dirs = ds, !.staging = st, !.harmed = hm]
    BY <1>4
  <2>2. marks \in SUBSET Marks
    BY <1>2, <1>4 DEF Marks
  <2>3. dir \in Dirs /\ dir.pkg = job[q].pkg /\ dir.files = staged.files /\ dir.marks = marks
    <3>1. staged \in Dirs /\ Here(staged) /\ staged.pkg = job[q].pkg
      BY <1>2, <1>4
    <3> HIDE DEF marks, staged
    <3>2. dir \in Dirs /\ dir.pkg = staged.pkg /\ dir.files = staged.files /\ dir.marks = marks
      BY <2>2, <3>1, Marked
    <3> QED BY <3>1, <3>2
  <2> HIDE DEF dir
  <2>4. ds \in [Versions -> Dirs] /\ ds[v] = dir /\ \A w \in Versions \ {v} : ds[w] = disk.dirs[w]
    BY <1>2, <2>3 DEF DiskTyped
  <2>5. st \in [Processes -> Dirs] /\ \A p \in Processes \ {q} : st[p] = disk.staging[p]
    BY <1>2, DirTypes DEF DiskTyped
  <2>6. hm \subseteq Versions /\ disk.harmed \subseteq hm
        /\ (v \notin hm => v \notin disk.harmed /\ staged.files = "whole" /\ marks = over)
    BY <1>2, <1>4 DEF DiskTyped
  <2> HIDE DEF ds, st, hm
  <2>7. Sets3(disk, disk', "dirs", ds, "staging", st, "harmed", hm)
    BY <1>2, <2>1, PutPublished
  <2>8. Only(disk, disk', {"dirs", "staging", "harmed"}) /\ disk'.dirs = ds /\ disk'.staging = st /\ disk'.harmed = hm
    BY <2>7 DEF Sets3
  <2>9. DiskTyped(disk')
    BY <1>2, <2>4, <2>5, <2>6, <2>8, TypedPut
  <2>10. disk'.records = disk.records /\ disk'.active = disk.active /\ disk'.tomb = disk.tomb
    BY <2>8 DEF Only, Fields
  <2>11. v \notin hm => ActiveIsNot(v)
    BY <1>4, <2>6 DEF StoreInv, ActiveBound, ActiveIsNot
  <2>12. ~(v \notin hm /\ Here(dir) /\ disk.records[v] # NoPackage) \/ BoundTo(dir, disk.records[v])
    BY <1>4, <2>3, <2>6 DEF BoundTo, HasManifest
  <2>13. disk.records[v] # NoPackage => VersionOf[disk.records[v]] = v
    BY <1>2 DEF StoreInv, Named
  <2>14. Named' /\ Bound' /\ ActiveBound'
    BY <1>2, <2>4, <2>6, <2>8, <2>10, <2>11, <2>12, <2>13, VersionStep
  <2>15. Takes(q, "record", job[q])
    <3>1. "record" \in Locked
      BY DEF Locked
    <3> QED BY <1>1, <1>4, <3>1, SameTakes DEF LockGoes, TakeLock
  <2>16. pc'[q] = "record" /\ job'[q] = job[q]
    BY <2>15, NowAt
  <2>17. Moved(q)'
    BY <1>2, <2>3, <2>4, <2>6, <2>8, <2>10, <2>11, <2>16 DEF Moved, OfItsVersion, ActiveIsNot
  <2>18. Phase(q)'
    BY <2>16, <2>17, PhaseAt
  <2>19. disk.tomb = NoDir
    BY <1>1, NoTomb
  <2>20. \A p \in Processes \ {q} : StagingKept(p)
    BY <2>5, <2>8 DEF StagingKept
  <2> QED BY <1>1, <2>9, <2>10, <2>14, <2>15, <2>18, <2>19, <2>20, OwnStep
<1> QED BY <1>1, <1>3, <1>4 DEF PublishMove

\* Writing the record binds the directory that was moved in; a failure moves it back, and if that fails too
\* it stays without a record of its own.
LEMMA PublishRecordKeeps ==
  ASSUME StoreInv, NEW q \in Processes, PublishRecord(q), starting' = starting
  PROVE  StoreInv'
<1> DEFINE v == job[q].v
           old == disk.dirs[v]
           marks == old.marks \ {"overOrphan"}
           settled == [old EXCEPT !.marks = marks]
           ds == [disk.dirs EXCEPT ![v] = settled]
           gone == [disk.dirs EXCEPT ![v] = NoDir]
           rs == [disk.records EXCEPT ![v] = job[q].pkg]
           st == [disk.staging EXCEPT ![q] = settled]
<1>1. pc[q] = "record" /\ pc[q] \in Locked /\ pc[q] \notin Uninstalls
  BY DEF PublishRecord, Uninstalls, Locked
<1>2. lock = q /\ disk.tomb = NoDir
  BY <1>1, OwnerAlone
<1>3. /\ v \in Versions /\ DiskTyped(disk) /\ IsDisk(disk) /\ old \in Dirs
      /\ job[q].pkg \in Packages /\ VersionOf[job[q].pkg] = v
      /\ v \notin disk.harmed => /\ ActiveIsNot(v) /\ old.pkg = job[q].pkg /\ old.files = "whole"
                                 /\ old.marks \subseteq {"overOrphan"}
  BY <1>1, TheDisk DEF StoreInv, Jobs, Phase, Moved, OfItsVersion, DiskTyped
<1>4. /\ settled \in Dirs
      /\ v \notin disk.harmed => HasManifest(settled) /\ settled = Dir(job[q].pkg, "whole")
  <2>1. CASE Here(old)
    <3>1. marks \in SUBSET Marks /\ (v \notin disk.harmed => marks = {})
      BY <1>3, <2>1, DirTypes
    <3> HIDE DEF marks, old
    <3>2. /\ settled \in Dirs /\ settled.files = old.files
          /\ settled = [pkg |-> old.pkg, files |-> old.files, marks |-> marks]
      BY <1>3, <2>1, <3>1, Marked
    <3> QED BY <1>3, <3>1, <3>2 DEF Dir, HasManifest
  <2>2. CASE ~Here(old)
    <3>1. old = NoDir
      BY <1>3, <2>2, DirTypes
    <3>2. settled = NoDir
      BY <3>1 DEF NoDir
    <3>3. v \in disk.harmed
      BY <1>3, <2>2 DEF Here
    <3> QED BY <3>2, <3>3, DirTypes
  <2> QED BY <2>1, <2>2
<1>5. \A p \in Processes \ {q} : disk'.staging[p] = disk.staging[p] => StagingKept(p)
  BY DEF StagingKept
<1>6. ASSUME disk' = [disk EXCEPT !.records[v] = job[q].pkg, !.dirs[v] = settled], SameJob, NoFault,
             NEW s \in {"grantCheck", "active"}, Goto(q, s), s = "grantCheck" => FreeLock, s = "active" => KeepLock
      PROVE  StoreInv'
  <2> HIDE DEF settled
  <2>1. disk' = [disk EXCEPT !.records = rs, !.dirs = ds]
    BY <1>6
  <2>2. rs \in [Versions -> Packages \cup {NoPackage}] /\ rs[v] = job[q].pkg
        /\ \A w \in Versions \ {v} : rs[w] = disk.records[w]
    BY <1>3 DEF DiskTyped
  <2>3. ds \in [Versions -> Dirs] /\ ds[v] = settled /\ \A w \in Versions \ {v} : ds[w] = disk.dirs[w]
    BY <1>3, <1>4 DEF DiskTyped
  <2> HIDE DEF ds, rs
  <2>4. Sets2(disk, disk', "records", rs, "dirs", ds)
    BY <1>3, <2>1, PutRecordsDirs
  <2>5. Only(disk, disk', {"records", "dirs"}) /\ disk'.records = rs /\ disk'.dirs = ds
    BY <2>4 DEF Sets2
  <2>6. DiskTyped(disk')
    BY <1>3, <2>2, <2>3, <2>5, TypedPut
  <2>7. disk'.harmed = disk.harmed /\ disk'.active = disk.active /\ disk'.tomb = disk.tomb /\ disk'.staging = disk.staging
    BY <2>5 DEF Only, Fields
  <2>8. v \notin disk.harmed => BoundTo(settled, job[q].pkg)
    BY <1>4 DEF BoundTo
  <2>9. Named' /\ Bound' /\ ActiveBound'
    BY <1>3, <2>2, <2>3, <2>5, <2>7, <2>8, VersionStep
  <2>10. Takes(q, s, job[q])
    <3>1. "active" \in Locked /\ "grantCheck" \in Unlocked /\ "grantCheck" \notin Locked /\ pc[q] # "idle"
      BY <1>1 DEF Locked, Unlocked
    <3>2. LockGoes(q, s)
      BY <1>2, <1>6, <3>1 DEF LockGoes, FreeLock, KeepLock
    <3> QED BY <1>6, <3>1, <3>2, SameTakes
  <2>11. pc'[q] = s /\ job'[q] = job[q]
    BY <2>10, NowAt
  <2>12. Granting(q)' /\ Recorded(q)'
    BY <1>3, <1>4, <2>2, <2>3, <2>5, <2>7, <2>11, DirTypes DEF Granting, Recorded, OfItsVersion
  <2>13. Phase(q)'
    BY <1>6, <2>11, <2>12, PhaseAt
  <2> QED BY <1>2, <1>5, <2>6, <2>7, <2>9, <2>10, <2>13, OwnStep
<1>7. ASSUME disk' = [disk EXCEPT !.staging[q] = settled, !.dirs[v] = NoDir], Goto(q, "discard"), FreeLock, SameJob, Fault
      PROVE  StoreInv'
  <2> HIDE DEF settled
  <2>1. disk' = [disk EXCEPT !.staging = st, !.dirs = gone]
    BY <1>7
  <2>2. st \in [Processes -> Dirs] /\ \A p \in Processes \ {q} : st[p] = disk.staging[p]
    BY <1>3, <1>4 DEF DiskTyped
  <2>3. gone \in [Versions -> Dirs] /\ gone[v] = NoDir /\ \A w \in Versions \ {v} : gone[w] = disk.dirs[w]
    BY <1>3, DirTypes DEF DiskTyped
  <2> HIDE DEF st, gone
  <2>4. Sets2(disk, disk', "staging", st, "dirs", gone)
    BY <1>3, <2>1, PutStagingDirs
  <2>5. Only(disk, disk', {"staging", "dirs"}) /\ disk'.staging = st /\ disk'.dirs = gone
    BY <2>4 DEF Sets2
  <2>6. DiskTyped(disk')
    BY <1>3, <2>2, <2>3, <2>5, TypedPut
  <2>7. disk'.harmed = disk.harmed /\ disk'.active = disk.active /\ disk'.tomb = disk.tomb /\ disk'.records = disk.records
    BY <2>5 DEF Only, Fields
  <2>8. disk.records[v] # NoPackage => VersionOf[disk.records[v]] = v
    BY <1>3 DEF StoreInv, Named
  <2>9. Named' /\ Bound' /\ ActiveBound'
    BY <1>3, <2>3, <2>5, <2>7, <2>8, DirTypes, VersionStep
  <2>10. Takes(q, "discard", job[q])
    <3>1. "discard" \in Unlocked /\ "discard" \notin Locked /\ pc[q] # "idle"
      BY <1>1 DEF Locked, Unlocked
    <3>2. LockGoes(q, "discard")
      BY <1>2, <1>7, <3>1 DEF LockGoes, FreeLock
    <3> QED BY <1>7, <3>1, <3>2, SameTakes
  <2>11. Phase(q)'
    BY <2>10, NowAt, NothingKnown
  <2> QED BY <1>2, <1>5, <2>2, <2>5, <2>6, <2>7, <2>9, <2>10, <2>11, OwnStep
<1>8. ASSUME faults + 1 < MaxFaults, faults' = faults + 2, FreeLock, Ends(q), UNCHANGED disk
      PROVE  StoreInv'
  <2>1. Takes(q, "idle", NoJob)
    BY <1>2, <1>8, EndTakes DEF LockGoes, Locked, FreeLock
  <2>2. Phase(q)'
    BY <2>1, NowAt, NothingKnown
  <2> QED BY <1>1, <1>8, <2>1, <2>2, StillStep
<1>9. \/ /\ disk' = [disk EXCEPT !.records[v] = job[q].pkg, !.dirs[v] = settled]
         /\ \/ Goto(q, "grantCheck") /\ FreeLock
            \/ Goto(q, "active") /\ KeepLock
         /\ SameJob /\ NoFault
      \/ /\ disk' = [disk EXCEPT !.staging[q] = settled, !.dirs[v] = NoDir]
         /\ Goto(q, "discard") /\ FreeLock /\ SameJob /\ Fault
      \/ /\ faults + 1 < MaxFaults /\ faults' = faults + 2
         /\ FreeLock /\ Ends(q) /\ UNCHANGED disk
  BY DEF PublishRecord
<1> HIDE DEF settled, v
<1> QED BY <1>6, <1>7, <1>8, <1>9

\* What an active record is set to is there, or was published from raided files.
LEMMA ActiveKeeps ==
  ASSUME StoreInv, NEW q \in Processes, PublishActive(q) \/ ActivateWrite(q) \/ Deactivate(q), starting' = starting
  PROVE  StoreInv'
<1>1. /\ pc[q] \in {"active", "activate", "deactivate"} /\ pc[q] \notin Uninstalls /\ Ends(q) /\ (NoFault \/ Fault)
      /\ lock \in {q, Nobody} /\ lock' = Nobody
  <2>1. pc[q] \in {"active", "activate", "deactivate"} /\ pc[q] \notin Uninstalls /\ Ends(q) /\ (NoFault \/ Fault)
    BY DEF PublishActive, ActivateWrite, Deactivate, Uninstalls
  <2>2. pc[q] \in {"active", "activate"} => lock = q /\ lock' = Nobody
    BY <2>1, OwnerAlone DEF Locked, PublishActive, ActivateWrite, Deactivate, FreeLock
  <2>3. pc[q] = "deactivate" => lock = Nobody /\ lock' = Nobody
    BY DEF PublishActive, ActivateWrite, Deactivate, KeepLock
  <2> QED BY <2>1, <2>2, <2>3
<1>2. Takes(q, "idle", NoJob)
  <2>1. "idle" \notin Locked
    BY DEF Locked
  <2> QED BY <1>1, <2>1, EndTakes DEF LockGoes
<1>3. Phase(q)'
  BY <1>2, NowAt, NothingKnown
<1>4. disk.tomb = NoDir
  BY <1>1, NoTomb, OwnerAlone DEF StoreInv, LockHeld
<1>5. DiskTyped(disk) /\ IsDisk(disk)
  BY TheDisk
<1>6. ASSUME NEW act \in Packages \cup {NoPackage}, disk' = [disk EXCEPT !.active = act],
             act # NoPackage /\ VersionOf[act] \notin disk.harmed =>
               Here(disk.dirs[VersionOf[act]]) /\ disk.records[VersionOf[act]] = act
      PROVE  StoreInv'
  <2>1. Sets(disk, disk', "active", act)
    BY <1>5, <1>6, PutField
  <2>2. Only(disk, disk', {"active"}) /\ disk'.active = act
    BY <2>1 DEF Sets
  <2>3. DiskTyped(disk')
    BY <1>5, <2>2, TypedPut
  <2>4. Named' /\ Bound' /\ ActiveBound'
    BY <1>6, <2>2, ActiveStep
  <2>5. disk'.tomb = disk.tomb /\ \A p \in Processes : StagingKept(p)
    BY <2>2 DEF Only, Fields, StagingKept
  <2> QED BY <1>1, <1>2, <1>3, <1>4, <2>3, <2>4, <2>5, OwnStep
<1>7. CASE UNCHANGED disk
  BY <1>1, <1>2, <1>3, <1>7, StillStep
<1>8. CASE PublishActive(q) /\ disk' = [disk EXCEPT !.active = job[q].pkg]
  <2>1. /\ job[q].pkg \in Packages
        /\ VersionOf[job[q].pkg] \notin disk.harmed =>
             Here(disk.dirs[VersionOf[job[q].pkg]]) /\ disk.records[VersionOf[job[q].pkg]] = job[q].pkg
    BY <1>8 DEF PublishActive, StoreInv, Phase, Recorded, OfItsVersion
  <2> QED BY <1>6, <1>8, <2>1
<1>9. CASE ActivateWrite(q) /\ disk' = [disk EXCEPT !.active = disk.records[job[q].v]]
  <2> DEFINE v == job[q].v
  <2>1. pc[q] = "activate" /\ v \in Versions /\ Installed(disk, v)
    BY <1>9 DEF ActivateWrite, StoreInv, Jobs, Phase, Activating
  <2>2. disk.records[v] \in Packages /\ VersionOf[disk.records[v]] = v /\ Here(disk.dirs[v])
    BY <1>5, <2>1, DirTypes DEF Installed, StoreInv, Named, DiskTyped
  <2> QED BY <1>6, <1>9, <2>2
<1>10. CASE Deactivate(q) /\ disk' = [disk EXCEPT !.active = NoPackage]
  BY <1>6, <1>10
<1> QED BY <1>7, <1>8, <1>9, <1>10 DEF PublishActive, ActivateWrite, Deactivate

\* What becomes of the store when an item is removed, or half removed.
LEMMA CleanupWrites ==
  ASSUME NEW item, disk' = Removed(disk, item) \/ disk' \in HalfRemoved(disk, item)
  PROVE  \/ disk' = [disk EXCEPT !.active = NoPackage]
         \/ /\ item.kind = "orphaned_version"
            /\ \E dir \in {NoDir} \cup Remains(disk.dirs[item.at], {}) : disk' = [disk EXCEPT !.dirs[item.at] = dir]
         \/ item.kind = "orphaned_record" /\ disk' = [disk EXCEPT !.records[item.at] = NoPackage]
         \/ disk' = [disk EXCEPT !.auths[item.at] = NoGrant]
         \/ disk' = [disk EXCEPT !.temps = disk.temps \ {item.at}]
         \/ item.kind = "retained_staging" /\ item.at = Left /\ disk' = [disk EXCEPT !.left = disk.left - 1]
         \/ \E dir \in {NoDir} \cup Remains(disk.staging[item.at], {"raided"}) : disk' = [disk EXCEPT !.staging[item.at] = dir]
         \/ item.kind = "retained_uninstall" /\ disk' = [disk EXCEPT !.tombs = disk.tombs - 1]
         \/ disk' = disk
<1>1. CASE disk' = Removed(disk, item)
  <2>1. CASE item.kind \notin {"invalid_active_record", "orphaned_version", "orphaned_record", "orphaned_authorization",
                               "temporary", "retained_staging", "retained_uninstall"}
    BY <1>1, <2>1, Zenon DEF Removed
  <2>2. CASE item.kind = "invalid_active_record"
    BY <1>1, <2>2, Zenon DEF Removed
  <2>3. CASE item.kind = "orphaned_version"
    BY <1>1, <2>3 DEF Removed
  <2>4. CASE item.kind = "orphaned_record"
    BY <1>1, <2>4 DEF Removed
  <2>5. CASE item.kind = "orphaned_authorization"
    BY <1>1, <2>5 DEF Removed
  <2>6. CASE item.kind = "temporary"
    BY <1>1, <2>6 DEF Removed
  <2>7. CASE item.kind = "retained_staging"
    BY <1>1, <2>7 DEF Removed
  <2>8. CASE item.kind = "retained_uninstall"
    BY <1>1, <2>8 DEF Removed
  <2> QED BY <2>1, <2>2, <2>3, <2>4, <2>5, <2>6, <2>7, <2>8
<1>2. CASE disk' \in HalfRemoved(disk, item)
  BY <1>2 DEF HalfRemoved
<1> QED BY <1>1, <1>2

\* Cleaning up removes what is not installed, so never the active version.
LEMMA CleanupKeeps ==
  ASSUME StoreInv, NEW q \in Processes, CleanupRemove(q), starting' = starting
  PROVE  StoreInv'
<1> DEFINE item == job[q].item
           at == item.at
<1>1. pc[q] = "remove" /\ pc[q] \in Locked /\ pc[q] \notin Uninstalls /\ Ends(q) /\ FreeLock /\ (NoFault \/ Fault)
      /\ (disk' = Removed(disk, item) \/ disk' \in HalfRemoved(disk, item))
  BY DEF CleanupRemove, Uninstalls, Locked
<1>2. lock = q /\ disk.tomb = NoDir /\ DiskTyped(disk) /\ IsDisk(disk)
  BY <1>1, OwnerAlone, TheDisk
<1>3. Takes(q, "idle", NoJob)
  BY <1>1, <1>2, EndTakes DEF LockGoes, Locked, FreeLock
<1>4. Phase(q)'
  BY <1>3, NowAt, NothingKnown
<1>5. /\ item.kind \in {"orphaned_version", "orphaned_record"} => at \in Versions /\ ~Installed(disk, at)
      /\ item.kind = "retained_staging" /\ at = Left => disk.left > 0
      /\ item.kind = "retained_uninstall" => disk.tombs > 0
  BY <1>1 DEF StoreInv, Phase, Removing
<1>6. ASSUME DiskTyped(disk'), Named' /\ Bound' /\ ActiveBound', disk'.tomb = disk.tomb,
             \A p \in Processes \ {q} : StagingKept(p)
      PROVE  StoreInv'
  BY <1>2, <1>3, <1>4, <1>6, OwnStep
\* Not one that queries accept.
<1>7. ASSUME at \in Versions, ~Installed(disk, at), at \notin disk.harmed
      PROVE  ~(Here(disk.dirs[at]) /\ disk.records[at] # NoPackage) /\ ActiveIsNot(at)
  <2>1. ~(Here(disk.dirs[at]) /\ disk.records[at] # NoPackage)
    BY <1>7 DEF StoreInv, Bound, BoundTo, Installed
  <2> QED BY <1>7, <2>1 DEF StoreInv, ActiveBound, ActiveIsNot
<1>8. ASSUME NEW fields \in SUBSET {"auths", "temps", "staging", "left", "tombs"}, Only(disk, disk', fields)
      PROVE  Named' /\ Bound' /\ ActiveBound' /\ disk'.tomb = disk.tomb
  <2>1. disk'.dirs = disk.dirs /\ disk'.records = disk.records /\ disk'.active = disk.active
        /\ disk'.harmed = disk.harmed /\ disk'.tomb = disk.tomb
    BY <1>8 DEF Only, Fields
  <2> QED BY <2>1 DEF StoreInv, Named, Bound, ActiveBound
<1>9. ASSUME disk'.staging = disk.staging PROVE \A p \in Processes : StagingKept(p)
  BY <1>9 DEF StagingKept
<1>10. CASE disk' = [disk EXCEPT !.active = NoPackage]
  <2>1. Sets(disk, disk', "active", NoPackage)
    BY <1>2, <1>10, PutField
  <2>2. Only(disk, disk', {"active"}) /\ disk'.active = NoPackage
    BY <2>1 DEF Sets
  <2>3. DiskTyped(disk') /\ disk'.tomb = disk.tomb /\ disk'.staging = disk.staging
    <3>1. DiskTyped(disk')
      BY <1>2, <2>2, TypedPut
    <3>2. disk'.tomb = disk.tomb /\ disk'.staging = disk.staging
      BY <2>2 DEF Only, Fields
    <3> QED BY <3>1, <3>2
  <2> QED BY <1>6, <1>9, <2>2, <2>3, ActiveStep
<1>11. ASSUME item.kind = "orphaned_version", NEW dir \in {NoDir} \cup Remains(disk.dirs[at], {}),
              disk' = [disk EXCEPT !.dirs[at] = dir]
       PROVE  StoreInv'
  <2> DEFINE ds == [disk.dirs EXCEPT ![at] = dir]
  <2>1. disk' = [disk EXCEPT !.dirs = ds]
    BY <1>11
  <2>2. at \in Versions /\ ~Installed(disk, at) /\ disk.dirs[at] \in Dirs
    BY <1>2, <1>5, <1>11 DEF DiskTyped
  <2>3. dir \in Dirs /\ (Here(dir) => Here(disk.dirs[at]))
    BY <1>11, <2>2, DirTypes, RemainsAre
  <2>4. ds \in [Versions -> Dirs] /\ ds[at] = dir /\ \A w \in Versions \ {at} : ds[w] = disk.dirs[w]
    BY <1>2, <2>2, <2>3 DEF DiskTyped
  <2> HIDE DEF ds, at, item
  <2>5. Sets(disk, disk', "dirs", ds)
    BY <1>2, <2>1, PutField
  <2>6. Only(disk, disk', {"dirs"}) /\ disk'.dirs = ds
    BY <2>5 DEF Sets
  <2>7. /\ DiskTyped(disk') /\ disk'.tomb = disk.tomb /\ disk'.staging = disk.staging /\ disk'.records = disk.records
        /\ disk'.active = disk.active /\ disk'.harmed = disk.harmed
    <3>1. DiskTyped(disk')
      BY <1>2, <2>4, <2>6, TypedPut
    <3>2. disk'.tomb = disk.tomb /\ disk'.staging = disk.staging /\ disk'.records = disk.records /\ disk'.active = disk.active /\ disk'.harmed = disk.harmed
      BY <2>6 DEF Only, Fields
    <3> QED BY <3>1, <3>2
  <2>8. disk.records[at] # NoPackage => VersionOf[disk.records[at]] = at
    BY <2>2 DEF StoreInv, Named
  <2>9. Named' /\ Bound' /\ ActiveBound'
    BY <1>7, <2>2, <2>3, <2>4, <2>6, <2>7, <2>8, VersionStep
  <2> QED BY <1>6, <1>9, <2>7, <2>9
<1>12. CASE item.kind = "orphaned_record" /\ disk' = [disk EXCEPT !.records[at] = NoPackage]
  <2> DEFINE rs == [disk.records EXCEPT ![at] = NoPackage]
  <2>1. disk' = [disk EXCEPT !.records = rs]
    BY <1>12
  <2>2. at \in Versions /\ ~Installed(disk, at)
    BY <1>5, <1>12
  <2>3. rs \in [Versions -> Packages \cup {NoPackage}] /\ rs[at] = NoPackage
        /\ \A w \in Versions \ {at} : rs[w] = disk.records[w]
    BY <1>2, <2>2 DEF DiskTyped
  <2> HIDE DEF rs, at, item
  <2>4. Sets(disk, disk', "records", rs)
    BY <1>2, <2>1, PutField
  <2>5. Only(disk, disk', {"records"}) /\ disk'.records = rs
    BY <2>4 DEF Sets
  <2>6. /\ DiskTyped(disk') /\ disk'.tomb = disk.tomb /\ disk'.staging = disk.staging /\ disk'.dirs = disk.dirs
        /\ disk'.active = disk.active /\ disk'.harmed = disk.harmed
    <3>1. DiskTyped(disk')
      BY <1>2, <2>3, <2>5, TypedPut
    <3>2. disk'.tomb = disk.tomb /\ disk'.staging = disk.staging /\ disk'.dirs = disk.dirs /\ disk'.active = disk.active /\ disk'.harmed = disk.harmed
      BY <2>5 DEF Only, Fields
    <3> QED BY <3>1, <3>2
  <2>7. Named' /\ Bound' /\ ActiveBound'
    BY <1>7, <2>2, <2>3, <2>5, <2>6, VersionStep
  <2> QED BY <1>6, <1>9, <2>6, <2>7
<1>13. CASE disk' = [disk EXCEPT !.auths[at] = NoGrant]
  <2> DEFINE as == [disk.auths EXCEPT ![at] = NoGrant]
  <2>1. disk' = [disk EXCEPT !.auths = as]
    BY <1>13
  <2>2. as \in [Versions -> Grants \cup {NoGrant}]
    BY <1>2 DEF DiskTyped
  <2> HIDE DEF as
  <2>3. Sets(disk, disk', "auths", as)
    BY <1>2, <2>1, PutField
  <2>4. Only(disk, disk', {"auths"}) /\ disk'.auths = as
    BY <2>3 DEF Sets
  <2>5. DiskTyped(disk') /\ disk'.staging = disk.staging
    <3>1. DiskTyped(disk')
      BY <1>2, <2>2, <2>4, TypedPut
    <3>2. disk'.staging = disk.staging
      BY <2>4 DEF Only, Fields
    <3> QED BY <3>1, <3>2
  <2> QED BY <1>6, <1>8, <1>9, <2>4, <2>5
<1>14. CASE disk' = [disk EXCEPT !.temps = disk.temps \ {at}]
  <2> DEFINE ts == disk.temps \ {at}
  <2>1. ts \subseteq Written
    BY <1>2 DEF DiskTyped
  <2>2. disk' = [disk EXCEPT !.temps = ts]
    BY <1>14
  <2> HIDE DEF ts
  <2>3. Sets(disk, disk', "temps", ts)
    BY <1>2, <2>2, PutField
  <2>4. Only(disk, disk', {"temps"}) /\ disk'.temps = ts
    BY <2>3 DEF Sets
  <2>5. DiskTyped(disk') /\ disk'.staging = disk.staging
    <3>1. DiskTyped(disk')
      BY <1>2, <2>1, <2>4, TypedPut
    <3>2. disk'.staging = disk.staging
      BY <2>4 DEF Only, Fields
    <3> QED BY <3>1, <3>2
  <2> QED BY <1>6, <1>8, <1>9, <2>4, <2>5
<1>15. CASE item.kind = "retained_staging" /\ at = Left /\ disk' = [disk EXCEPT !.left = disk.left - 1]
  <2> DEFINE n == disk.left - 1
  <2>1. n \in Nat
    <3>1. disk.left \in Nat /\ disk.left > 0
      BY <1>2, <1>5, <1>15 DEF DiskTyped
    <3> QED BY <3>1
  <2>2. disk' = [disk EXCEPT !.left = n]
    BY <1>15
  <2> HIDE DEF n
  <2>3. Sets(disk, disk', "left", n)
    BY <1>2, <2>2, PutField
  <2>4. Only(disk, disk', {"left"}) /\ disk'.left = n
    BY <2>3 DEF Sets
  <2>5. DiskTyped(disk') /\ disk'.staging = disk.staging
    <3>1. DiskTyped(disk')
      BY <1>2, <2>1, <2>4, TypedPut
    <3>2. disk'.staging = disk.staging
      BY <2>4 DEF Only, Fields
    <3> QED BY <3>1, <3>2
  <2> QED BY <1>6, <1>8, <1>9, <2>4, <2>5
<1>16. ASSUME NEW dir \in {NoDir} \cup Remains(disk.staging[at], {"raided"}), disk' = [disk EXCEPT !.staging[at] = dir]
       PROVE  StoreInv'
  <2> DEFINE st == [disk.staging EXCEPT ![at] = dir]
  <2>1. disk' = [disk EXCEPT !.staging = st]
    BY <1>16
  <2>2. ASSUME at \in Processes
        PROVE  /\ dir \in Dirs
               /\ Here(dir) => /\ Here(disk.staging[at]) /\ dir.pkg = disk.staging[at].pkg
                               /\ dir.marks = disk.staging[at].marks \cup {"raided"}
    <3>1. disk.staging[at] \in Dirs /\ {"raided"} \in SUBSET Marks
      BY <1>2, <2>2 DEF DiskTyped, Marks
    <3> QED BY <1>16, <3>1, DirTypes, RemainsAre
  <2>3. st \in [Processes -> Dirs] /\ \A p \in Processes : st[p] = IF p = at THEN dir ELSE disk.staging[p]
    BY <1>2, <2>2 DEF DiskTyped
  <2> HIDE DEF st, at, item
  <2>4. Sets(disk, disk', "staging", st)
    BY <1>2, <2>1, PutField
  <2>5. Only(disk, disk', {"staging"}) /\ disk'.staging = st
    BY <2>4 DEF Sets
  <2>6. DiskTyped(disk')
    BY <1>2, <2>3, <2>5, TypedPut
  <2>7. \A p \in Processes : StagingKept(p)
    BY <2>2, <2>3, <2>5 DEF StagingKept
  <2> QED BY <1>6, <1>8, <2>5, <2>6, <2>7
<1>17. CASE item.kind = "retained_uninstall" /\ disk' = [disk EXCEPT !.tombs = disk.tombs - 1]
  <2> DEFINE n == disk.tombs - 1
  <2>1. n \in Nat
    <3>1. disk.tombs \in Nat /\ disk.tombs > 0
      BY <1>2, <1>5, <1>17 DEF DiskTyped
    <3> QED BY <3>1
  <2>2. disk' = [disk EXCEPT !.tombs = n]
    BY <1>17
  <2> HIDE DEF n
  <2>3. Sets(disk, disk', "tombs", n)
    BY <1>2, <2>2, PutField
  <2>4. Only(disk, disk', {"tombs"}) /\ disk'.tombs = n
    BY <2>3 DEF Sets
  <2>5. DiskTyped(disk') /\ disk'.staging = disk.staging
    <3>1. DiskTyped(disk')
      BY <1>2, <2>1, <2>4, TypedPut
    <3>2. disk'.staging = disk.staging
      BY <2>4 DEF Only, Fields
    <3> QED BY <3>1, <3>2
  <2> QED BY <1>6, <1>8, <1>9, <2>4, <2>5
<1>18. CASE disk' = disk
  BY <1>1, <1>3, <1>4, <1>18, StillStep
<1> HIDE DEF item
<1> QED BY <1>1, <1>10, <1>11, <1>12, <1>13, <1>14, <1>15, <1>16, <1>17, <1>18, CleanupWrites

---------------------------------------------------------------------------
(* The steps of an uninstall *)

\* What an uninstall knows at each of its steps.
LEMMA AtUninstall ==
  ASSUME StoreInv, NEW q \in Processes, pc[q] \in Uninstalls
  PROVE  /\ pc[q] \in Locked /\ lock = q /\ DiskTyped(disk) /\ IsDisk(disk) /\ IsJob(job[q]) /\ job[q].v \in Versions
         /\ job[q].pkg \in Packages /\ VersionOf[job[q].pkg] = job[q].v
         /\ job[q].dir \in Dirs /\ HasManifest(job[q].dir)
         /\ job[q].v \notin disk.harmed => BoundTo(job[q].dir, job[q].pkg)
         /\ ActiveIsNot(job[q].v) /\ Uninstall(q) /\ Reported(q)
<1>1. pc[q] \in Locked /\ pc[q] # "idle"
  BY DEF Uninstalls, Locked
<1> QED BY <1>1, OwnerAlone, TheDisk DEF StoreInv, Jobs, Phase, Found, OfItsVersion

\* A step of an uninstall keeps the invariant if it keeps what holds always and what the uninstall knows.
LEMMA WorkKeeps ==
  ASSUME StoreInv, NEW q \in Processes, pc[q] \in Uninstalls, NEW s \in Uninstalls, NEW w, Uninstalling(q, s, w),
         NoFault \/ Fault, starting' = starting,
         IsJob(w), w.v = job[q].v, w.grants = job[q].grants, w.pkg = job[q].pkg, w.dir = job[q].dir,
         DiskTyped(disk'), disk'.staging = disk.staging, disk'.harmed = disk.harmed, disk'.active = disk.active,
         Named' /\ Bound' /\ ActiveBound',
         pc'[q] = s /\ job'[q] = w => Uninstall(q)' /\ Reported(q)'
  PROVE  StoreInv'
<1>1. pc[q] \in Locked /\ lock = q /\ s \in Locked
  BY AtUninstall DEF Uninstalls, Locked
<1>2. Takes(q, s, w)
  BY <1>1, WorkTakes
<1>3. pc'[q] = s /\ job'[q] = w
  BY <1>2, NowAt
<1>4. Found(q)'
  BY <1>3, AtUninstall DEF Found, OfItsVersion, ActiveIsNot
<1>5. Phase(q)'
  BY <1>3, <1>4, PhaseAt
<1>6. \A p \in Processes : StagingKept(p)
  BY DEF StagingKept
<1> QED BY <1>1, <1>2, <1>5, <1>6, OwnStep

\* ... when the disk is as it was,
LEMMA WorkAside ==
  ASSUME StoreInv, NEW q \in Processes, pc[q] \in Uninstalls, NEW s \in Uninstalls, NEW w, Uninstalling(q, s, w),
         NoFault \/ Fault, starting' = starting,
         IsJob(w), w.v = job[q].v, w.grants = job[q].grants, w.pkg = job[q].pkg, w.dir = job[q].dir,
         disk' = disk,
         pc'[q] = s /\ job'[q] = w => Uninstall(q)' /\ Reported(q)'
  PROVE  StoreInv'
<1>1. DiskTyped(disk') /\ Named' /\ Bound' /\ ActiveBound'
  BY TheDisk DEF StoreInv, Named, Bound, ActiveBound
<1> QED BY <1>1, WorkKeeps

\* ... and when the version is all that changes in it.
LEMMA WorkThere ==
  ASSUME StoreInv, NEW q \in Processes, pc[q] \in Uninstalls, NEW s \in Uninstalls, NEW w, Uninstalling(q, s, w),
         NoFault \/ Fault, starting' = starting,
         IsJob(w), w.v = job[q].v, w.grants = job[q].grants, w.pkg = job[q].pkg, w.dir = job[q].dir,
         NEW fields \in SUBSET {"dirs", "records", "auths", "tomb", "profile"}, Only(disk, disk', fields), DiskTyped(disk'),
         \A u \in Versions \ {job[q].v} : disk'.dirs[u] = disk.dirs[u] /\ disk'.records[u] = disk.records[u],
         disk'.records[job[q].v] \in {disk.records[job[q].v], NoPackage, job[q].pkg},
         Here(disk'.dirs[job[q].v]) /\ disk'.records[job[q].v] # NoPackage =>
           \/ disk'.dirs[job[q].v] = disk.dirs[job[q].v] /\ disk'.records[job[q].v] = disk.records[job[q].v]
           \/ disk'.dirs[job[q].v] = job[q].dir /\ disk'.records[job[q].v] = job[q].pkg,
         pc'[q] = s /\ job'[q] = w => Uninstall(q)' /\ Reported(q)'
  PROVE  StoreInv'
<1>1. disk'.staging = disk.staging /\ disk'.harmed = disk.harmed /\ disk'.active = disk.active
  BY DEF Only, Fields
<1>2. /\ job[q].v \in Versions /\ VersionOf[job[q].pkg] = job[q].v /\ ActiveIsNot(job[q].v)
      /\ job[q].v \notin disk.harmed => BoundTo(job[q].dir, job[q].pkg)
  BY AtUninstall
<1>3. disk'.records[job[q].v] # NoPackage => VersionOf[disk'.records[job[q].v]] = job[q].v
  BY <1>2 DEF StoreInv, Named
<1>4. job[q].v \notin disk.harmed /\ Here(disk'.dirs[job[q].v]) /\ disk'.records[job[q].v] # NoPackage =>
        BoundTo(disk'.dirs[job[q].v], disk'.records[job[q].v])
  BY <1>2 DEF StoreInv, Bound
<1>5. Named' /\ Bound' /\ ActiveBound'
  BY <1>1, <1>2, <1>3, <1>4, VersionStep
<1> QED BY <1>1, <1>5, WorkKeeps

\* Moving the directory away is what makes the version not installed.
LEMMA DetachKeeps ==
  ASSUME StoreInv, NEW q \in Processes, Detach(q), starting' = starting
  PROVE  StoreInv'
<1> DEFINE v == job[q].v
           ds == [disk.dirs EXCEPT ![v] = NoDir]
           w == [job[q] EXCEPT !.removed = TRUE]
<1>1. pc[q] = "detach" /\ pc[q] \in Uninstalls
  BY DEF Detach, Uninstalls
<1>2. /\ DiskTyped(disk) /\ IsDisk(disk) /\ IsJob(job[q]) /\ v \in Versions
      /\ disk.dirs[v] = job[q].dir /\ disk.tomb = NoDir /\ disk.records[v] = job[q].pkg
      /\ ~job[q].gone /\ ~job[q].ok /\ ~job[q].removed /\ HasProfile(q)
  BY <1>1, AtUninstall DEF Uninstall, InPlace, HasRecord
<1>3. ASSUME disk' = disk, Fault, Uninstalling(q, "report", job[q]) PROVE StoreInv'
  <2>1. "report" \in Uninstalls
    BY DEF Uninstalls
  <2>2. job[q].profile => disk.profile
    BY <1>2, Zenon DEF HasProfile
  <2>3. pc'[q] = "report" /\ job'[q] = job[q] => Uninstall(q)' /\ Reported(q)'
    BY <1>2, <1>3, <2>2 DEF Uninstall, Reported, InPlace, HasRecord
  <2> QED BY <1>1, <1>2, <1>3, <2>1, <2>3, WorkAside
<1>4. ASSUME disk' = [disk EXCEPT !.tomb = disk.dirs[v], !.dirs[v] = NoDir], NoFault, NEW s \in {"profile", "unrecord"},
             Uninstalling(q, s, w)
      PROVE  StoreInv'
  <2>1. /\ IsJob(w) /\ w.v = job[q].v /\ w.pkg = job[q].pkg /\ w.grants = job[q].grants /\ w.dir = job[q].dir
        /\ w.profile = job[q].profile /\ w.gone = job[q].gone /\ w.undone = job[q].undone /\ w.ok = job[q].ok
        /\ w.removed = TRUE
    <3>1. JobSets(job[q], w, "removed", TRUE)
      BY <1>2, JobPut
    <3> HIDE DEF w
    <3> QED BY <3>1 DEF JobSets
  <2> HIDE DEF w
  <2>2. disk' = [disk EXCEPT !.tomb = job[q].dir, !.dirs = ds]
    BY <1>2, <1>4
  <2>3. ds \in [Versions -> Dirs] /\ ds[v] = NoDir /\ \A u \in Versions \ {v} : ds[u] = disk.dirs[u]
    BY <1>2, DirTypes DEF DiskTyped
  <2> HIDE DEF ds
  <2>4. Sets2(disk, disk', "tomb", job[q].dir, "dirs", ds)
    BY <1>2, <2>2, PutTombDirs
  <2>5. Only(disk, disk', {"tomb", "dirs"}) /\ disk'.tomb = job[q].dir /\ disk'.dirs = ds
    BY <2>4 DEF Sets2
  <2>6. DiskTyped(disk')
    BY <1>1, <1>2, <2>3, <2>5, AtUninstall, TypedPut
  <2>7. disk'.records = disk.records /\ disk'.profile = disk.profile
    BY <2>5 DEF Only, Fields
  <2>8. pc'[q] = s /\ job'[q] = w => Uninstall(q)' /\ Reported(q)'
    BY <1>2, <2>1, <2>3, <2>5, <2>7 DEF Uninstall, Reported, InTomb, HasRecord, HasProfile
  <2>9. s \in Uninstalls
    BY DEF Uninstalls
  <2> HIDE DEF v
  <2> QED BY <1>1, <1>2, <1>4, <2>1, <2>3, <2>5, <2>6, <2>7, <2>8, <2>9, DirTypes, WorkThere DEF v
<1> HIDE DEF v, w
<1> QED BY <1>3, <1>4 DEF Detach, v, w

\* The profile goes, or the rollback starts with the record still there.
LEMMA DeleteProfileKeeps ==
  ASSUME StoreInv, NEW q \in Processes, DeleteProfile(q), starting' = starting
  PROVE  StoreInv'
<1> DEFINE v == job[q].v
<1>1. pc[q] = "profile" /\ pc[q] \in Uninstalls
  BY DEF DeleteProfile, Uninstalls
<1>2. /\ DiskTyped(disk) /\ IsDisk(disk) /\ IsJob(job[q]) /\ v \in Versions /\ job[q].dir \in Dirs /\ job[q].pkg \in Packages
      /\ disk.dirs[v] = NoDir /\ disk.tomb = job[q].dir /\ disk.records[v] = job[q].pkg
      /\ ~job[q].ok /\ job[q].removed /\ HasProfile(q)
  BY <1>1, AtUninstall DEF Uninstall, InTomb, HasRecord
<1>3. ASSUME disk' = disk, Fault, NEW w, w = [job[q] EXCEPT !.undone = TRUE], Uninstalling(q, "restoreDir", w) PROVE StoreInv'
  <2>1. JobSets(job[q], w, "undone", TRUE)
    BY <1>2, <1>3, JobPut
  <2>2. "restoreDir" \in Uninstalls
    BY DEF Uninstalls
  <2>3. pc'[q] = "restoreDir" /\ job'[q] = w => Uninstall(q)' /\ Reported(q)'
    BY <1>2, <1>3, <2>1 DEF JobSets, Uninstall, Reported, InPlace, InTomb, HasRecord, NoRecord, HasProfile
  <2>4. IsJob(w) /\ w.v = job[q].v /\ w.grants = job[q].grants /\ w.pkg = job[q].pkg /\ w.dir = job[q].dir
    BY <2>1 DEF JobSets
  <2> QED BY <1>1, <1>3, <2>2, <2>3, <2>4, WorkAside
<1>4. ASSUME disk' = [disk EXCEPT !.profile = FALSE], NoFault, NEW w, w = [job[q] EXCEPT !.gone = TRUE],
             Uninstalling(q, "unrecord", w)
      PROVE  StoreInv'
  <2>1. JobSets(job[q], w, "gone", TRUE)
    BY <1>2, <1>4, JobPut
  <2>2. "unrecord" \in Uninstalls
    BY DEF Uninstalls
  <2>3. Sets(disk, disk', "profile", FALSE)
    BY <1>2, <1>4, PutField
  <2>4. Only(disk, disk', {"profile"}) /\ disk'.profile = FALSE
    BY <2>3 DEF Sets
  <2>5. disk'.dirs = disk.dirs /\ disk'.records = disk.records /\ disk'.tomb = disk.tomb
    BY <2>4 DEF Only, Fields
  <2>6. DiskTyped(disk')
    BY <1>2, <2>4, TypedPut
  <2>7. pc'[q] = "unrecord" /\ job'[q] = w => Uninstall(q)' /\ Reported(q)'
    BY <1>2, <2>1, <2>5 DEF JobSets, Uninstall, Reported, InPlace, InTomb, HasRecord, NoRecord, HasProfile
  <2>8. IsJob(w) /\ w.v = job[q].v /\ w.grants = job[q].grants /\ w.pkg = job[q].pkg /\ w.dir = job[q].dir
    BY <2>1 DEF JobSets
  <2> HIDE DEF v
  <2>9. (NoFault \/ Fault) /\ {"profile"} \in SUBSET {"dirs", "records", "auths", "tomb", "profile"}
    BY <1>4
  <2>10. /\ \A u \in Versions \ {job[q].v} : disk'.dirs[u] = disk.dirs[u] /\ disk'.records[u] = disk.records[u]
         /\ disk'.records[job[q].v] = disk.records[job[q].v] /\ disk'.dirs[job[q].v] = disk.dirs[job[q].v]
    BY <2>5
  <2>11. Uninstalling(q, "unrecord", w)
    BY <1>4
  <2> QED BY <1>1, <2>2, <2>4, <2>6, <2>7, <2>8, <2>9, <2>10, <2>11, WorkThere
<1> HIDE DEF v
<1> QED BY <1>3, <1>4 DEF DeleteProfile

\* The record goes, or the rollback puts back what is gone.
LEMMA DeleteRecordKeeps ==
  ASSUME StoreInv, NEW q \in Processes, DeleteRecord(q), starting' = starting
  PROVE  StoreInv'
<1> DEFINE v == job[q].v
<1>1. pc[q] = "unrecord" /\ pc[q] \in Uninstalls
  BY DEF DeleteRecord, Uninstalls
<1>2. /\ DiskTyped(disk) /\ IsDisk(disk) /\ IsJob(job[q]) /\ v \in Versions /\ job[q].dir \in Dirs /\ job[q].pkg \in Packages
      /\ disk.dirs[v] = NoDir /\ disk.tomb = job[q].dir /\ disk.records[v] = job[q].pkg
      /\ ~job[q].ok /\ job[q].removed /\ HasProfile(q)
  BY <1>1, AtUninstall DEF Uninstall, InTomb, HasRecord
<1>3. ASSUME disk' = disk, Fault, NEW w, w = [job[q] EXCEPT !.undone = TRUE], Uninstalling(q, "restoreDir", w) PROVE StoreInv'
  <2>1. JobSets(job[q], w, "undone", TRUE)
    BY <1>2, <1>3, JobPut
  <2>2. "restoreDir" \in Uninstalls
    BY DEF Uninstalls
  <2>3. pc'[q] = "restoreDir" /\ job'[q] = w => Uninstall(q)' /\ Reported(q)'
    BY <1>2, <1>3, <2>1 DEF JobSets, Uninstall, Reported, InPlace, InTomb, HasRecord, NoRecord, HasProfile
  <2>4. IsJob(w) /\ w.v = job[q].v /\ w.grants = job[q].grants /\ w.pkg = job[q].pkg /\ w.dir = job[q].dir
    BY <2>1 DEF JobSets
  <2> QED BY <1>1, <1>3, <2>2, <2>3, <2>4, WorkAside
<1>4. ASSUME disk' = [disk EXCEPT !.records[v] = NoPackage], NoFault, Uninstalling(q, "ungrant", job[q]) PROVE StoreInv'
  <2> DEFINE x == [disk.records EXCEPT ![v] = NoPackage]
  <2>1. disk' = [disk EXCEPT !.records = x]
    BY <1>4
  <2>2. x \in [Versions -> Packages \cup {NoPackage}] /\ x[v] = NoPackage /\ \A u \in Versions \ {v} : x[u] = disk.records[u]
    BY <1>2 DEF DiskTyped
  <2> HIDE DEF x
  <2>3. Sets(disk, disk', "records", x)
    BY <1>2, <2>1, PutField
  <2>4. Only(disk, disk', {"records"}) /\ disk'.records = x
    BY <2>3 DEF Sets
  <2>5. disk'.dirs = disk.dirs /\ disk'.tomb = disk.tomb /\ disk'.profile = disk.profile
    BY <2>4 DEF Only, Fields
  <2>6. DiskTyped(disk')
    BY <1>2, <2>2, <2>4, TypedPut
  <2>7. "ungrant" \in Uninstalls
    BY DEF Uninstalls
  <2>9. IsJob(job[q])
    BY <1>2
  <2>10. pc'[q] = "ungrant" /\ job'[q] = job[q] => Uninstall(q)' /\ Reported(q)'
    BY <1>2, <2>2, <2>4, <2>5 DEF Uninstall, Reported, InPlace, InTomb, HasRecord, NoRecord, HasProfile
  <2> HIDE DEF v
  <2> QED BY <1>1, <1>2, <1>4, <2>2, <2>4, <2>5, <2>6, <2>7, <2>9, <2>10, DirTypes, WorkThere DEF v
<1> HIDE DEF v
<1> QED BY <1>3, <1>4 DEF DeleteRecord, v

\* The authorization goes, or the rollback puts back what is gone.
LEMMA DeleteGrantKeeps ==
  ASSUME StoreInv, NEW q \in Processes, DeleteGrant(q), starting' = starting
  PROVE  StoreInv'
<1> DEFINE v == job[q].v
<1>1. pc[q] = "ungrant" /\ pc[q] \in Uninstalls
  BY DEF DeleteGrant, Uninstalls
<1>2. /\ DiskTyped(disk) /\ IsDisk(disk) /\ IsJob(job[q]) /\ v \in Versions /\ job[q].dir \in Dirs /\ job[q].pkg \in Packages
      /\ disk.dirs[v] = NoDir /\ disk.tomb = job[q].dir /\ disk.records[v] = NoPackage
      /\ ~job[q].ok /\ job[q].removed /\ HasProfile(q)
  BY <1>1, AtUninstall DEF Uninstall, InTomb, NoRecord
<1>3. ASSUME disk' = disk, Fault, NEW w, w = [job[q] EXCEPT !.undone = TRUE], Uninstalling(q, "restoreRecord", w) PROVE StoreInv'
  <2>1. JobSets(job[q], w, "undone", TRUE)
    BY <1>2, <1>3, JobPut
  <2>2. "restoreRecord" \in Uninstalls
    BY DEF Uninstalls
  <2>3. pc'[q] = "restoreRecord" /\ job'[q] = w => Uninstall(q)' /\ Reported(q)'
    BY <1>2, <1>3, <2>1 DEF JobSets, Uninstall, Reported, InPlace, InTomb, HasRecord, NoRecord, HasProfile
  <2>4. IsJob(w) /\ w.v = job[q].v /\ w.grants = job[q].grants /\ w.pkg = job[q].pkg /\ w.dir = job[q].dir
    BY <2>1 DEF JobSets
  <2> QED BY <1>1, <1>3, <2>2, <2>3, <2>4, WorkAside
<1>4. ASSUME disk' = [disk EXCEPT !.auths[v] = NoGrant], NoFault, NEW w, w = [job[q] EXCEPT !.raced = GrantUnderWay(v)],
             Uninstalling(q, "untomb", w)
      PROVE  StoreInv'
  <2> DEFINE x == [disk.auths EXCEPT ![v] = NoGrant]
  <2>1. disk' = [disk EXCEPT !.auths = x]
    BY <1>4
  <2>2. x \in [Versions -> Grants \cup {NoGrant}]
    BY <1>2 DEF DiskTyped
  <2> HIDE DEF x
  <2>3. Sets(disk, disk', "auths", x)
    BY <1>2, <2>1, PutField
  <2>4. Only(disk, disk', {"auths"}) /\ disk'.auths = x
    BY <2>3 DEF Sets
  <2>5. disk'.dirs = disk.dirs /\ disk'.tomb = disk.tomb /\ disk'.profile = disk.profile /\ disk'.records = disk.records
    BY <2>4 DEF Only, Fields
  <2>6. DiskTyped(disk')
    BY <1>2, <2>2, <2>4, TypedPut
  <2>7. "untomb" \in Uninstalls
    BY DEF Uninstalls
  <2>8. JobSets(job[q], w, "raced", GrantUnderWay(v))
    BY <1>2, <1>4, JobPut
  <2>9. IsJob(w) /\ w.v = job[q].v /\ w.grants = job[q].grants /\ w.pkg = job[q].pkg /\ w.dir = job[q].dir
        /\ w.ok = job[q].ok /\ w.removed = job[q].removed /\ w.gone = job[q].gone /\ w.profile = job[q].profile
    BY <2>8 DEF JobSets
  <2>10. pc'[q] = "untomb" /\ job'[q] = w => Uninstall(q)' /\ Reported(q)'
    BY <1>2, <2>2, <2>4, <2>5, <2>9 DEF Uninstall, Reported, InPlace, InTomb, HasRecord, NoRecord, HasProfile
  <2>11. Uninstalling(q, "untomb", w) /\ NoFault
    BY <1>4
  <2> HIDE DEF v
  <2> QED BY <1>1, <1>2, <2>2, <2>4, <2>5, <2>6, <2>7, <2>9, <2>10, <2>11, DirTypes, WorkThere DEF v
<1> HIDE DEF v
<1> QED BY <1>3, <1>4 DEF DeleteGrant, v

\* The tombstone goes and the uninstall has succeeded, or it stays for the scan.
LEMMA DeleteTombKeeps ==
  ASSUME StoreInv, NEW q \in Processes, DeleteTomb(q), starting' = starting
  PROVE  StoreInv'
<1> DEFINE v == job[q].v
<1>1. pc[q] = "untomb" /\ pc[q] \in Uninstalls
  BY DEF DeleteTomb, Uninstalls
<1>2. /\ DiskTyped(disk) /\ IsDisk(disk) /\ IsJob(job[q]) /\ v \in Versions /\ job[q].dir \in Dirs /\ job[q].pkg \in Packages
      /\ disk.dirs[v] = NoDir /\ disk.tomb = job[q].dir /\ disk.records[v] = NoPackage
      /\ ~job[q].ok /\ job[q].removed /\ HasProfile(q)
  BY <1>1, AtUninstall DEF Uninstall, InTomb, NoRecord
<1>3. ASSUME disk' = disk, Fault, Uninstalling(q, "report", job[q]) PROVE StoreInv'
  <2>1. "report" \in Uninstalls
    BY DEF Uninstalls
  <2>2. pc'[q] = "report" /\ job'[q] = job[q] => Uninstall(q)' /\ Reported(q)'
    BY <1>2, <1>3 DEF Uninstall, Reported, InPlace, InTomb, HasRecord, NoRecord, HasProfile
  <2> QED BY <1>1, <1>2, <1>3, <2>1, <2>2, WorkAside
<1>4. ASSUME disk' = [disk EXCEPT !.tomb = NoDir], NoFault, NEW w, w = [job[q] EXCEPT !.ok = TRUE], Uninstalling(q, "report", w) PROVE StoreInv'
  <2> DEFINE x == NoDir
  <2>1. disk' = [disk EXCEPT !.tomb = x]
    BY <1>4
  <2>2. x = NoDir /\ x \in Dirs
    BY DirTypes
  <2> HIDE DEF x
  <2>3. Sets(disk, disk', "tomb", x)
    BY <1>2, <2>1, PutField
  <2>4. Only(disk, disk', {"tomb"}) /\ disk'.tomb = x
    BY <2>3 DEF Sets
  <2>5. disk'.dirs = disk.dirs /\ disk'.profile = disk.profile /\ disk'.records = disk.records
    BY <2>4 DEF Only, Fields
  <2>6. DiskTyped(disk')
    BY <1>2, <2>2, <2>4, TypedPut
  <2>7. "report" \in Uninstalls
    BY DEF Uninstalls
  <2>8. JobSets(job[q], w, "ok", TRUE)
    BY <1>2, <1>4, JobPut
  <2>9. IsJob(w) /\ w.v = job[q].v /\ w.grants = job[q].grants /\ w.pkg = job[q].pkg /\ w.dir = job[q].dir
    BY <2>8 DEF JobSets
  <2>10. pc'[q] = "report" /\ job'[q] = w => Uninstall(q)' /\ Reported(q)'
    BY <1>2, <2>2, <2>4, <2>5, <2>8 DEF JobSets, Uninstall, Reported, InPlace, InTomb, HasRecord, NoRecord, HasProfile
  <2> HIDE DEF v
  <2>11. Uninstalling(q, "report", w) /\ NoFault
    BY <1>4
  <2> QED BY <1>1, <2>4, <2>5, <2>6, <2>7, <2>9, <2>10, <2>11, WorkThere
<1> HIDE DEF v
<1> QED BY <1>3, <1>4 DEF DeleteTomb, v

\* The rollback writes the record again or notes that it could not.
LEMMA RestoreRecordKeeps ==
  ASSUME StoreInv, NEW q \in Processes, RestoreRecord(q), starting' = starting
  PROVE  StoreInv'
<1> DEFINE v == job[q].v
<1>1. pc[q] = "restoreRecord" /\ pc[q] \in Uninstalls
  BY DEF RestoreRecord, Uninstalls
<1>2. /\ DiskTyped(disk) /\ IsDisk(disk) /\ IsJob(job[q]) /\ v \in Versions /\ job[q].dir \in Dirs /\ job[q].pkg \in Packages
      /\ disk.dirs[v] = NoDir /\ disk.tomb = job[q].dir /\ disk.records[v] = NoPackage
      /\ ~job[q].ok /\ job[q].removed /\ HasProfile(q)
  BY <1>1, AtUninstall DEF Uninstall, InTomb, NoRecord
<1>3. ASSUME disk' = disk, Fault, NEW w, w = [job[q] EXCEPT !.undone = FALSE], Uninstalling(q, "restoreDir", w) PROVE StoreInv'
  <2>1. JobSets(job[q], w, "undone", FALSE)
    BY <1>2, <1>3, JobPut
  <2>2. "restoreDir" \in Uninstalls
    BY DEF Uninstalls
  <2>3. pc'[q] = "restoreDir" /\ job'[q] = w => Uninstall(q)' /\ Reported(q)'
    BY <1>2, <1>3, <2>1 DEF JobSets, Uninstall, Reported, InPlace, InTomb, HasRecord, NoRecord, HasProfile
  <2>4. IsJob(w) /\ w.v = job[q].v /\ w.grants = job[q].grants /\ w.pkg = job[q].pkg /\ w.dir = job[q].dir
    BY <2>1 DEF JobSets
  <2> QED BY <1>1, <1>3, <2>2, <2>3, <2>4, WorkAside
<1>4. ASSUME disk' = [disk EXCEPT !.records[v] = job[q].pkg], NoFault, Uninstalling(q, "restoreDir", job[q]) PROVE StoreInv'
  <2> DEFINE x == [disk.records EXCEPT ![v] = job[q].pkg]
  <2>1. disk' = [disk EXCEPT !.records = x]
    BY <1>4
  <2>2. x \in [Versions -> Packages \cup {NoPackage}] /\ x[v] = job[q].pkg /\ \A u \in Versions \ {v} : x[u] = disk.records[u]
    BY <1>2 DEF DiskTyped
  <2> HIDE DEF x
  <2>3. Sets(disk, disk', "records", x)
    BY <1>2, <2>1, PutField
  <2>4. Only(disk, disk', {"records"}) /\ disk'.records = x
    BY <2>3 DEF Sets
  <2>5. disk'.dirs = disk.dirs /\ disk'.tomb = disk.tomb /\ disk'.profile = disk.profile
    BY <2>4 DEF Only, Fields
  <2>6. DiskTyped(disk')
    BY <1>2, <2>2, <2>4, TypedPut
  <2>7. "restoreDir" \in Uninstalls
    BY DEF Uninstalls
  <2>9. IsJob(job[q])
    BY <1>2
  <2>10. pc'[q] = "restoreDir" /\ job'[q] = job[q] => Uninstall(q)' /\ Reported(q)'
    BY <1>2, <2>2, <2>4, <2>5 DEF Uninstall, Reported, InPlace, InTomb, HasRecord, NoRecord, HasProfile
  <2> HIDE DEF v
  <2> QED BY <1>1, <1>2, <1>4, <2>2, <2>4, <2>5, <2>6, <2>7, <2>9, <2>10, DirTypes, WorkThere DEF v
<1> HIDE DEF v
<1> QED BY <1>3, <1>4 DEF RestoreRecord, v

\* The rollback moves the directory back or notes that it could not.
LEMMA RestoreDirKeeps ==
  ASSUME StoreInv, NEW q \in Processes, RestoreDir(q), starting' = starting
  PROVE  StoreInv'
<1> DEFINE v == job[q].v
<1>1. pc[q] = "restoreDir" /\ pc[q] \in Uninstalls
  BY DEF RestoreDir, Uninstalls
<1>2. /\ DiskTyped(disk) /\ IsDisk(disk) /\ IsJob(job[q]) /\ v \in Versions /\ job[q].dir \in Dirs /\ job[q].pkg \in Packages
      /\ disk.dirs[v] = NoDir /\ disk.tomb = job[q].dir /\ (disk.records[v] = job[q].pkg \/ (disk.records[v] = NoPackage /\ ~job[q].undone))
      /\ ~job[q].ok /\ job[q].removed /\ HasProfile(q)
  BY <1>1, AtUninstall DEF Uninstall, InTomb, HasRecord, NoRecord
<1>3. ASSUME disk' = disk, Fault, NEW w, w = [job[q] EXCEPT !.undone = FALSE], Uninstalling(q, "restoreProfile", w) PROVE StoreInv'
  <2>1. JobSets(job[q], w, "undone", FALSE)
    BY <1>2, <1>3, JobPut
  <2>2. "restoreProfile" \in Uninstalls
    BY DEF Uninstalls
  <2>3. pc'[q] = "restoreProfile" /\ job'[q] = w => Uninstall(q)' /\ Reported(q)'
    BY <1>2, <1>3, <2>1 DEF JobSets, Uninstall, Reported, InPlace, InTomb, HasRecord, NoRecord, HasProfile
  <2>4. IsJob(w) /\ w.v = job[q].v /\ w.grants = job[q].grants /\ w.pkg = job[q].pkg /\ w.dir = job[q].dir
    BY <2>1 DEF JobSets
  <2> QED BY <1>1, <1>3, <2>2, <2>3, <2>4, WorkAside
<1>4. ASSUME disk' = [disk EXCEPT !.dirs[v] = disk.tomb, !.tomb = NoDir], NoFault, Uninstalling(q, "restoreProfile", job[q])
      PROVE  StoreInv'
  <2> DEFINE x == [disk.dirs EXCEPT ![v] = disk.tomb]
  <2>1. disk' = [disk EXCEPT !.dirs = x, !.tomb = NoDir]
    BY <1>4
  <2>2. x \in [Versions -> Dirs] /\ x[v] = job[q].dir /\ \A u \in Versions \ {v} : x[u] = disk.dirs[u]
    BY <1>2 DEF DiskTyped
  <2> HIDE DEF x
  <2>3. Sets2(disk, disk', "dirs", x, "tomb", NoDir)
    BY <1>2, <2>1, PutDirsTomb
  <2>4. Only(disk, disk', {"tomb", "dirs"}) /\ disk'.dirs = x /\ disk'.tomb = NoDir
    BY <2>3 DEF Sets2, Only
  <2>5. disk'.records = disk.records /\ disk'.profile = disk.profile
    BY <2>4 DEF Only, Fields
  <2>6. DiskTyped(disk')
    BY <1>2, <2>2, <2>4, DirTypes, TypedPut
  <2>7. "restoreProfile" \in Uninstalls
    BY DEF Uninstalls
  <2>8. pc'[q] = "restoreProfile" /\ job'[q] = job[q] => Uninstall(q)' /\ Reported(q)'
    BY <1>2, <2>2, <2>4, <2>5 DEF Uninstall, Reported, InPlace, InTomb, HasRecord, NoRecord, HasProfile
  <2> HIDE DEF v
  <2> QED BY <1>1, <1>2, <1>4, <2>2, <2>4, <2>5, <2>6, <2>7, <2>8, WorkThere DEF v
<1> HIDE DEF v
<1> QED BY <1>3, <1>4 DEF RestoreDir, v

\* The rollback registers the profile again; only when all came back the version counts as not removed.
LEMMA RestoreProfileKeeps ==
  ASSUME StoreInv, NEW q \in Processes, RestoreProfile(q), starting' = starting
  PROVE  StoreInv'
<1> DEFINE v == job[q].v
           restored == disk.profile \/ job[q].gone
           removed == ~job[q].undone
<1>1. pc[q] = "restoreProfile" /\ pc[q] \in Uninstalls /\ "report" \in Uninstalls
  BY DEF RestoreProfile, Uninstalls
<1>2. /\ DiskTyped(disk) /\ IsDisk(disk) /\ IsJob(job[q])
      /\ \/ InPlace(q) /\ HasRecord(q)
         \/ ~job[q].undone /\ (InPlace(q) \/ InTomb(q))
      /\ ~job[q].ok /\ job[q].removed /\ HasProfile(q)
  BY <1>1, AtUninstall DEF Uninstall
<1>3. ASSUME disk' = disk, Fault, Uninstalling(q, "report", job[q]) PROVE StoreInv'
  <2>1. pc'[q] = "report" /\ job'[q] = job[q] => Uninstall(q)' /\ Reported(q)'
    BY <1>2, <1>3 DEF Uninstall, Reported, InPlace, InTomb, HasRecord
  <2> QED BY <1>1, <1>2, <1>3, <2>1, WorkAside
<1>4. ASSUME disk' = [disk EXCEPT !.profile = restored], NoFault, NEW w, w = [job[q] EXCEPT !.removed = removed],
             Uninstalling(q, "report", w)
      PROVE  StoreInv'
  <2>1. restored \in BOOLEAN /\ (job[q].profile => restored) /\ (removed \/ job[q].undone) /\ (job[q].undone => ~removed)
    <3>1. restored \in BOOLEAN
      BY Zenon
    <3>2. job[q].profile => restored
      BY <1>2, Zenon DEF HasProfile
    <3> QED BY <3>1, <3>2, Zenon
  <2>2. disk' = [disk EXCEPT !.profile = restored]
    BY <1>4
  <2>3. w = [job[q] EXCEPT !.removed = removed]
    BY <1>4
  <2> HIDE DEF restored, removed
  <2>4. Sets(disk, disk', "profile", restored)
    BY <1>2, <2>2, PutField
  <2>5. Only(disk, disk', {"profile"}) /\ disk'.profile = restored
    BY <2>4 DEF Sets
  <2>6. disk'.dirs = disk.dirs /\ disk'.records = disk.records /\ disk'.tomb = disk.tomb
    BY <2>5 DEF Only, Fields
  <2>7. DiskTyped(disk')
    BY <1>2, <2>1, <2>5, TypedPut
  <2>8. JobSets(job[q], w, "removed", removed)
    BY <1>2, <2>3, JobPut
  <2>9. IsJob(w) /\ w.v = job[q].v /\ w.grants = job[q].grants /\ w.pkg = job[q].pkg /\ w.dir = job[q].dir
        /\ w.profile = job[q].profile /\ w.ok = job[q].ok /\ w.removed = removed
    BY <2>8 DEF JobSets
  <2>10. ASSUME pc'[q] = "report", job'[q] = w PROVE Uninstall(q)' /\ Reported(q)'
    <3>1. Uninstall(q)'
      BY <2>10 DEF Uninstall
    <3>2. (InPlace(q)' <=> InPlace(q)) /\ (InTomb(q)' <=> InTomb(q)) /\ (HasRecord(q)' <=> HasRecord(q))
      BY <2>6, <2>9, <2>10 DEF InPlace, InTomb, HasRecord
    <3>3. job[q].profile => disk'.profile
      BY <2>1, <2>5
    <3>4. ~job'[q].ok /\ (job'[q].profile => job[q].profile) /\ (job'[q].removed \/ job[q].undone)
          /\ (job[q].undone => ~job'[q].removed)
      BY <1>2, <2>1, <2>9, <2>10
    <3> QED BY <1>2, <3>1, <3>2, <3>3, <3>4 DEF Reported
  <2> HIDE DEF v
  <2>11. Uninstalling(q, "report", w) /\ NoFault
    BY <1>4
  <2>12. pc'[q] = "report" /\ job'[q] = w => Uninstall(q)' /\ Reported(q)'
    BY <2>10
  <2> QED BY <1>1, <2>5, <2>6, <2>7, <2>9, <2>11, <2>12, WorkThere
<1> QED BY <1>3, <1>4 DEF RestoreProfile

\* Reporting frees the lock.
LEMMA ReportKeeps ==
  ASSUME StoreInv, NEW q \in Processes, Report(q), starting' = starting
  PROVE  StoreInv'
<1>1. pc[q] = "report" /\ pc[q] \in Uninstalls /\ Ends(q) /\ FreeLock /\ NoFault
  BY DEF Report, Uninstalls
<1>2. lock = q /\ DiskTyped(disk) /\ IsDisk(disk)
  BY <1>1, AtUninstall
<1>3. Takes(q, "idle", NoJob)
  BY <1>1, <1>2, EndTakes DEF LockGoes, Locked, FreeLock
<1>4. Phase(q)'
  BY <1>3, NowAt, NothingKnown
<1>5. DiskTyped(disk') /\ disk'.tomb = NoDir /\ \E fields \in SUBSET {"tomb", "tombs"} : Only(disk, disk', fields)
  <2>1. CASE Here(disk.tomb)
    <3> DEFINE n == disk.tombs + 1
    <3>1. disk' = [disk EXCEPT !.tomb = NoDir, !.tombs = n]
      BY <2>1 DEF Report
    <3>2. n \in Nat
      BY <1>2 DEF DiskTyped
    <3> HIDE DEF n
    <3>3. Sets2(disk, disk', "tomb", NoDir, "tombs", n)
      BY <1>2, <3>1, PutTombTombs
    <3>4. Only(disk, disk', {"tomb", "tombs"}) /\ disk'.tomb = NoDir /\ disk'.tombs = n
      BY <3>3 DEF Sets2
    <3>5. DiskTyped(disk')
      BY <1>2, <3>2, <3>4, DirTypes, TypedPut
    <3> QED BY <3>4, <3>5
  <2>2. CASE ~Here(disk.tomb)
    <3>1. disk' = disk
      BY <2>2 DEF Report
    <3>2. Only(disk, disk', {})
      BY <1>2, <3>1 DEF Only
    <3>3. disk.tomb = NoDir
      BY <1>2, <2>2, DirTypes DEF DiskTyped
    <3> QED BY <1>2, <3>1, <3>2, <3>3
  <2> QED BY <2>1, <2>2
<1>6. /\ disk'.dirs = disk.dirs /\ disk'.records = disk.records /\ disk'.active = disk.active
      /\ disk'.harmed = disk.harmed /\ disk'.staging = disk.staging
  BY <1>5 DEF Only, Fields
<1>7. Named' /\ Bound' /\ ActiveBound' /\ \A p \in Processes : StagingKept(p)
  BY <1>6 DEF StoreInv, Named, Bound, ActiveBound, StagingKept
<1> QED BY <1>2, <1>3, <1>4, <1>5, <1>7, OwnStep

---------------------------------------------------------------------------
(* Deaths, and the plugin host *)

\* A store e that d may become because its process q is gone.
Abandons(d, e, q) ==
  /\ DiskTyped(e) /\ IsDisk(e)
  /\ e.dirs = d.dirs /\ e.records = d.records /\ e.active = d.active /\ e.harmed = d.harmed /\ e.profile = d.profile
  /\ e.left >= d.left /\ e.tombs >= d.tombs
  /\ \A p \in Processes \ {q} : e.staging[p] = d.staging[p]

\* Abandoning in two steps is abandoning.
LEMMA AbandonsTwice ==
  ASSUME NEW c, NEW d, NEW e, NEW q, DiskTyped(c), Abandons(c, d, q), Abandons(d, e, q)
  PROVE  Abandons(c, e, q)
<1>1. /\ c.left \in Nat /\ d.left \in Nat /\ e.left \in Nat /\ c.tombs \in Nat /\ d.tombs \in Nat /\ e.tombs \in Nat
      /\ e.left >= d.left /\ e.tombs >= d.tombs /\ d.left >= c.left /\ d.tombs >= c.tombs
  BY DEF Abandons, DiskTyped
<1>2. e.left >= c.left /\ e.tombs >= c.tombs
  BY <1>1
<1> QED BY <1>2 DEF Abandons

\* What the death of a process leaves: its staging directory and its tombstone are left behind.
LEMMA OrphanedAre ==
  ASSUME StoreInv, NEW q \in Processes
  PROVE  /\ Abandons(disk, Orphaned(disk, q), q)
         /\ lock = q => Orphaned(disk, q).tomb = NoDir
         /\ lock # q => Orphaned(disk, q).tomb = disk.tomb
<1> DEFINE one == IF Here(disk.staging[q]) THEN [disk EXCEPT !.staging[q] = NoDir, !.left = disk.left + 1] ELSE disk
           two == IF lock = q /\ Here(one.tomb) THEN [one EXCEPT !.tomb = NoDir, !.tombs = one.tombs + 1] ELSE one
           st == [disk.staging EXCEPT ![q] = NoDir]
           n == disk.left + 1
<1>1. DiskTyped(disk) /\ IsDisk(disk)
  BY TheDisk
<1>2. Abandons(disk, disk, q)
  BY <1>1 DEF Abandons, DiskTyped
<1>3. Abandons(disk, one, q) /\ one.tomb = disk.tomb
  <2>1. CASE Here(disk.staging[q])
    <3>1. one = [disk EXCEPT !.staging = st, !.left = n]
      BY <2>1
    <3>2. n \in Nat /\ n >= disk.left
      <4>1. disk.left \in Nat
        BY <1>1 DEF DiskTyped
      <4> QED BY <4>1
    <3>3. st \in [Processes -> Dirs] /\ \A p \in Processes \ {q} : st[p] = disk.staging[p]
      BY <1>1, DirTypes DEF DiskTyped
    <3> HIDE DEF one, st, n
    <3>4. Sets2(disk, one, "staging", st, "left", n)
      BY <1>1, <3>1, PutStagingLeft
    <3>5. Only(disk, one, {"staging", "left"}) /\ one.staging = st /\ one.left = n
      BY <3>4 DEF Sets2
    <3>6. DiskTyped(one)
      BY <1>1, <3>2, <3>3, <3>5, TypedPut
    <3>7. /\ one.dirs = disk.dirs /\ one.records = disk.records /\ one.active = disk.active /\ one.harmed = disk.harmed
          /\ one.profile = disk.profile /\ one.tombs = disk.tombs /\ one.tomb = disk.tomb /\ IsDisk(one)
      BY <3>5 DEF Only, Fields
    <3>8. one.tombs >= disk.tombs
      <4>1. disk.tombs \in Nat
        BY <1>1 DEF DiskTyped
      <4> QED BY <3>7, <4>1
    <3> QED BY <3>2, <3>3, <3>5, <3>6, <3>7, <3>8 DEF Abandons
  <2>2. CASE ~Here(disk.staging[q])
    BY <1>2, <2>2
  <2> QED BY <2>1, <2>2
<1> HIDE DEF one
<1>4. Abandons(one, two, q) /\ (lock = q => two.tomb = NoDir) /\ (lock # q => two.tomb = one.tomb)
  <2>1. DiskTyped(one) /\ IsDisk(one)
    BY <1>3 DEF Abandons
  <2>2. one.left \in Nat /\ one.tombs \in Nat /\ one.tomb \in Dirs
    BY <2>1 DEF DiskTyped
  <2>3. Abandons(one, one, q)
    BY <2>1, <2>2 DEF Abandons
  <2>4. CASE lock = q /\ Here(one.tomb)
    <3> DEFINE m == one.tombs + 1
    <3>1. two = [one EXCEPT !.tomb = NoDir, !.tombs = m]
      BY <2>4
    <3>2. m \in Nat /\ m >= one.tombs
      BY <2>2
    <3> HIDE DEF two, m
    <3>3. Sets2(one, two, "tomb", NoDir, "tombs", m)
      BY <2>1, <3>1, PutTombTombs
    <3>4. Only(one, two, {"tomb", "tombs"}) /\ two.tomb = NoDir /\ two.tombs = m
      BY <3>3 DEF Sets2
    <3>5. DiskTyped(two)
      BY <2>1, <3>2, <3>4, DirTypes, TypedPut
    <3>6. /\ two.dirs = one.dirs /\ two.records = one.records /\ two.active = one.active /\ two.harmed = one.harmed
          /\ two.profile = one.profile /\ two.left = one.left /\ two.staging = one.staging /\ IsDisk(two)
      BY <3>4 DEF Only, Fields
    <3>7. two.left >= one.left
      BY <2>2, <3>6
    <3> QED BY <2>4, <3>2, <3>4, <3>5, <3>6, <3>7 DEF Abandons
  <2>5. CASE ~(lock = q /\ Here(one.tomb))
    <3>1. two = one
      BY <2>5
    <3>2. ~Here(one.tomb) => one.tomb = NoDir
      BY <2>2, DirTypes
    <3> QED BY <2>3, <2>5, <3>1, <3>2
  <2> QED BY <2>4, <2>5
<1>5. Orphaned(disk, q) = two
  BY DEF Orphaned, one
<1> HIDE DEF two
<1> QED BY <1>1, <1>3, <1>4, <1>5, AbandonsTwice

\* A process may die at any step: its staging directory, temporary file and tombstone are left behind and
\* the lock is free.
LEMMA CrashKeeps ==
  ASSUME StoreInv, NEW q \in Processes, Crash(q), starting' = starting
  PROVE  StoreInv'
<1> DEFINE e == Orphaned(disk, q)
<1>1. pc[q] # "idle" /\ Fault /\ Ends(q) /\ lock' = (IF lock = q THEN Nobody ELSE lock)
  BY DEF Crash
<1>2. DiskTyped(disk) /\ Abandons(disk, e, q) /\ (lock = q => e.tomb = NoDir) /\ (lock # q => e.tomb = disk.tomb)
  BY TheDisk, OrphanedAre
<1>3. PICK temps \in SUBSET Writing(q) : disk' = [e EXCEPT !.temps = e.temps \cup temps]
  BY DEF Crash
<1>4. temps \subseteq Written
  BY <1>3 DEF Writing, Written
<1> DEFINE ts == e.temps \cup temps
<1> HIDE DEF e
<1>5. DiskTyped(e) /\ IsDisk(e) /\ ts \subseteq Written
  BY <1>2, <1>4 DEF Abandons, DiskTyped
<1>6. disk' = [e EXCEPT !.temps = ts]
  BY <1>3
<1> HIDE DEF ts
<1>7. Sets(e, disk', "temps", ts)
  BY <1>5, <1>6, PutField
<1>8. Only(e, disk', {"temps"}) /\ disk'.temps = ts
  BY <1>7 DEF Sets
<1>9. DiskTyped(disk')
  BY <1>5, <1>8, TypedPut
<1>10. /\ disk'.dirs = e.dirs /\ disk'.records = e.records /\ disk'.active = e.active /\ disk'.harmed = e.harmed
       /\ disk'.profile = e.profile /\ disk'.left = e.left /\ disk'.tombs = e.tombs /\ disk'.tomb = e.tomb
       /\ disk'.staging = e.staging
  BY <1>8 DEF Only, Fields
<1>11. /\ disk'.dirs = disk.dirs /\ disk'.records = disk.records /\ disk'.active = disk.active
       /\ disk'.harmed = disk.harmed /\ disk'.profile = disk.profile
       /\ disk'.left >= disk.left /\ disk'.tombs >= disk.tombs
       /\ \A p \in Processes \ {q} : disk'.staging[p] = disk.staging[p]
  BY <1>2, <1>10 DEF Abandons
<1>12. \A p \in Processes \ {q} : StagingKept(p)
  BY <1>11 DEF StagingKept
<1>13. Takes(q, "idle", NoJob)
  BY <1>1, EndTakes DEF LockGoes, Locked
<1>14. Phase(q)'
  BY <1>13, NowAt, NothingKnown
<1>15. CASE lock = q
  <2>1. Named' /\ Bound' /\ ActiveBound'
    BY <1>11 DEF StoreInv, Named, Bound, ActiveBound
  <2>2. disk'.tomb = NoDir
    BY <1>2, <1>10, <1>15
  <2> QED BY <1>9, <1>12, <1>13, <1>14, <1>15, <2>1, <2>2, OwnStep
<1>16. CASE lock # q
  <2>1. Quiet
    BY <1>2, <1>10, <1>11, <1>16 DEF Quiet
  <2>2. pc[q] \notin Uninstalls
    BY <1>16 DEF StoreInv, LockHeld, Uninstalls, Locked
  <2> QED BY <1>9, <1>12, <1>13, <1>14, <2>1, <2>2, QuietStep
<1> QED BY <1>15, <1>16

\* The host only makes the profile.
LEMMA HostKeeps ==
  ASSUME StoreInv, Host
  PROVE  StoreInv'
<1>1. UNCHANGED <<lock, pc, job, ops, faults>> /\ starting' \in BOOLEAN
  BY DEF Host, HostQueries, HostPrepares
<1>2. DiskTyped(disk) /\ IsDisk(disk)
  BY TheDisk
<1>3. DiskTyped(disk') /\ Quiet /\ \A p \in Processes : StagingKept(p)
  <2>1. CASE disk' = disk
    BY <1>2, <2>1 DEF DiskTyped, Quiet, StagingKept
  <2>2. CASE disk' = [disk EXCEPT !.profile = TRUE]
    <3>1. Sets(disk, disk', "profile", TRUE)
      BY <1>2, <2>2, PutField
    <3>2. Only(disk, disk', {"profile"}) /\ disk'.profile = TRUE
      BY <3>1 DEF Sets
    <3>3. DiskTyped(disk')
      BY <1>2, <3>2, TypedPut
    <3>4. Quiet /\ \A p \in Processes : StagingKept(p)
      BY <1>2, <3>2 DEF Only, Fields, Quiet, StagingKept, DiskTyped
    <3> QED BY <3>3, <3>4
  <2> QED BY <2>1, <2>2 DEF Host, HostQueries, HostPrepares
<1>4. Named' /\ Bound' /\ ActiveBound'
  BY <1>3, QuietKeeps DEF StoreInv
<1>5. \A p \in Processes : Phase(p)'
  BY <1>1, <1>2, <1>3, OthersKeep DEF StoreInv
<1>6. TombFree' /\ LockHeld' /\ Jobs'
  BY <1>1, <1>3 DEF StoreInv, TombFree, LockHeld, Jobs, Quiet
<1>7. TypeOK'
  <2>1. disk' \in Disks
    BY <1>3, DiskTypes
  <2> QED BY <1>1, <2>1 DEF StoreInv, TypeOK
<1> QED BY <1>4, <1>5, <1>6, <1>7 DEF StoreInv

\* A step that changes nothing.
LEMMA StutterKeeps ==
  ASSUME StoreInv, UNCHANGED vars
  PROVE  StoreInv'
<1>1. UNCHANGED <<disk, starting, lock, pc, job, ops, faults>>
  BY DEF vars
<1>2. TypeOK' /\ Jobs' /\ LockHeld' /\ Named' /\ Bound' /\ ActiveBound' /\ TombFree'
  BY <1>1 DEF StoreInv, TypeOK, Jobs, LockHeld, Named, Bound, ActiveBound, TombFree
<1>3. Quiet /\ DiskTyped(disk) /\ DiskTyped(disk') /\ \A p \in Processes : StagingKept(p)
  BY <1>1, TheDisk DEF Quiet, StagingKept, DiskTyped
<1>4. \A p \in Processes : Phase(p)'
  BY <1>1, <1>3, OthersKeep DEF StoreInv
<1> QED BY <1>2, <1>4 DEF StoreInv

---------------------------------------------------------------------------
(* The store that earlier commands left *)

\* The package of a version is one of the set that is of that version, if there is one.
LEMMA PackageFound ==
  ASSUME NEW pkgs \in SUBSET Packages, NEW v
  PROVE  /\ PackageOf(pkgs, v) # NoPackage => PackageOf(pkgs, v) \in pkgs /\ VersionOf[PackageOf(pkgs, v)] = v
         /\ PackageOf(pkgs, v) = NoPackage => \A pkg \in pkgs : VersionOf[pkg] # v
BY PackagesAssumption DEF PackageOf

\* The stores that earlier commands left satisfy the invariant.
LEMMA InitSound ==
  ASSUME Init
  PROVE  StoreInv
<1>1. PICK installed \in SUBSET Packages, detached \in SUBSET Packages :
        /\ \A one, other \in installed \cup detached : VersionOf[one] = VersionOf[other] => one = other
        /\ Cardinality(detached) <= MaxFaults
        /\ \E active \in installed \cup {NoPackage}, consented \in SUBSET (installed \cup detached) :
             disk = Store(installed, detached, active, consented)
  BY DEF Init
<1>2. PICK active \in installed \cup {NoPackage}, consented \in SUBSET (installed \cup detached) :
        disk = Store(installed, detached, active, consented)
  BY <1>1
<1> DEFINE all == installed \cup detached
<1>3. /\ IsDisk(disk)
      /\ disk.dirs = [v \in Versions |-> LET pkg == PackageOf(installed, v) IN IF pkg = NoPackage THEN NoDir ELSE Dir(pkg, "whole")]
      /\ disk.records = [v \in Versions |-> PackageOf(all, v)]
      /\ disk.active = active
      /\ disk.auths = [v \in Versions |-> LET pkg == PackageOf(consented, v)
                                         IN IF pkg = NoPackage THEN NoGrant ELSE [pkg |-> pkg, grants |-> Permissions(pkg)]]
      /\ disk.temps = {} /\ disk.staging = [p \in Processes |-> NoDir] /\ disk.left = 0 /\ disk.tomb = NoDir
      /\ disk.tombs = Cardinality(detached) /\ disk.profile = FALSE /\ disk.harmed = {}
  BY <1>2 DEF Store, IsDisk
<1>4. starting = FALSE /\ lock = Nobody /\ pc = [p \in Processes |-> "idle"] /\ job = [p \in Processes |-> NoJob] /\ ops = 0
      /\ faults = Cardinality({v \in Versions : ~Here(disk.dirs[v]) /\ disk.records[v] # NoPackage})
  BY DEF Init
<1>5. ASSUME NEW v \in Versions
      PROVE  /\ Here(disk.dirs[v]) => disk.records[v] \in installed /\ disk.dirs[v] = Dir(disk.records[v], "whole")
             /\ ~Here(disk.dirs[v]) => \A pkg \in installed : VersionOf[pkg] # v
             /\ disk.dirs[v] \in Dirs
             /\ disk.records[v] # NoPackage => disk.records[v] \in all /\ VersionOf[disk.records[v]] = v
             /\ \A pkg \in all : VersionOf[pkg] = v => disk.records[v] = pkg
  <2> DEFINE found == PackageOf(installed, v)
  <2>1. disk.dirs[v] = (IF found = NoPackage THEN NoDir ELSE Dir(found, "whole")) /\ disk.records[v] = PackageOf(all, v)
    BY <1>3
  <2>2. /\ found # NoPackage => found \in installed /\ VersionOf[found] = v
        /\ found = NoPackage => \A pkg \in installed : VersionOf[pkg] # v
    BY PackageFound
  <2>3. /\ disk.records[v] # NoPackage => disk.records[v] \in all /\ VersionOf[disk.records[v]] = v
        /\ disk.records[v] = NoPackage => \A pkg \in all : VersionOf[pkg] # v
    BY <2>1, PackageFound
  <2> HIDE DEF found
  <2>4. \A pkg \in all : VersionOf[pkg] = v => disk.records[v] = pkg
    BY <1>1, <2>3
  <2>5. CASE found = NoPackage
    BY <2>1, <2>2, <2>3, <2>4, <2>5, DirTypes
  <2>6. CASE found # NoPackage
    <3>1. found \in Packages /\ disk.records[v] = found
      BY <2>2, <2>4, <2>6
    <3>2. disk.dirs[v] = Dir(found, "whole") /\ Dir(found, "whole") \in Dirs /\ Here(Dir(found, "whole"))
      BY <2>1, <2>6, <3>1, DirTypes
    <3> QED BY <2>2, <2>3, <2>4, <2>6, <3>1, <3>2
  <2> QED BY <2>5, <2>6
<1>6. Cardinality(detached) \in Nat /\ IsFiniteSet(detached)
  BY PackagesAssumption, FS_Subset, FS_CardinalityType
<1>7. DiskTyped(disk)
  <2>1. disk.dirs \in [Versions -> Dirs] /\ disk.records \in [Versions -> Packages \cup {NoPackage}]
    <3>1. disk.dirs = [v \in Versions |-> disk.dirs[v]] /\ disk.records = [v \in Versions |-> disk.records[v]]
      BY <1>3
    <3> QED BY <1>5, <3>1
  <2>2. disk.auths \in [Versions -> Grants \cup {NoGrant}]
    <3>1. ASSUME NEW v \in Versions, PackageOf(consented, v) # NoPackage
          PROVE  [pkg |-> PackageOf(consented, v), grants |-> Permissions(PackageOf(consented, v))] \in Grants
      <4>1. PackageOf(consented, v) \in Packages
        BY <3>1, PackageFound
      <4> QED BY <4>1 DEF Grants, Permissions
    <3> QED BY <1>3, <3>1
  <2>3. disk.staging \in [Processes -> Dirs]
    BY <1>3, DirTypes
  <2>4. disk.profile \in BOOLEAN
    BY <1>3
  <2>5. disk.active \in Packages \cup {NoPackage}
    BY <1>3
  <2>6. disk.temps \subseteq Written /\ disk.harmed \subseteq Versions /\ disk.tomb \in Dirs
    BY <1>3, DirTypes
  <2>7. disk.left \in Nat /\ disk.tombs \in Nat /\ IsDisk(disk)
    BY <1>3, <1>6
  <2> QED BY <2>1, <2>2, <2>3, <2>4, <2>5, <2>6, <2>7 DEF DiskTyped
<1>8. faults \in 0..MaxFaults
  <2> DEFINE bare == {v \in Versions : ~Here(disk.dirs[v]) /\ disk.records[v] # NoPackage}
             of == [v \in bare |-> disk.records[v]]
  <2>1. \A v \in bare : disk.records[v] \in detached /\ VersionOf[disk.records[v]] = v
    BY <1>5
  <2>2. of \in Injection(bare, detached)
    <3>1. of \in [bare -> detached]
      BY <2>1
    <3>2. \A a, b \in bare : of[a] = of[b] => a = b
      BY <2>1
    <3> QED BY <3>1, <3>2 DEF Injection, IsInjective
  <2> HIDE DEF of, bare
  <2>3. Cardinality(bare) <= Cardinality(detached) /\ IsFiniteSet(bare)
    BY <1>6, <2>2, FS_Injection
  <2>4. Cardinality(bare) \in Nat
    BY <2>3, FS_CardinalityType
  <2>5. faults = Cardinality(bare)
    BY <1>4 DEF bare
  <2> QED BY <1>1, <1>6, <2>3, <2>4, <2>5, StoreAssumption
<1>9. TypeOK
  <2>1. disk \in Disks
    BY <1>7, DiskTypes
  <2>2. pc \in [Processes -> Locked \cup Unlocked]
    BY <1>4 DEF Unlocked
  <2>3. starting \in BOOLEAN
    BY <1>4
  <2>4. lock \in Processes \cup {Nobody} /\ ops \in 0..MaxOps
    BY <1>4, StoreAssumption
  <2> QED BY <1>8, <2>1, <2>2, <2>3, <2>4 DEF TypeOK
<1>10. Jobs
  <2>1. \A p \in Processes : job[p] = NoJob /\ pc[p] = "idle"
    BY <1>4
  <2>2. IsJob(NoJob)
    BY NewJob DEF NoJob
  <2> QED BY <1>4, <2>1, <2>2 DEF Jobs
<1>11. LockHeld /\ TombFree
  BY <1>3, <1>4, StoreAssumption DEF LockHeld, TombFree, Locked
<1>12. Named
  BY <1>5 DEF Named
<1>13. Bound
  <2>1. ASSUME NEW v \in Versions, Here(disk.dirs[v]), disk.records[v] # NoPackage PROVE BoundTo(disk.dirs[v], disk.records[v])
    <3>1. disk.dirs[v] = Dir(disk.records[v], "whole")
      BY <1>5, <2>1
    <3> QED BY <3>1 DEF BoundTo, HasManifest, Dir
  <2> QED BY <2>1 DEF Bound
<1>14. ActiveBound
  <2>1. disk.active # NoPackage => disk.active \in installed /\ VersionOf[disk.active] \in Versions
    BY <1>3, PackagesAssumption
  <2> QED BY <1>5, <2>1 DEF ActiveBound
<1>15. \A p \in Processes : Phase(p)
  BY <1>4 DEF Phase, Staged, Moved, Recorded, Activating, Granting, Removing, Found, Uninstall, Reported, Uninstalls
<1> QED BY <1>9, <1>10, <1>11, <1>12, <1>13, <1>14, <1>15 DEF StoreInv

---------------------------------------------------------------------------
(* The theorems *)

\* The invariant: who holds the lock, what the store is like, and what each
\* process knows at its step.
THEOREM StoreInvariant == Spec => []StoreInv
<1>1. Init => StoreInv
  BY InitSound
<1>2. ASSUME StoreInv, [Next]_vars PROVE StoreInv'
  <2>1. CASE Host
    BY <1>2, <2>1, HostKeeps
  <2>2. ASSUME NEW p \in Processes, Step(p), starting' = starting PROVE StoreInv'
    <3>1. ASSUME NEW pkg \in Packages, NEW consent \in BOOLEAN, StartInstall(p, pkg, consent) PROVE StoreInv'
      BY <1>2, <2>2, <3>1, InstallKeeps
    <3>2. CASE Unhurried(p)
      BY <1>2, <2>2, <3>2, StartKeeps
    <3>3. CASE \E v \in Versions : StartRevoke(p, v)
      BY <1>2, <2>2, <3>3, GrantKeeps
    <3>4. CASE Extracted(p) \/ Discard(p)
      BY <1>2, <2>2, <3>4, ExtractKeeps
    <3>5. CASE PublishMove(p)
      BY <1>2, <2>2, <3>5, PublishMoveKeeps
    <3>6. CASE PublishRecord(p)
      BY <1>2, <2>2, <3>6, PublishRecordKeeps
    <3>7. CASE PublishActive(p) \/ ActivateWrite(p) \/ Deactivate(p)
      BY <1>2, <2>2, <3>7, ActiveKeeps
    <3>8. CASE GrantCheck(p) \/ GrantWrite(p)
      BY <1>2, <2>2, <3>8, GrantKeeps
    <3>9. CASE ActivateCheck(p) \/ CleanupCheck(p)
      BY <1>2, <2>2, <3>9, CheckKeeps
    <3>10. CASE CleanupRemove(p)
      BY <1>2, <2>2, <3>10, CleanupKeeps
    <3>11. CASE UninstallCheck(p)
      BY <1>2, <2>2, <3>11, UninstallCheckKeeps
    <3>12. CASE Detach(p)
      BY <1>2, <2>2, <3>12, DetachKeeps
    <3>13. CASE DeleteProfile(p)
      BY <1>2, <2>2, <3>13, DeleteProfileKeeps
    <3>14. CASE DeleteRecord(p)
      BY <1>2, <2>2, <3>14, DeleteRecordKeeps
    <3>15. CASE DeleteGrant(p)
      BY <1>2, <2>2, <3>15, DeleteGrantKeeps
    <3>16. CASE DeleteTomb(p)
      BY <1>2, <2>2, <3>16, DeleteTombKeeps
    <3>17. CASE RestoreRecord(p)
      BY <1>2, <2>2, <3>17, RestoreRecordKeeps
    <3>18. CASE RestoreDir(p)
      BY <1>2, <2>2, <3>18, RestoreDirKeeps
    <3>19. CASE RestoreProfile(p)
      BY <1>2, <2>2, <3>19, RestoreProfileKeeps
    <3>20. CASE Report(p)
      BY <1>2, <2>2, <3>20, ReportKeeps
    <3>21. CASE Crash(p)
      BY <1>2, <2>2, <3>21, CrashKeeps
    <3> QED BY <2>2, <3>1, <3>2, <3>3, <3>4, <3>5, <3>6, <3>7, <3>8, <3>9, <3>10, <3>11, <3>12, <3>13, <3>14,
               <3>15, <3>16, <3>17, <3>18, <3>19, <3>20, <3>21 DEF Step, Unhurried
  <2>3. CASE UNCHANGED vars
    BY <1>2, <2>3, StutterKeeps
  <2> QED BY <1>2, <2>1, <2>2, <2>3 DEF Next
<1> QED BY <1>1, <1>2, PTL DEF Spec

\* The variables keep their types, whatever the commands and their failures.
THEOREM StoreTypes == Spec => []TypeOK
<1>1. StoreInv => TypeOK
  BY DEF StoreInv
<1> QED BY <1>1, StoreInvariant, PTL

\* The active record names a version that is there, recorded as that package and
\* whole, except after a cleanup took files of a staging directory or beside the
\* record of an earlier build (plugin_store.cpp:453-476).
THEOREM ActiveRecordResolves == Spec => []ActiveResolves
<1>1. ASSUME StoreInv PROVE ActiveResolves
  <2> SUFFICES ASSUME disk.active # NoPackage, VersionOf[disk.active] \notin disk.harmed
               PROVE  LET v == VersionOf[disk.active]
                      IN /\ Here(disk.dirs[v]) /\ disk.records[v] = disk.active
                         /\ disk.dirs[v].marks = {} => disk.dirs[v] = Dir(disk.active, "whole")
    BY DEF ActiveResolves
  <2> DEFINE v == VersionOf[disk.active]
  <2>1. v \in Versions
    BY <1>1, TheDisk, PackagesAssumption DEF DiskTyped
  <2>2. Here(disk.dirs[v]) /\ disk.records[v] = disk.active
    BY <1>1 DEF StoreInv, ActiveBound
  <2>3. BoundTo(disk.dirs[v], disk.records[v])
    BY <1>1, <2>1, <2>2 DEF StoreInv, Bound
  <2> QED BY <2>2, <2>3 DEF BoundTo
<1> QED BY <1>1, StoreInvariant, PTL

---------------------------------------------------------------------------
(* The authorization of what is being uninstalled *)

\* Once an uninstall has deleted the authorization there is none, and nobody is about to write one, unless
\* somebody was when it deleted it.
Ungranted(p) ==
  pc[p] = "untomb" \/ (pc[p] = "report" /\ job[p].ok) =>
    job[p].raced \/ (disk.auths[job[p].v] = NoGrant /\ ~GrantUnderWay(job[p].v))
GrantFree == \A p \in Processes : Ungranted(p)

\* Authorizations only go.
GrantsGo == \A v \in Versions : disk'.auths[v] \in {disk.auths[v], NoGrant}

\* Where q goes, and that it does not note a success.
Onward(q, s, w) ==
  /\ pc' = [pc EXCEPT ![q] = s] /\ job' = [job EXCEPT ![q] = w]
  /\ s \notin {"grant", "untomb"} /\ (s = "report" => ~w.ok)

\* A change of another part of the store leaves the authorizations.
LEMMA OtherPart ==
  ASSUME NEW d, IsDisk(d), NEW x, NEW e
  PROVE  /\ e = [d EXCEPT !.staging = x] => e.auths = d.auths
         /\ e = [d EXCEPT !.active = x] => e.auths = d.auths
         /\ e = [d EXCEPT !.dirs = x] => e.auths = d.auths
         /\ e = [d EXCEPT !.records = x] => e.auths = d.auths
         /\ e = [d EXCEPT !.temps = x] => e.auths = d.auths
         /\ e = [d EXCEPT !.left = x] => e.auths = d.auths
         /\ e = [d EXCEPT !.tomb = x] => e.auths = d.auths
         /\ e = [d EXCEPT !.tombs = x] => e.auths = d.auths
         /\ e = [d EXCEPT !.profile = x] => e.auths = d.auths
BY SMTT(30) DEF IsDisk

\* The steps that neither come to an authorization nor delete one for an uninstall.
Elsehow(q) ==
  \/ \E pkg \in Packages, consent \in BOOLEAN : StartInstall(q, pkg, consent)
  \/ \E v \in Versions : StartRevoke(q, v)
  \/ Unhurried(q)
  \/ Extracted(q) \/ Discard(q) \/ PublishMove(q) \/ PublishRecord(q) \/ PublishActive(q)
  \/ ActivateCheck(q) \/ ActivateWrite(q) \/ Deactivate(q) \/ CleanupCheck(q) \/ CleanupRemove(q)
  \/ UninstallCheck(q) \/ Detach(q) \/ DeleteProfile(q) \/ DeleteRecord(q)
  \/ RestoreRecord(q) \/ RestoreDir(q) \/ RestoreProfile(q) \/ Report(q) \/ Crash(q)

\* None of them comes to an authorization or reports a success.
LEMMA ElsehowGoes ==
  ASSUME StoreInv, NEW q \in Processes, Elsehow(q)
  PROVE  \E s, w : Onward(q, s, w)
<1>0. job = [p \in Processes |-> job[p]] /\ IsJob(job[q])
  BY DEF StoreInv, Jobs
<1>1. ASSUME NEW s, Goto(q, s), SameJob, s \notin {"grant", "untomb", "report"} PROVE \E t, w : Onward(q, t, w)
  <2>1. job' = [job EXCEPT ![q] = job[q]]
    BY <1>0, <1>1 DEF SameJob
  <2>2. Onward(q, s, job[q])
    BY <1>1, <2>1 DEF Onward, Goto
  <2> QED BY <2>2
<1>2. ASSUME Ends(q) PROVE \E t, w : Onward(q, t, w)
  <2>1. Onward(q, "idle", NoJob)
    BY <1>2 DEF Onward, Ends, Goto
  <2> QED BY <2>1
<1>3. ASSUME NEW s \in {"extract", "activateCheck", "deactivate", "grantCheck", "uninstall", "cleanup"}, NEW w, Start(q, s, w)
      PROVE  \E t, k : Onward(q, t, k)
  <2>1. Onward(q, s, w)
    BY <1>3 DEF Onward, Start, Goto
  <2> QED BY <2>1
<1>4. ASSUME NEW s, NEW w, Uninstalling(q, s, w), s \notin {"grant", "untomb"}, s = "report" => ~w.ok
      PROVE  \E t, k : Onward(q, t, k)
  <2>1. Onward(q, s, w)
    BY <1>4 DEF Onward, Uninstalling, Goto
  <2> QED BY <2>1
<1>5. CASE \E pkg \in Packages, consent \in BOOLEAN : StartInstall(q, pkg, consent)
  BY <1>3, <1>5 DEF StartInstall
<1>6. CASE \E v \in Versions : StartRevoke(q, v)
  BY <1>3, <1>6 DEF StartRevoke
<1>7. CASE Unhurried(q)
  BY <1>1, <1>2, <1>3, <1>7 DEF Unhurried, StartActivate, StartDeactivate, StartUninstall, StartCleanup, LockTimeout
<1>8. CASE Extracted(q) \/ PublishMove(q) \/ CleanupCheck(q) \/ ActivateCheck(q)
  BY <1>1, <1>2, <1>8 DEF Extracted, PublishMove, CleanupCheck, ActivateCheck
<1>9. CASE Discard(q) \/ PublishActive(q) \/ ActivateWrite(q) \/ Deactivate(q) \/ CleanupRemove(q) \/ Report(q) \/ Crash(q)
  BY <1>2, <1>9 DEF Discard, PublishActive, ActivateWrite, Deactivate, CleanupRemove, Report, Crash
<1>10. CASE PublishRecord(q)
  BY <1>1, <1>2, <1>10 DEF PublishRecord
<1>11. CASE UninstallCheck(q)
  <2>1. CASE Ends(q)
    BY <1>2, <2>1
  <2>2. CASE ~Ends(q)
    <3> DEFINE v == job[q].v
               last == \A other \in Versions \ {v} : ~Here(disk.dirs[other])
    <3>1. Goto(q, "detach") /\ job' = [job EXCEPT ![q].pkg = disk.records[v], ![q].dir = disk.dirs[v],
                                                ![q].profile = disk.profile, ![q].last = last]
      BY <1>11, <2>2 DEF UninstallCheck
    <3> HIDE DEF v, last
    <3>2. job' = FoundBy(q, disk.records[v], disk.dirs[v], disk.profile, last)
      BY <3>1 DEF FoundBy
    <3>3. \A a, b, c, d : job' = FoundBy(q, a, b, c, d) => \E k : job' = [job EXCEPT ![q] = k]
      BY <1>0, JobPutFound
    <3>4. PICK k : job' = [job EXCEPT ![q] = k]
      BY <3>2, <3>3
    <3>5. Onward(q, "detach", k)
      BY <3>1, <3>4 DEF Onward, Goto
    <3> QED BY <3>5
  <2> QED BY <2>1, <2>2
<1>12. CASE Detach(q) \/ DeleteProfile(q) \/ DeleteRecord(q) \/ RestoreRecord(q) \/ RestoreDir(q)
  <2>1. pc[q] = "detach" => ~job[q].ok
    BY AtUninstall DEF Uninstall, Uninstalls
  <2> QED BY <1>4, <1>12, <2>1 DEF Detach, DeleteProfile, DeleteRecord, RestoreRecord, RestoreDir
<1>13. CASE RestoreProfile(q)
  <2> DEFINE removed == ~job[q].undone
             w == [job[q] EXCEPT !.removed = removed]
  <2>1. pc[q] = "restoreProfile"
    BY <1>13 DEF RestoreProfile
  <2>2. ~job[q].ok
    BY <2>1, AtUninstall DEF Uninstall, Uninstalls
  <2>3. Uninstalling(q, "report", w) \/ Uninstalling(q, "report", job[q])
    BY <1>13 DEF RestoreProfile
  <2> HIDE DEF removed
  <2>4. JobSets(job[q], w, "removed", removed)
    BY <1>0, JobPut
  <2>5. ~w.ok
    BY <2>2, <2>4 DEF JobSets
  <2> HIDE DEF w
  <2> QED BY <1>4, <2>2, <2>3, <2>5
<1> QED BY <1>5, <1>6, <1>7, <1>8, <1>9, <1>10, <1>11, <1>12, <1>13 DEF Elsehow

\* None of them writes an authorization.
LEMMA ElsehowWrites ==
  ASSUME StoreInv, NEW q \in Processes, Elsehow(q)
  PROVE  GrantsGo
<1>0. IsDisk(disk) /\ DiskTyped(disk)
  BY TheDisk
<1>1. ASSUME disk'.auths = disk.auths PROVE GrantsGo
  BY <1>1 DEF GrantsGo
<1>2. CASE \E pkg \in Packages, consent \in BOOLEAN : StartInstall(q, pkg, consent)
  <2>1. PICK pkg \in Packages : disk' = [disk EXCEPT !.staging[q] = Dir(pkg, "part")]
    BY <1>2 DEF StartInstall
  <2>2. \E x : disk' = [disk EXCEPT !.staging = x]
    BY <2>1
  <2> QED BY <1>0, <1>1, <2>2, OtherPart
<1>3. CASE (\E v \in Versions : StartRevoke(q, v)) \/ Unhurried(q) \/ ActivateCheck(q) \/ CleanupCheck(q) \/ UninstallCheck(q)
  <2>1. disk' = disk
    BY <1>3 DEF StartRevoke, Unhurried, StartActivate, StartDeactivate, StartUninstall, StartCleanup, LockTimeout,
                ActivateCheck, CleanupCheck, UninstallCheck
  <2> QED BY <1>1, <2>1
<1>4. CASE Extracted(q)
  <2>1. disk' = disk \/ \E files : disk' = [disk EXCEPT !.staging[q].files = files]
    BY <1>4 DEF Extracted
  <2>2. disk' = disk \/ \E x : disk' = [disk EXCEPT !.staging = x]
    BY <2>1
  <2> QED BY <1>0, <1>1, <2>2, OtherPart
<1>5. CASE Discard(q)
  <2>1. \E x, y : disk' = [disk EXCEPT !.staging = x] \/ disk' = [disk EXCEPT !.staging = x, !.left = y]
    BY <1>5 DEF Discard
  <2>2. ASSUME NEW x, NEW y, disk' = [disk EXCEPT !.staging = x, !.left = y] PROVE disk'.auths = disk.auths
    BY <1>0, <2>2 DEF IsDisk
  <2> QED BY <1>0, <1>1, <2>1, <2>2, OtherPart
<1>6. CASE PublishMove(q)
  <2> DEFINE v == job[q].v
             over == IF disk.records[v] = NoPackage THEN {} ELSE {"overOrphan"}
             moved == [disk.staging[q] EXCEPT !.marks = disk.staging[q].marks \cup over]
             harmed == IF "raided" \in disk.staging[q].marks THEN disk.harmed \cup {v} ELSE disk.harmed
  <2>1. \/ disk' = disk
        \/ disk' = [disk EXCEPT !.dirs = [disk.dirs EXCEPT ![v] = moved], !.staging = [disk.staging EXCEPT ![q] = NoDir],
                                !.harmed = harmed]
    BY <1>6 DEF PublishMove
  <2> HIDE DEF moved, harmed
  <2>2. ASSUME NEW x, NEW y, NEW z, disk' = [disk EXCEPT !.dirs = x, !.staging = y, !.harmed = z]
        PROVE  disk'.auths = disk.auths
    BY <1>0, <2>2 DEF IsDisk
  <2> QED BY <1>1, <2>1, <2>2
<1>7. CASE Detach(q) \/ PublishRecord(q)
  <2> DEFINE own == job[q].v
             settled == [disk.dirs[own] EXCEPT !.marks = disk.dirs[own].marks \ {"overOrphan"}]
  <2>1. \/ disk' = disk
        \/ disk' = [disk EXCEPT !.tomb = disk.dirs[own], !.dirs = [disk.dirs EXCEPT ![own] = NoDir]]
        \/ disk' = [disk EXCEPT !.records = [disk.records EXCEPT ![own] = job[q].pkg],
                                !.dirs = [disk.dirs EXCEPT ![own] = settled]]
        \/ disk' = [disk EXCEPT !.staging = [disk.staging EXCEPT ![q] = settled], !.dirs = [disk.dirs EXCEPT ![own] = NoDir]]
    BY <1>7 DEF Detach, PublishRecord
  <2> HIDE DEF settled
  <2>2. \/ disk' = disk
        \/ \E x, y : \/ disk' = [disk EXCEPT !.tomb = x, !.dirs = y]
                     \/ disk' = [disk EXCEPT !.records = x, !.dirs = y]
                     \/ disk' = [disk EXCEPT !.staging = x, !.dirs = y]
    BY <2>1
  <2>3. ASSUME NEW x, NEW y, disk' = [disk EXCEPT !.tomb = x, !.dirs = y] PROVE disk'.auths = disk.auths
    BY <1>0, <2>3 DEF IsDisk
  <2>4. ASSUME NEW x, NEW y, disk' = [disk EXCEPT !.records = x, !.dirs = y] PROVE disk'.auths = disk.auths
    BY <1>0, <2>4 DEF IsDisk
  <2>5. ASSUME NEW x, NEW y, disk' = [disk EXCEPT !.staging = x, !.dirs = y] PROVE disk'.auths = disk.auths
    BY <1>0, <2>5 DEF IsDisk
  <2> QED BY <1>1, <2>2, <2>3, <2>4, <2>5
<1>8. CASE PublishActive(q) \/ ActivateWrite(q) \/ Deactivate(q)
  <2>1. disk' = disk \/ \E x : disk' = [disk EXCEPT !.active = x]
    BY <1>8 DEF PublishActive, ActivateWrite, Deactivate
  <2> QED BY <1>0, <1>1, <2>1, OtherPart
<1>9. CASE CleanupRemove(q)
  <2> DEFINE at == job[q].item.at
  <2>1. \/ \E x : \/ disk' = [disk EXCEPT !.active = x] \/ disk' = [disk EXCEPT !.dirs = x]
                  \/ disk' = [disk EXCEPT !.records = x] \/ disk' = [disk EXCEPT !.temps = x]
                  \/ disk' = [disk EXCEPT !.left = x] \/ disk' = [disk EXCEPT !.staging = x]
                  \/ disk' = [disk EXCEPT !.tombs = x]
        \/ disk' = [disk EXCEPT !.auths = [disk.auths EXCEPT ![at] = NoGrant]]
        \/ disk' = disk
    BY <1>9, CleanupWrites DEF CleanupRemove
  <2> HIDE DEF at
  <2>2. CASE disk' = [disk EXCEPT !.auths = [disk.auths EXCEPT ![at] = NoGrant]]
    <3>1. disk'.auths = [disk.auths EXCEPT ![at] = NoGrant]
      BY <1>0, <2>2 DEF IsDisk
    <3> QED BY <1>0, <3>1 DEF GrantsGo, DiskTyped
  <2>3. CASE \E x : \/ disk' = [disk EXCEPT !.active = x] \/ disk' = [disk EXCEPT !.dirs = x]
                    \/ disk' = [disk EXCEPT !.records = x] \/ disk' = [disk EXCEPT !.temps = x]
                    \/ disk' = [disk EXCEPT !.left = x] \/ disk' = [disk EXCEPT !.staging = x]
                    \/ disk' = [disk EXCEPT !.tombs = x]
    BY <1>0, <1>1, <2>3, OtherPart
  <2> QED BY <1>1, <2>1, <2>2, <2>3
<1>10. CASE DeleteProfile(q)
  <2>1. disk' = disk \/ \E x : disk' = [disk EXCEPT !.profile = x]
    BY <1>10 DEF DeleteProfile
  <2> QED BY <1>0, <1>1, <2>1, OtherPart
<1>11. CASE RestoreProfile(q)
  <2> DEFINE restored == disk.profile \/ job[q].gone
  <2>1. disk' = disk \/ disk' = [disk EXCEPT !.profile = restored]
    BY <1>11 DEF RestoreProfile
  <2> HIDE DEF restored
  <2> QED BY <1>0, <1>1, <2>1, OtherPart
<1>12. CASE DeleteRecord(q) \/ RestoreRecord(q) \/ RestoreDir(q)
  <2>1. \/ disk' = disk
        \/ \E x : disk' = [disk EXCEPT !.records = x]
        \/ \E x : disk' = [disk EXCEPT !.dirs = x, !.tomb = NoDir]
    BY <1>12 DEF DeleteRecord, RestoreRecord, RestoreDir
  <2>2. ASSUME NEW x, NEW y, disk' = [disk EXCEPT !.dirs = x, !.tomb = y] PROVE disk'.auths = disk.auths
    BY <1>0, <2>2 DEF IsDisk
  <2>3. CASE \E x : disk' = [disk EXCEPT !.records = x]
    BY <1>0, <1>1, <2>3, OtherPart
  <2> QED BY <1>1, <2>1, <2>2, <2>3
<1>13. CASE Report(q)
  <2>1. disk' = disk \/ disk' = [disk EXCEPT !.tomb = NoDir, !.tombs = disk.tombs + 1]
    BY <1>13 DEF Report
  <2>2. ASSUME NEW x, NEW y, disk' = [disk EXCEPT !.tomb = x, !.tombs = y] PROVE disk'.auths = disk.auths
    BY <1>0, <2>2 DEF IsDisk
  <2> QED BY <1>1, <2>1, <2>2
<1>14. CASE Crash(q)
  <2> DEFINE one == IF Here(disk.staging[q]) THEN [disk EXCEPT !.staging[q] = NoDir, !.left = disk.left + 1] ELSE disk
             e == IF lock = q /\ Here(one.tomb) THEN [one EXCEPT !.tomb = NoDir, !.tombs = one.tombs + 1] ELSE one
  <2>1. Orphaned(disk, q) = e
    BY DEF Orphaned
  <2>2. IsDisk(Orphaned(disk, q))
    BY OrphanedAre DEF Abandons
  <2>3. IsDisk(one) /\ one.auths = disk.auths
    <3>1. CASE ~Here(disk.staging[q])
      BY <1>0, <3>1
    <3>2. ASSUME Here(disk.staging[q]), NEW x, NEW y, one = [disk EXCEPT !.staging = x, !.left = y]
          PROVE  IsDisk(one) /\ one.auths = disk.auths
      <4> HIDE DEF one
      <4>1. Sets2(disk, one, "staging", x, "left", y)
        BY <1>0, <3>2, PutStagingLeft
      <4> QED BY <4>1 DEF Sets2, Only, Fields
    <3> QED BY <3>1, <3>2
  <2> HIDE DEF one
  <2>4. e = one \/ e = [one EXCEPT !.tomb = NoDir, !.tombs = one.tombs + 1]
    OBVIOUS
  <2>5. e.auths = disk.auths
    <3> HIDE DEF e
    <3>1. ASSUME NEW x, NEW y, e = [one EXCEPT !.tomb = x, !.tombs = y] PROVE e.auths = one.auths
      BY <2>3, <3>1 DEF IsDisk
    <3> QED BY <2>3, <2>4, <3>1
  <2> HIDE DEF e
  <2>6. \E x : disk' = [e EXCEPT !.temps = x]
    BY <1>14, <2>1 DEF Crash
  <2>7. IsDisk(e)
    BY <2>1, <2>2
  <2>8. ASSUME NEW x, disk' = [e EXCEPT !.temps = x] PROVE disk'.auths = e.auths
    BY <2>7, <2>8, OtherPart
  <2> QED BY <1>1, <2>5, <2>6, <2>8
<1> QED BY <1>2, <1>3, <1>4, <1>5, <1>6, <1>7, <1>8, <1>9, <1>10, <1>11, <1>12, <1>13, <1>14 DEF Elsehow

\* They bring no authorization of what is being uninstalled.
LEMMA OnwardKeeps ==
  ASSUME StoreInv, GrantFree, NEW q \in Processes, NEW s, NEW w, Onward(q, s, w), GrantsGo
  PROVE  GrantFree'
<1>1. pc \in [Processes -> Locked \cup Unlocked] /\ job = [p \in Processes |-> job[p]]
  BY DEF StoreInv, TypeOK, Jobs
<1>2. pc'[q] = s /\ job'[q] = w /\ \A p \in Processes \ {q} : pc'[p] = pc[p] /\ job'[p] = job[p]
  BY <1>1 DEF Onward
<1>3. Ungranted(q)'
  BY <1>2 DEF Onward, Ungranted
<1>4. ASSUME NEW p \in Processes \ {q} PROVE Ungranted(p)'
  <2> SUFFICES ASSUME pc[p] = "untomb" \/ (pc[p] = "report" /\ job[p].ok), ~job[p].raced
               PROVE  disk'.auths[job[p].v] = NoGrant /\ ~GrantUnderWay(job[p].v)'
    BY <1>2, Zenon DEF Ungranted, GrantUnderWay
  <2>1. disk.auths[job[p].v] = NoGrant /\ ~GrantUnderWay(job[p].v)
    BY Zenon DEF GrantFree, Ungranted
  <2>2. job[p].v \in Versions
    BY DEF StoreInv, Jobs
  <2>3. \A r \in Processes : pc'[r] = "grant" => pc[r] = "grant" /\ job'[r] = job[r]
    BY <1>2 DEF Onward
  <2>4. job'[p] = job[p]
    BY <1>2
  <2> QED BY <2>1, <2>2, <2>3, <2>4 DEF GrantsGo, GrantUnderWay
<1> QED BY <1>3, <1>4 DEF GrantFree

\* Only an installed version is granted, and none is that is being uninstalled.
LEMMA GrantCheckFree ==
  ASSUME StoreInv, GrantFree, NEW q \in Processes, GrantCheck(q)
  PROVE  GrantFree'
<1>1. pc \in [Processes -> Locked \cup Unlocked] /\ job = [p \in Processes |-> job[p]]
  BY DEF StoreInv, TypeOK, Jobs
<1>2. disk' = disk
  BY DEF GrantCheck
<1>3. CASE Ends(q)
  <2>1. Onward(q, "idle", NoJob)
    BY <1>3 DEF Onward, Ends, Goto
  <2>2. GrantsGo
    BY <1>2 DEF GrantsGo
  <2> QED BY <2>1, <2>2, OnwardKeeps
<1>4. CASE Goto(q, "grant") /\ SameJob /\ Installed(disk, job[q].v)
  <2>1. pc'[q] = "grant" /\ job' = job /\ \A p \in Processes \ {q} : pc'[p] = pc[p]
    BY <1>1, <1>4 DEF Goto, SameJob
  <2>2. Ungranted(q)'
    BY <2>1 DEF Ungranted
  <2>3. ASSUME NEW p \in Processes \ {q} PROVE Ungranted(p)'
    <3> SUFFICES ASSUME pc[p] = "untomb" \/ (pc[p] = "report" /\ job[p].ok), ~job[p].raced
                 PROVE  disk.auths[job[p].v] = NoGrant /\ ~GrantUnderWay(job[p].v)'
      BY <1>2, <2>1, Zenon DEF Ungranted, GrantUnderWay
    <3>1. disk.auths[job[p].v] = NoGrant /\ ~GrantUnderWay(job[p].v)
      BY Zenon DEF GrantFree, Ungranted
    <3>2. NoRecord(p)
      BY AtUninstall DEF Uninstall, Reported, Uninstalls
    <3>3. job[q].v # job[p].v
      BY <1>4, <3>2 DEF Installed, NoRecord
    <3> QED BY <2>1, <3>1, <3>3 DEF GrantUnderWay
  <2> QED BY <2>2, <2>3 DEF GrantFree
<1> QED BY <1>3, <1>4 DEF GrantCheck

\* Whoever writes an authorization was about to.
LEMMA GrantWriteFree ==
  ASSUME StoreInv, GrantFree, NEW q \in Processes, GrantWrite(q)
  PROVE  GrantFree'
<1> DEFINE x == [pkg |-> job[q].pkg, grants |-> job[q].grants]
<1>1. pc \in [Processes -> Locked \cup Unlocked] /\ job = [p \in Processes |-> job[p]]
  BY DEF StoreInv, TypeOK, Jobs
<1>2. pc[q] = "grant" /\ Ends(q) /\ (disk' = disk \/ disk' = [disk EXCEPT !.auths[job[q].v] = x])
  BY DEF GrantWrite
<1> HIDE DEF x
<1>3. pc'[q] = "idle" /\ \A p \in Processes \ {q} : pc'[p] = pc[p] /\ job'[p] = job[p]
  BY <1>1, <1>2 DEF Ends, Goto
<1>4. \A v \in Versions : v # job[q].v => disk'.auths[v] = disk.auths[v]
  <2>1. disk' = disk \/ disk'.auths = [disk.auths EXCEPT ![job[q].v] = x]
    BY <1>2, TheDisk DEF IsDisk
  <2>2. disk.auths \in [Versions -> Grants \cup {NoGrant}]
    BY TheDisk DEF DiskTyped
  <2> QED BY <2>1, <2>2
<1>5. Ungranted(q)'
  BY <1>3 DEF Ungranted
<1>6. ASSUME NEW p \in Processes \ {q} PROVE Ungranted(p)'
  <2> SUFFICES ASSUME pc[p] = "untomb" \/ (pc[p] = "report" /\ job[p].ok), ~job[p].raced
               PROVE  disk'.auths[job[p].v] = NoGrant /\ ~GrantUnderWay(job[p].v)'
    BY <1>3, Zenon DEF Ungranted, GrantUnderWay
  <2>1. disk.auths[job[p].v] = NoGrant /\ ~GrantUnderWay(job[p].v)
    BY Zenon DEF GrantFree, Ungranted
  <2>2. job[p].v \in Versions
    BY DEF StoreInv, Jobs
  <2>3. job[q].v # job[p].v
    BY <1>2, <2>1 DEF GrantUnderWay
  <2>4. \A r \in Processes : pc'[r] = "grant" => pc[r] = "grant" /\ job'[r] = job[r]
    BY <1>3
  <2>5. job'[p] = job[p]
    BY <1>3
  <2> QED BY <1>4, <2>1, <2>2, <2>3, <2>4, <2>5 DEF GrantUnderWay
<1> QED BY <1>5, <1>6 DEF GrantFree

\* An uninstall deletes the authorization, and notes who is about to write one.
LEMMA DeletesFree ==
  ASSUME StoreInv, GrantFree, NEW q \in Processes, DeleteGrant(q) \/ DeleteTomb(q)
  PROVE  GrantFree'
<1> DEFINE v == job[q].v
<1>1. pc \in [Processes -> Locked \cup Unlocked] /\ job = [p \in Processes |-> job[p]]
  BY DEF StoreInv, TypeOK, Jobs
<1>2. pc[q] \in {"ungrant", "untomb"} /\ pc[q] \in Uninstalls
  BY DEF DeleteGrant, DeleteTomb, Uninstalls
<1>3. IsDisk(disk) /\ DiskTyped(disk) /\ IsJob(job[q]) /\ v \in Versions /\ lock = q /\ ~job[q].ok
  BY <1>2, AtUninstall DEF Uninstall
<1>4. \A p \in Processes \ {q} : pc[p] \notin {"untomb", "report"}
  BY <1>3 DEF StoreInv, LockHeld, Locked
<1>5. ASSUME NEW s, NEW w, pc' = [pc EXCEPT ![q] = s], job' = [job EXCEPT ![q] = w], s # "grant", w.v = v,
             w.raced \/ (disk'.auths[v] = NoGrant /\ ~GrantUnderWay(v))
      PROVE  GrantFree'
  <2>1. pc'[q] = s /\ job'[q] = w /\ \A p \in Processes \ {q} : pc'[p] = pc[p] /\ job'[p] = job[p]
    BY <1>1, <1>5
  <2>2. \A r \in Processes : pc'[r] = "grant" => pc[r] = "grant" /\ job'[r] = job[r]
    BY <1>5, <2>1
  <2>3. ~GrantUnderWay(v) => ~\E r \in Processes : pc'[r] = "grant" /\ job'[r].v = v
    BY <2>2 DEF GrantUnderWay
  <2>4. Ungranted(q)'
    BY <1>5, <2>1, <2>3, Zenon DEF Ungranted, GrantUnderWay
  <2>5. \A p \in Processes \ {q} : Ungranted(p)'
    BY <1>4, <2>1 DEF Ungranted
  <2> QED BY <2>4, <2>5 DEF GrantFree
<1>6. ASSUME NEW s, NEW w, Onward(q, s, w), disk' = disk PROVE GrantFree'
  <2>1. GrantsGo
    BY <1>6 DEF GrantsGo
  <2> QED BY <1>6, <2>1, OnwardKeeps
<1>7. CASE DeleteGrant(q)
  <2> DEFINE w == [job[q] EXCEPT !.raced = GrantUnderWay(v)]
             u == [job[q] EXCEPT !.undone = TRUE]
  <2>1. \/ disk' = [disk EXCEPT !.auths[v] = NoGrant] /\ Uninstalling(q, "untomb", w)
        \/ disk' = disk /\ Uninstalling(q, "restoreRecord", u)
    BY <1>7 DEF DeleteGrant
  <2>2. CASE disk' = [disk EXCEPT !.auths[v] = NoGrant] /\ Uninstalling(q, "untomb", w)
    <3>1. disk'.auths = [disk.auths EXCEPT ![v] = NoGrant]
      BY <1>3, <2>2 DEF IsDisk
    <3>2. disk'.auths[v] = NoGrant
      BY <1>3, <3>1 DEF DiskTyped
    <3>3. JobSets(job[q], w, "raced", GrantUnderWay(v))
      BY <1>3, JobPut
    <3>4. w.v = v /\ w.raced = GrantUnderWay(v)
      BY <3>3 DEF JobSets
    <3>5. pc' = [pc EXCEPT ![q] = "untomb"] /\ job' = [job EXCEPT ![q] = w]
      BY <2>2 DEF Uninstalling, Goto
    <3> HIDE DEF w, v
    <3>6. w.raced \/ (disk'.auths[v] = NoGrant /\ ~GrantUnderWay(v))
      BY <3>2, <3>4, Zenon
    <3> QED BY <1>5, <3>4, <3>5, <3>6
  <2>3. CASE disk' = disk /\ Uninstalling(q, "restoreRecord", u)
    <3>1. Onward(q, "restoreRecord", u)
      BY <2>3 DEF Onward, Uninstalling, Goto
    <3> HIDE DEF u
    <3> QED BY <1>6, <2>3, <3>1
  <2> QED BY <2>1, <2>2, <2>3
<1>8. CASE DeleteTomb(q)
  <2> DEFINE w == [job[q] EXCEPT !.ok = TRUE]
  <2>1. pc[q] = "untomb"
    BY <1>8 DEF DeleteTomb
  <2>2. \/ disk' = [disk EXCEPT !.tomb = NoDir] /\ Uninstalling(q, "report", w)
        \/ disk' = disk /\ Uninstalling(q, "report", job[q])
    BY <1>8 DEF DeleteTomb
  <2>3. CASE disk' = [disk EXCEPT !.tomb = NoDir] /\ Uninstalling(q, "report", w)
    <3>1. disk'.auths = disk.auths
      BY <1>3, <2>3, OtherPart
    <3>2. JobSets(job[q], w, "ok", TRUE)
      BY <1>3, JobPut
    <3>3. w.v = v /\ w.raced = job[q].raced
      BY <3>2 DEF JobSets
    <3>4. pc' = [pc EXCEPT ![q] = "report"] /\ job' = [job EXCEPT ![q] = w]
      BY <2>3 DEF Uninstalling, Goto
    <3>5. job[q].raced \/ (disk.auths[v] = NoGrant /\ ~GrantUnderWay(v))
      BY <2>1, Zenon DEF GrantFree, Ungranted
    <3> HIDE DEF w, v
    <3>6. w.raced \/ (disk'.auths[v] = NoGrant /\ ~GrantUnderWay(v))
      BY <3>1, <3>3, <3>5, Zenon
    <3> QED BY <1>5, <3>3, <3>4, <3>6
  <2>4. CASE disk' = disk /\ Uninstalling(q, "report", job[q])
    <3>1. Onward(q, "report", job[q])
      BY <1>3, <2>4 DEF Onward, Uninstalling, Goto
    <3> QED BY <1>6, <2>4, <3>1
  <2> QED BY <2>2, <2>3, <2>4
<1> QED BY <1>7, <1>8

\* When an uninstall has deleted the authorization of a version, there is none
\* as long as the uninstall lasts, unless another process had already checked
\* and not yet written one (plugin_store.cpp:1037-1060,
\* plugin_authorization_store.cpp's save_plugin_authorization).
THEOREM AuthorizationGone == Spec => []GrantFree
<1>1. Init => GrantFree
  <2> SUFFICES ASSUME Init, NEW p \in Processes PROVE Ungranted(p)
    BY DEF GrantFree
  <2>1. pc[p] = "idle"
    BY DEF Init
  <2> QED BY <2>1 DEF Ungranted
<1>2. ASSUME StoreInv, GrantFree, [Next]_vars PROVE GrantFree'
  <2>1. ASSUME pc' = pc, job' = job, disk'.auths = disk.auths PROVE GrantFree'
    BY <1>2, <2>1 DEF GrantFree, Ungranted, GrantUnderWay
  <2>2. CASE UNCHANGED vars
    BY <2>1, <2>2 DEF vars
  <2>3. CASE Host
    <3>1. disk' = disk \/ disk' = [disk EXCEPT !.profile = TRUE]
      BY <2>3 DEF Host, HostQueries, HostPrepares
    <3>2. disk'.auths = disk.auths
      BY <1>2, <3>1, TheDisk, OtherPart
    <3> QED BY <2>1, <2>3, <3>2 DEF Host
  <2>4. ASSUME NEW p \in Processes, Step(p) PROVE GrantFree'
    <3>1. CASE Elsehow(p)
      BY <1>2, <3>1, ElsehowGoes, ElsehowWrites, OnwardKeeps
    <3>2. CASE GrantCheck(p)
      BY <1>2, <3>2, GrantCheckFree
    <3>3. CASE GrantWrite(p)
      BY <1>2, <3>3, GrantWriteFree
    <3>4. CASE DeleteGrant(p) \/ DeleteTomb(p)
      BY <1>2, <3>4, DeletesFree
    <3> QED BY <2>4, <3>1, <3>2, <3>3, <3>4 DEF Step, Elsehow, Unhurried
  <2> QED BY <1>2, <2>2, <2>3, <2>4 DEF Next
<1> QED BY <1>1, <1>2, StoreInvariant, PTL DEF Spec

\* An uninstall reports what it did.  When it succeeds, the directory, the record
\* and the tombstone are gone, and so is the authorization unless another process
\* was about to write one when it was deleted; when it says that the version was
\* not removed, all is as it was; otherwise the files are in their place or in
\* the tombstone (plugin_store.cpp:1004-1060).
THEOREM UninstallReports == Spec => []UninstallHonest
<1>1. ASSUME StoreInv, GrantFree, NEW p \in Processes, pc[p] = "report"
      PROVE  LET v == job[p].v
             IN /\ job[p].ok => /\ ~Here(disk.dirs[v]) /\ ~Here(disk.tomb)
                                /\ disk.records[v] = NoPackage
                                /\ disk.auths[v] = NoGrant \/ job[p].raced
                /\ ~job[p].removed => /\ disk.dirs[v] = job[p].dir /\ ~Here(disk.tomb)
                                      /\ disk.records[v] = job[p].pkg
                                      /\ job[p].profile => disk.profile
                /\ job[p].removed /\ ~job[p].ok => job[p].dir \in {disk.tomb, disk.dirs[v]}
                /\ disk.active # NoPackage => VersionOf[disk.active] # v
  <2>1. pc[p] \in Uninstalls
    BY <1>1 DEF Uninstalls
  <2>2. Reported(p) /\ ActiveIsNot(job[p].v)
    BY <1>1, <2>1, AtUninstall
  <2>3. job[p].ok => disk.auths[job[p].v] = NoGrant \/ job[p].raced
    BY <1>1, Zenon DEF GrantFree, Ungranted
  <2>4. job[p].ok => ~Here(disk.dirs[job[p].v]) /\ ~Here(disk.tomb) /\ disk.records[job[p].v] = NoPackage
    BY <1>1, <2>2, DirTypes DEF Reported, NoRecord
  <2>5. ~job[p].removed => /\ disk.dirs[job[p].v] = job[p].dir /\ ~Here(disk.tomb)
                           /\ disk.records[job[p].v] = job[p].pkg /\ (job[p].profile => disk.profile)
    BY <1>1, <2>2, DirTypes DEF Reported, InPlace, HasRecord
  <2>6. job[p].removed /\ ~job[p].ok => job[p].dir \in {disk.tomb, disk.dirs[job[p].v]}
    BY <1>1, <2>2 DEF Reported, InPlace, InTomb
  <2> QED BY <2>2, <2>3, <2>4, <2>5, <2>6, Zenon DEF ActiveIsNot
<1>2. StoreInv /\ GrantFree => UninstallHonest
  BY <1>1 DEF UninstallHonest
<1> QED BY <1>2, StoreInvariant, AuthorizationGone, PTL

---------------------------------------------------------------------------
(* Which steps make a version one that queries do not accept *)

\* Most steps leave the version directories and records as they are.
LEMMA Elsewhere ==
  ASSUME StoreInv, NEW p \in Processes,
         \/ \E pkg \in Packages, consent \in BOOLEAN : StartInstall(p, pkg, consent)
         \/ Extracted(p) \/ Discard(p) \/ PublishActive(p) \/ GrantWrite(p) \/ ActivateWrite(p) \/ Deactivate(p)
         \/ DeleteProfile(p) \/ DeleteGrant(p) \/ DeleteTomb(p) \/ RestoreProfile(p) \/ Report(p) \/ Crash(p)
  PROVE  disk'.dirs = disk.dirs /\ disk'.records = disk.records
<1>0. IsDisk(disk)
  BY TheDisk
<1>1. ASSUME NEW f \in {"active", "auths", "staging", "tomb", "profile"}, NEW x, Sets(disk, disk', f, x)
      PROVE  disk'.dirs = disk.dirs /\ disk'.records = disk.records
  BY <1>1 DEF Sets, Only, Fields
<1>2. CASE \E pkg \in Packages, consent \in BOOLEAN : StartInstall(p, pkg, consent)
  <2>1. PICK pkg \in Packages : disk' = [disk EXCEPT !.staging[p] = Dir(pkg, "part")]
    BY <1>2 DEF StartInstall
  <2>2. \E x : disk' = [disk EXCEPT !.staging = x]
    BY <2>1
  <2> QED BY <1>0, <1>1, <2>2, PutField
<1>3. CASE Extracted(p)
  <2>1. disk' = disk \/ \E files : disk' = [disk EXCEPT !.staging[p].files = files]
    BY <1>3 DEF Extracted
  <2>2. disk' = disk \/ \E x : disk' = [disk EXCEPT !.staging = x]
    BY <2>1
  <2> QED BY <1>0, <1>1, <2>2, PutField
<1>4. CASE Discard(p)
  <2>1. \/ disk' = [disk EXCEPT !.staging[p] = NoDir]
        \/ disk' = [disk EXCEPT !.staging[p] = NoDir, !.left = disk.left + 1]
    BY <1>4 DEF Discard
  <2>2. CASE disk' = [disk EXCEPT !.staging[p] = NoDir]
    BY <1>0, <1>1, <2>2, PutField
  <2>3. CASE disk' = [disk EXCEPT !.staging[p] = NoDir, !.left = disk.left + 1]
    BY <1>0, <2>3 DEF IsDisk
  <2> QED BY <2>1, <2>2, <2>3
<1>5. CASE PublishActive(p) \/ ActivateWrite(p) \/ Deactivate(p)
  <2>1. disk' = disk \/ \E x : disk' = [disk EXCEPT !.active = x]
    BY <1>5 DEF PublishActive, ActivateWrite, Deactivate
  <2> QED BY <1>0, <1>1, <2>1, PutField
<1>6. CASE GrantWrite(p) \/ DeleteGrant(p)
  <2>1. disk' = disk \/ \E x : disk' = [disk EXCEPT !.auths = x]
    BY <1>6 DEF GrantWrite, DeleteGrant
  <2> QED BY <1>0, <1>1, <2>1, PutField
<1>7. CASE DeleteProfile(p)
  <2>1. disk' = disk \/ \E x : disk' = [disk EXCEPT !.profile = x]
    BY <1>7 DEF DeleteProfile
  <2> QED BY <1>0, <1>1, <2>1, PutField
<1>8. CASE RestoreProfile(p)
  <2> DEFINE restored == disk.profile \/ job[p].gone
  <2>1. disk' = disk \/ disk' = [disk EXCEPT !.profile = restored]
    BY <1>8 DEF RestoreProfile
  <2> HIDE DEF restored
  <2> QED BY <1>0, <1>1, <2>1, PutField
<1>9. CASE DeleteTomb(p)
  <2>1. disk' = disk \/ disk' = [disk EXCEPT !.tomb = NoDir]
    BY <1>9 DEF DeleteTomb
  <2> QED BY <1>0, <1>1, <2>1, PutField
<1>10. CASE Report(p)
  <2>1. disk' = disk \/ disk' = [disk EXCEPT !.tomb = NoDir, !.tombs = disk.tombs + 1]
    BY <1>10 DEF Report
  <2> QED BY <1>0, <2>1 DEF IsDisk
<1>11. CASE Crash(p)
  <2> DEFINE e == Orphaned(disk, p)
  <2>1. Abandons(disk, e, p)
    BY OrphanedAre
  <2>2. \E x : disk' = [e EXCEPT !.temps = x]
    BY <1>11 DEF Crash
  <2> HIDE DEF e
  <2>3. IsDisk(e) /\ e.dirs = disk.dirs /\ e.records = disk.records
    BY <2>1 DEF Abandons
  <2>4. PICK x : Sets(e, disk', "temps", x)
    BY <2>2, <2>3, PutField
  <2> QED BY <2>3, <2>4 DEF Sets, Only, Fields
<1> QED BY <1>2, <1>3, <1>4, <1>5, <1>6, <1>7, <1>8, <1>9, <1>10, <1>11

StillInstalled == \A v \in Versions : Installed(disk, v) => Installed(disk', v)

\* The others take no version from the queries, but for Detach and PublishRecord.
LEMMA MovesSpare ==
  ASSUME StoreInv, NEW p \in Processes, PublishMove(p) \/ DeleteRecord(p) \/ RestoreRecord(p) \/ RestoreDir(p)
  PROVE  StillInstalled
<1>0. IsDisk(disk) /\ DiskTyped(disk)
  BY TheDisk
<1>1. CASE PublishMove(p)
  <2> DEFINE v == job[p].v
  <2> DEFINE over == IF disk.records[v] = NoPackage THEN {} ELSE {"overOrphan"}
             moved == [disk.staging[p] EXCEPT !.marks = disk.staging[p].marks \cup over]
             left == [disk.staging EXCEPT ![p] = NoDir]
             harmed == IF "raided" \in disk.staging[p].marks THEN disk.harmed \cup {v} ELSE disk.harmed
  <2>1. \/ disk' = disk
        \/ /\ ~Here(disk.dirs[v])
           /\ disk' = [disk EXCEPT !.dirs = [disk.dirs EXCEPT ![v] = moved], !.staging = left, !.harmed = harmed]
    BY <1>1 DEF PublishMove
  <2> HIDE DEF moved, left, harmed
  <2>2. ASSUME ~Here(disk.dirs[v]), NEW dir, NEW st, NEW hm,
               disk' = [disk EXCEPT !.dirs = [disk.dirs EXCEPT ![v] = dir], !.staging = st, !.harmed = hm]
        PROVE  StillInstalled
    <3>1. disk'.dirs = [disk.dirs EXCEPT ![v] = dir] /\ disk'.records = disk.records
      BY <1>0, <2>2 DEF IsDisk
    <3>2. \A u \in Versions : u # v => disk'.dirs[u] = disk.dirs[u]
      BY <1>0, <3>1 DEF DiskTyped
    <3>3. ~Installed(disk, v)
      BY <2>2 DEF Installed, HasManifest, Here
    <3> QED BY <3>1, <3>2, <3>3 DEF StillInstalled, Installed
  <2> QED BY <2>1, <2>2 DEF StillInstalled
<1>2. CASE DeleteRecord(p) \/ RestoreRecord(p) \/ RestoreDir(p)
  <2> DEFINE v == job[p].v
  <2>1. pc[p] \in {"unrecord", "restoreRecord", "restoreDir"} /\ pc[p] \in Uninstalls
    BY <1>2 DEF DeleteRecord, RestoreRecord, RestoreDir, Uninstalls
  <2>2. disk.dirs[v] = NoDir /\ ~Installed(disk, v)
    BY <2>1, AtUninstall, DirTypes DEF Uninstall, InTomb, Installed
  <2>3. \/ disk' = disk
        \/ \E x : disk' = [disk EXCEPT !.records = [disk.records EXCEPT ![v] = x]]
        \/ disk' = [disk EXCEPT !.dirs = [disk.dirs EXCEPT ![v] = disk.tomb], !.tomb = NoDir]
    BY <1>2 DEF DeleteRecord, RestoreRecord, RestoreDir
  <2>4. ASSUME NEW x, disk' = [disk EXCEPT !.records = [disk.records EXCEPT ![v] = x]] PROVE StillInstalled
    <3>1. disk'.records = [disk.records EXCEPT ![v] = x] /\ disk'.dirs = disk.dirs
      BY <1>0, <2>4 DEF IsDisk
    <3>2. \A u \in Versions : u # v => disk'.records[u] = disk.records[u]
      BY <1>0, <3>1 DEF DiskTyped
    <3> QED BY <2>2, <3>1, <3>2 DEF StillInstalled, Installed
  <2>5. CASE disk' = [disk EXCEPT !.dirs = [disk.dirs EXCEPT ![v] = disk.tomb], !.tomb = NoDir]
    <3>1. disk'.dirs = [disk.dirs EXCEPT ![v] = disk.tomb] /\ disk'.records = disk.records
      BY <1>0, <2>5 DEF IsDisk
    <3>2. \A u \in Versions : u # v => disk'.dirs[u] = disk.dirs[u]
      BY <1>0, <3>1 DEF DiskTyped
    <3> QED BY <2>2, <3>1, <3>2 DEF StillInstalled, Installed
  <2> QED BY <2>3, <2>4, <2>5 DEF StillInstalled
<1> QED BY <1>1, <1>2

\* A cleanup removes only what queries do not accept.
LEMMA CleanupSpares ==
  ASSUME StoreInv, NEW p \in Processes, CleanupRemove(p)
  PROVE  StillInstalled
<1> DEFINE item == job[p].item
           at == item.at
<1>0. IsDisk(disk) /\ DiskTyped(disk)
  BY TheDisk
<1>1. pc[p] = "remove" /\ (disk' = Removed(disk, item) \/ disk' \in HalfRemoved(disk, item))
  BY DEF CleanupRemove
<1>2. item.kind \in {"orphaned_version", "orphaned_record"} => at \in Versions /\ ~Installed(disk, at)
  BY <1>1 DEF StoreInv, Phase, Removing
<1> HIDE DEF item, at
<1>3. \/ disk'.dirs = disk.dirs /\ disk'.records = disk.records
      \/ /\ item.kind = "orphaned_version" /\ disk'.records = disk.records
         /\ \E x : disk'.dirs = [disk.dirs EXCEPT ![at] = x]
      \/ /\ item.kind = "orphaned_record" /\ disk'.dirs = disk.dirs
         /\ \E x : disk'.records = [disk.records EXCEPT ![at] = x]
  <2>1. ASSUME NEW f \in {"active", "auths", "temps", "staging", "left", "tombs"}, NEW x, Sets(disk, disk', f, x)
        PROVE  disk'.dirs = disk.dirs /\ disk'.records = disk.records
    BY <2>1 DEF Sets, Only, Fields
  <2>2. \/ disk' = [disk EXCEPT !.active = NoPackage]
        \/ item.kind = "orphaned_version" /\ \E dir : disk' = [disk EXCEPT !.dirs = [disk.dirs EXCEPT ![at] = dir]]
        \/ item.kind = "orphaned_record" /\ disk' = [disk EXCEPT !.records = [disk.records EXCEPT ![at] = NoPackage]]
        \/ \E x : disk' = [disk EXCEPT !.auths = x]
        \/ \E x : disk' = [disk EXCEPT !.temps = x]
        \/ \E x : disk' = [disk EXCEPT !.left = x]
        \/ \E x : disk' = [disk EXCEPT !.staging = x]
        \/ \E x : disk' = [disk EXCEPT !.tombs = x]
        \/ disk' = disk
    BY <1>1, CleanupWrites DEF at
  <2>3. ASSUME item.kind = "orphaned_version", NEW dir, disk' = [disk EXCEPT !.dirs = [disk.dirs EXCEPT ![at] = dir]]
        PROVE  disk'.records = disk.records /\ disk'.dirs = [disk.dirs EXCEPT ![at] = dir]
    BY <1>0, <2>3 DEF IsDisk
  <2>4. ASSUME disk' = [disk EXCEPT !.records = [disk.records EXCEPT ![at] = NoPackage]]
        PROVE  disk'.dirs = disk.dirs /\ disk'.records = [disk.records EXCEPT ![at] = NoPackage]
    BY <1>0, <2>4 DEF IsDisk
  <2>5. CASE \E x : \/ disk' = [disk EXCEPT !.active = x] \/ disk' = [disk EXCEPT !.auths = x]
                    \/ disk' = [disk EXCEPT !.temps = x] \/ disk' = [disk EXCEPT !.left = x]
                    \/ disk' = [disk EXCEPT !.staging = x] \/ disk' = [disk EXCEPT !.tombs = x]
    BY <1>0, <2>1, <2>5, PutField
  <2> QED BY <2>2, <2>3, <2>4, <2>5
<1>4. \A x : /\ disk'.dirs = [disk.dirs EXCEPT ![at] = x] => \A u \in Versions : u # at => disk'.dirs[u] = disk.dirs[u]
             /\ disk'.records = [disk.records EXCEPT ![at] = x] => \A u \in Versions : u # at => disk'.records[u] = disk.records[u]
  BY <1>0 DEF DiskTyped
<1> QED BY <1>2, <1>3, <1>4 DEF StillInstalled, Installed

\* Detach and PublishRecord take only the version they are about.
LEMMA OwnVersionGoes ==
  ASSUME StoreInv, NEW p \in Processes, Detach(p) \/ PublishRecord(p), NEW v \in Versions, Installed(disk, v),
         ~Installed(disk', v)
  PROVE  job[p].v = v /\ pc[p] \in {"detach", "record"}
<1> DEFINE own == job[p].v
<1>0. IsDisk(disk) /\ DiskTyped(disk)
  BY TheDisk
<1>1. pc[p] \in {"detach", "record"}
  BY DEF Detach, PublishRecord
<1>2. \/ disk' = disk
      \/ \E x, y : disk' = [disk EXCEPT !.tomb = x, !.dirs = [disk.dirs EXCEPT ![own] = y]]
      \/ \E x, y : disk' = [disk EXCEPT !.records = [disk.records EXCEPT ![own] = x], !.dirs = [disk.dirs EXCEPT ![own] = y]]
      \/ \E x, y : disk' = [disk EXCEPT !.staging = x, !.dirs = [disk.dirs EXCEPT ![own] = y]]
  <2> DEFINE settled == [disk.dirs[own] EXCEPT !.marks = disk.dirs[own].marks \ {"overOrphan"}]
  <2>1. \/ disk' = disk
        \/ disk' = [disk EXCEPT !.tomb = disk.dirs[own], !.dirs = [disk.dirs EXCEPT ![own] = NoDir]]
        \/ disk' = [disk EXCEPT !.records = [disk.records EXCEPT ![own] = job[p].pkg],
                                !.dirs = [disk.dirs EXCEPT ![own] = settled]]
        \/ disk' = [disk EXCEPT !.staging = [disk.staging EXCEPT ![p] = settled], !.dirs = [disk.dirs EXCEPT ![own] = NoDir]]
    BY DEF Detach, PublishRecord
  <2> HIDE DEF settled
  <2> QED BY <2>1
<1> HIDE DEF own
<1>3. ASSUME v # own PROVE disk'.dirs[v] = disk.dirs[v] /\ disk'.records[v] = disk.records[v]
  <2>1. ASSUME NEW x, NEW y, disk' = [disk EXCEPT !.tomb = x, !.dirs = [disk.dirs EXCEPT ![own] = y]]
        PROVE  disk'.dirs = [disk.dirs EXCEPT ![own] = y] /\ disk'.records = disk.records
    BY <1>0, <2>1 DEF IsDisk
  <2>2. ASSUME NEW x, NEW y,
               disk' = [disk EXCEPT !.records = [disk.records EXCEPT ![own] = x], !.dirs = [disk.dirs EXCEPT ![own] = y]]
        PROVE  disk'.dirs = [disk.dirs EXCEPT ![own] = y] /\ disk'.records = [disk.records EXCEPT ![own] = x]
    BY <1>0, <2>2 DEF IsDisk
  <2>3. ASSUME NEW x, NEW y, disk' = [disk EXCEPT !.staging = x, !.dirs = [disk.dirs EXCEPT ![own] = y]]
        PROVE  disk'.dirs = [disk.dirs EXCEPT ![own] = y] /\ disk'.records = disk.records
    BY <1>0, <2>3 DEF IsDisk
  <2>4. /\ \A y : disk'.dirs = [disk.dirs EXCEPT ![own] = y] => disk'.dirs[v] = disk.dirs[v]
        /\ \A x : disk'.records = [disk.records EXCEPT ![own] = x] => disk'.records[v] = disk.records[v]
    BY <1>0, <1>3 DEF DiskTyped
  <2> QED BY <1>2, <2>1, <2>2, <2>3, <2>4
<1>4. v = own
  BY <1>3 DEF Installed
<1> QED BY <1>1, <1>4 DEF own

\* A version that queries accept stops being one only by its own uninstall, or
\* because the publication that moves it in takes it back: no cleanup, failure
\* or death of another command does it (plugin_store.cpp:902-926, 1000).
THEOREM InstalledVersionsStay == Spec => InstalledStays
<1> DEFINE A == \A v \in Versions :
                  Installed(disk, v) /\ ~Installed(disk', v) =>
                    \E p \in Processes : job[p].v = v /\ pc[p] \in {"detach", "record"}
<1>1. ASSUME StoreInv, [Next]_vars PROVE A
  <2>1. ASSUME StillInstalled PROVE A
    BY <2>1 DEF StillInstalled
  <2>2. ASSUME disk'.dirs = disk.dirs, disk'.records = disk.records PROVE A
    BY <2>2, <2>1 DEF StillInstalled, Installed
  <2>3. CASE UNCHANGED disk
    BY <2>2, <2>3
  <2>4. CASE Host
    <3>1. disk' = disk \/ disk' = [disk EXCEPT !.profile = TRUE]
      BY <2>4 DEF Host, HostQueries, HostPrepares
    <3>2. ASSUME disk' = [disk EXCEPT !.profile = TRUE] PROVE disk'.dirs = disk.dirs /\ disk'.records = disk.records
      BY <1>1, <3>2, TheDisk DEF IsDisk
    <3> QED BY <2>2, <2>3, <3>1, <3>2
  <2>5. ASSUME NEW p \in Processes, Step(p) PROVE A
    <3>1. CASE \/ \E pkg \in Packages, consent \in BOOLEAN : StartInstall(p, pkg, consent)
               \/ Extracted(p) \/ Discard(p) \/ PublishActive(p) \/ GrantWrite(p) \/ ActivateWrite(p) \/ Deactivate(p)
               \/ DeleteProfile(p) \/ DeleteGrant(p) \/ DeleteTomb(p) \/ RestoreProfile(p) \/ Report(p) \/ Crash(p)
      BY <1>1, <2>2, <3>1, Elsewhere
    <3>2. CASE PublishMove(p) \/ DeleteRecord(p) \/ RestoreRecord(p) \/ RestoreDir(p)
      BY <1>1, <2>1, <3>2, MovesSpare
    <3>3. CASE CleanupRemove(p)
      BY <1>1, <2>1, <3>3, CleanupSpares
    <3>4. CASE Detach(p) \/ PublishRecord(p)
      BY <1>1, <3>4, OwnVersionGoes
    <3>5. CASE Unhurried(p) \/ GrantCheck(p) \/ (\E v \in Versions : StartRevoke(p, v)) \/ ActivateCheck(p)
               \/ CleanupCheck(p) \/ UninstallCheck(p)
      <4>1. UNCHANGED disk
        BY <3>5 DEF Unhurried, StartActivate, StartDeactivate, StartUninstall, StartCleanup, LockTimeout, GrantCheck,
                    StartRevoke, ActivateCheck, CleanupCheck, UninstallCheck
      <4> QED BY <2>3, <4>1
    <3> HIDE DEF A
    <3> QED BY <2>5, <3>1, <3>2, <3>3, <3>4, <3>5 DEF Step, Unhurried
  <2> HIDE DEF A
  <2> QED BY <1>1, <2>3, <2>4, <2>5 DEF Next, vars
<1>2. ASSUME StoreInv, [Next]_vars
      PROVE  [\A v \in Versions:
               Installed(disk, v) /\ ~Installed(disk, v)' =>
                 \E p \in Processes: job[p].v = v /\ pc[p] \in {"detach", "record"}]_vars
  BY <1>1, <1>2 DEF Installed
<1> HIDE DEF A
<1> QED BY <1>2, StoreInvariant, PTL DEF InstalledStays, Spec

---------------------------------------------------------------------------
(* Cleaning up, item by item.  The fold that does it is defined by           *)
(* recursion over the finite sets of items; what it yields is shown by       *)
(* taking a smallest set of items of which it would not hold.                *)

\* A set of numbers has a least one.
LEMMA LeastNumber ==
  ASSUME NEW T, T \subseteq Nat, T # {}
  PROVE  \E n \in T : \A m \in T : ~ (m < n)
<1> DEFINE R == OpToRel(<, Nat)
<1>1. IsWellFoundedOn(R, Nat)
  BY NatLessThanWellFounded
<1>2. \A m, n \in Nat : m < n => <<m, n>> \in R
  BY DEF OpToRel
<1> HIDE DEF R
<1>3. PICK n \in T : \A m \in T : ~ (<<m, n>> \in R)
  BY <1>1, WFMin
<1> QED BY <1>2, <1>3

Taken(s) == CHOOSE x \in s : TRUE
Rest(s) == s \ {Taken(s)}

\* Cleaning up item by item is defined for every finite set of items.
LEMMA FoldDefined ==
  ASSUME NEW S, IsFiniteSet(S), NEW d
  PROVE  \E iter : /\ iter = [s \in SUBSET S |-> IF s = {} THEN d ELSE Cleaned(Taken(s), iter[Rest(s)])]
                   /\ FoldSet(Cleaned, d, S) = iter[S]
<1> DEFINE Upto(n) == {s \in SUBSET S : Cardinality(s) <= n}
           Unfolds(g, s) == IF s = {} THEN d ELSE Cleaned(Taken(s), g[Rest(s)])
           Folds(n) == \E g : g = [s \in Upto(n) |-> Unfolds(g, s)]
           T == {n \in Nat : ~Folds(n)}
<1>1. \A s \in SUBSET S : s # {} => /\ Rest(s) \in SUBSET S /\ Cardinality(s) \in Nat
                                    /\ Cardinality(Rest(s)) = Cardinality(s) - 1
  <2> SUFFICES ASSUME NEW s \in SUBSET S, s # {} 
               PROVE  Rest(s) \in SUBSET S /\ Cardinality(s) \in Nat /\ Cardinality(Rest(s)) = Cardinality(s) - 1
    OBVIOUS
  <2>1. IsFiniteSet(s)
    BY FS_Subset
  <2>2. Taken(s) \in s
    BY DEF Taken
  <2> QED BY <2>1, <2>2, FS_RemoveElement, FS_CardinalityType DEF Rest
<1>2. \A s \in SUBSET S : Cardinality(s) \in Nat /\ Cardinality(s) <= Cardinality(S)
  BY FS_Subset, FS_CardinalityType
<1>3. Folds(0)
  <2> DEFINE g == [s \in Upto(0) |-> d]
  <2>1. \A s \in Upto(0) : s = {}
    <3> SUFFICES ASSUME NEW s \in SUBSET S, Cardinality(s) <= 0 PROVE s = {}
      OBVIOUS
    <3>1. IsFiniteSet(s) /\ Cardinality(s) = 0
      BY <1>2, FS_Subset
    <3> QED BY <3>1, FS_EmptySet
  <2>2. \A s \in Upto(0) : Unfolds(g, s) = d
    BY <2>1
  <2>3. g = [s \in Upto(0) |-> Unfolds(g, s)]
    BY <2>2
  <2> QED BY <2>3
<1>4. ASSUME NEW n \in Nat, Folds(n) PROVE Folds(n + 1)
  <2>1. PICK g : g = [s \in Upto(n) |-> Unfolds(g, s)]
    BY <1>4
  <2> DEFINE h == [s \in Upto(n + 1) |-> IF s \in Upto(n) THEN g[s] ELSE Unfolds(g, s)]
  <2>2. Upto(n) \subseteq Upto(n + 1)
    BY <1>2
  <2>3. \A s \in Upto(n + 1) : s # {} => Rest(s) \in Upto(n)
    BY <1>1
  <2> HIDE DEF Upto
  <2>4. \A s \in Upto(n) : h[s] = g[s]
    BY <2>2
  <2>5. \A s \in Upto(n + 1) : Unfolds(h, s) = Unfolds(g, s)
    BY <2>3, <2>4
  <2>6. \A s \in Upto(n) : g[s] = Unfolds(g, s)
    BY <2>1
  <2> HIDE DEF Unfolds
  <2>7. h = [s \in Upto(n + 1) |-> Unfolds(h, s)]
    BY <2>5, <2>6
  <2> QED BY <2>7
<1> HIDE DEF Folds
<1>5. \A n \in Nat : Folds(n)
  <2> SUFFICES ASSUME T # {} PROVE FALSE
    OBVIOUS
  <2>1. PICK n \in T : \A m \in T : ~ (m < n)
    BY LeastNumber
  <2>2. n # 0 /\ n \in Nat
    BY <1>3
  <2>3. n - 1 \in Nat /\ n - 1 < n /\ n = (n - 1) + 1
    BY <2>2
  <2>4. Folds(n - 1)
    BY <2>1, <2>3
  <2>5. Folds(n)
    BY <1>4, <2>3, <2>4
  <2> QED BY <2>1, <2>5
<1>6. Upto(Cardinality(S)) = SUBSET S
  BY <1>2
<1>7. PICK g : g = [s \in SUBSET S |-> Unfolds(g, s)]
  <2>1. Folds(Cardinality(S))
    BY <1>5, FS_CardinalityType
  <2> QED BY <1>6, <2>1 DEF Folds
<1> DEFINE iter == CHOOSE f : f = [s \in SUBSET S |-> Unfolds(f, s)]
<1>8. iter = [s \in SUBSET S |-> Unfolds(iter, s)]
  <2> HIDE DEF Unfolds
  <2> QED BY <1>7, Zenon
<1>9. FoldSet(Cleaned, d, S) = iter[S]
  BY Zenon DEF FoldSet, MapThenFoldSet, Taken, Rest
<1> HIDE DEF iter
<1> QED BY <1>8, <1>9

\* What each item preserves, cleaning up preserves: J gives for each set of items the stores that may be
\* left once they are cleaned up.
LEMMA FoldKeeps ==
  ASSUME NEW S, IsFiniteSet(S), NEW d, NEW J, d \in J[{}],
         \A s \in SUBSET S : \A x \in s : \A e \in J[s \ {x}] : Cleaned(x, e) \in J[s]
  PROVE  FoldSet(Cleaned, d, S) \in J[S]
<1>1. PICK iter : /\ iter = [s \in SUBSET S |-> IF s = {} THEN d ELSE Cleaned(Taken(s), iter[Rest(s)])]
                  /\ FoldSet(Cleaned, d, S) = iter[S]
  BY FoldDefined
<1> DEFINE T == {s \in SUBSET S : iter[s] \notin J[s]}
<1>2. SUFFICES ASSUME T # {} PROVE FALSE
  BY <1>1
<1>3. T \subseteq FiniteSubsetsOf(S)
  BY FS_Subset DEF FiniteSubsetsOf
<1>4. PICK s \in T : \A u \in T : ~ (<<u, s>> \in StrictSubsetOrdering(S))
  BY <1>2, <1>3, FS_StrictSubsetOrderingWellFounded, WFMin
<1>5. s # {}
  BY <1>1
<1>6. Taken(s) \in s
  BY <1>5 DEF Taken
<1>7. Rest(s) \in SUBSET S /\ <<Rest(s), s>> \in StrictSubsetOrdering(S)
  BY <1>6 DEF Rest, StrictSubsetOrdering
<1>8. iter[Rest(s)] \in J[s \ {Taken(s)}]
  BY <1>4, <1>7 DEF Rest
<1>9. Cleaned(Taken(s), iter[Rest(s)]) \in J[s]
  BY <1>6, <1>8
<1> QED BY <1>1, <1>5, <1>9

\* The scan lists finitely many items.
LEMMA ItemsFinite ==
  ASSUME NEW kind, NEW S, IsFiniteSet(S)
  PROVE  IsFiniteSet({Item(kind, v) : v \in S})
<1> DEFINE T == {Item(kind, v) : v \in S}
           f == [v \in S |-> Item(kind, v)]
<1>1. f \in Surjection(S, T)
  BY DEF Surjection
<1> QED BY <1>1, FS_Surjection

\* A scan has finitely many places.
LEMMA ScanFinite ==
  ASSUME NEW d, DiskTyped(d)
  PROVE  IsFiniteSet(Scan(d))
<1>1. ASSUME NEW condition, NEW item PROVE IsFiniteSet(When(condition, item))
  BY FS_EmptySet, FS_Singleton DEF When
<1>2. ASSUME NEW S \in SUBSET Versions PROVE IsFiniteSet(S)
  BY FS_Subset, PackagesAssumption
<1>3. IsFiniteSet(d.temps)
  <2>1. IsFiniteSet({"records"} \cup {"active"} \cup {"authorizations"})
    BY FS_Singleton, FS_Union
  <2>2. d.temps \in SUBSET ({"records"} \cup {"active"} \cup {"authorizations"})
    BY DEF DiskTyped, Written
  <2> QED BY <2>1, <2>2, FS_Subset
<1>4. IsFiniteSet({q \in Processes : Here(d.staging[q])})
  BY FS_Subset, PackagesAssumption
<1>5. /\ IsFiniteSet(OrphanedVersions(d)) /\ IsFiniteSet(InactiveVersions(d))
      /\ IsFiniteSet(OrphanedRecords(d)) /\ IsFiniteSet(OrphanedAuthorizations(d))
  BY <1>2 DEF OrphanedVersions, InactiveVersions, OrphanedRecords, OrphanedAuthorizations
<1>6. /\ IsFiniteSet({Item("orphaned_version", v) : v \in OrphanedVersions(d)})
      /\ IsFiniteSet({Item("inactive_version", v) : v \in InactiveVersions(d)})
      /\ IsFiniteSet({Item("orphaned_record", v) : v \in OrphanedRecords(d)})
      /\ IsFiniteSet({Item("orphaned_authorization", v) : v \in OrphanedAuthorizations(d)})
      /\ IsFiniteSet({Item("temporary", t) : t \in d.temps})
      /\ IsFiniteSet({Item("retained_staging", p) : p \in {q \in Processes : Here(d.staging[q])}})
  BY <1>3, <1>4, <1>5, ItemsFinite
<1>7. ASSUME NEW A, NEW B, IsFiniteSet(A), IsFiniteSet(B) PROVE IsFiniteSet(A \cup B)
  BY <1>7, FS_Union
<1> QED BY <1>1, <1>6, <1>7, Zenon DEF Scan

\* What cleaning up may do to a store d: what is not there for a query goes, the rest is as it was.
Spares(d, e) ==
  /\ \A v \in Versions :
       /\ e.dirs[v] = d.dirs[v] \/ (e.dirs[v] = NoDir /\ ~Installed(d, v))
       /\ e.records[v] = d.records[v] \/ (e.records[v] = NoPackage /\ ~Installed(d, v))
       /\ e.auths[v] = d.auths[v] \/ (e.auths[v] = NoGrant /\ ~Loads(d, v))
  /\ e.active = d.active \/ (e.active = NoPackage /\ ~ActiveOk(d))
  /\ e.temps \subseteq d.temps

\* What these items name is gone.
Gone(s, e) ==
  /\ \A v \in Versions : /\ Item("orphaned_version", v) \in s => e.dirs[v] = NoDir
                         /\ Item("orphaned_record", v) \in s => e.records[v] = NoPackage
                         /\ Item("orphaned_authorization", v) \in s => e.auths[v] = NoGrant
  /\ Item("invalid_active_record", Left) \in s => e.active = NoPackage
  /\ \A t \in Written : Item("temporary", t) \in s => t \notin e.temps

\* One directory that nobody owns goes with each item for such.
LeftAfter(d, s) == IF Item("retained_staging", Left) \in s THEN d.left - 1 ELSE d.left
TombsAfter(d, s) == IF Item("retained_uninstall", Left) \in s THEN d.tombs - 1 ELSE d.tombs

After(d, s, e) == Spares(d, e) /\ Gone(s, e) /\ e.left = LeftAfter(d, s) /\ e.tombs = TombsAfter(d, s)

\* Cleaning up never makes of something invalid something valid, or the reverse.
LEMMA SameAnswers ==
  ASSUME NEW d, DiskTyped(d), NEW e, DiskTyped(e), Spares(d, e)
  PROVE  /\ \A v \in Versions : (Installed(e, v) <=> Installed(d, v)) /\ (Loads(e, v) => Loads(d, v))
         /\ ActiveOk(e) => ActiveOk(d)
<1>1. ASSUME NEW v \in Versions
      PROVE  /\ Installed(e, v) <=> Installed(d, v)
             /\ Installed(d, v) => e.dirs[v] = d.dirs[v] /\ e.records[v] = d.records[v]
  <2>1. /\ e.dirs[v] = d.dirs[v] \/ (e.dirs[v] = NoDir /\ ~Installed(d, v))
        /\ e.records[v] = d.records[v] \/ (e.records[v] = NoPackage /\ ~Installed(d, v))
    BY DEF Spares
  <2> QED BY <2>1, DirTypes DEF Installed
<1>2. ASSUME NEW v \in Versions, Loads(e, v) PROVE Loads(d, v)
  <2>1. e.auths[v] = d.auths[v]
    BY <1>2 DEF Loads, Spares
  <2> QED BY <1>1, <1>2, <2>1 DEF Loads, Canonical
<1>3. ASSUME ActiveOk(e) PROVE ActiveOk(d)
  <2>1. e.active = d.active /\ d.active # NoPackage
    BY <1>3 DEF ActiveOk, Spares
  <2>2. VersionOf[d.active] \in Versions
    BY <2>1, PackagesAssumption DEF DiskTyped
  <2> QED BY <1>1, <1>3, <2>1, <2>2 DEF ActiveOk
<1> QED BY <1>1, <1>2, <1>3

\* Removing one item removes what it names, and nothing else.
LEMMA ItemRemoved ==
  ASSUME NEW e, DiskTyped(e), NEW c, NEW at
  PROVE  /\ c = Removed(e, Item("invalid_active_record", at)) => Sets(e, c, "active", NoPackage)
         /\ c = Removed(e, Item("orphaned_version", at)) => Sets(e, c, "dirs", [e.dirs EXCEPT ![at] = NoDir])
         /\ c = Removed(e, Item("orphaned_record", at)) => Sets(e, c, "records", [e.records EXCEPT ![at] = NoPackage])
         /\ c = Removed(e, Item("orphaned_authorization", at)) => Sets(e, c, "auths", [e.auths EXCEPT ![at] = NoGrant])
         /\ c = Removed(e, Item("temporary", at)) => Sets(e, c, "temps", e.temps \ {at})
         /\ c = Removed(e, Item("retained_staging", Left)) => Sets(e, c, "left", e.left - 1)
         /\ c = Removed(e, Item("retained_uninstall", at)) => Sets(e, c, "tombs", e.tombs - 1)
<1>1. IsDisk(e)
  BY DEF DiskTyped
<1>2. \A kind, x : Item(kind, x).kind = kind /\ Item(kind, x).at = x
  BY DEF Item
<1>3. Removed(e, Item("invalid_active_record", at)) = [e EXCEPT !.active = NoPackage]
  BY <1>2 DEF Removed
<1>4. Removed(e, Item("orphaned_version", at)) = [e EXCEPT !.dirs = [e.dirs EXCEPT ![at] = NoDir]]
  BY <1>2 DEF Removed
<1>5. Removed(e, Item("orphaned_record", at)) = [e EXCEPT !.records = [e.records EXCEPT ![at] = NoPackage]]
  BY <1>2 DEF Removed
<1>6. Removed(e, Item("orphaned_authorization", at)) = [e EXCEPT !.auths = [e.auths EXCEPT ![at] = NoGrant]]
  BY <1>2 DEF Removed
<1>7. Removed(e, Item("temporary", at)) = [e EXCEPT !.temps = e.temps \ {at}]
  <2> DEFINE item == Item("temporary", at)
  <2>1. item.kind = "temporary" /\ item.at = at
    BY <1>2
  <2> HIDE DEF item
  <2>2. Removed(e, item) = [e EXCEPT !.temps = e.temps \ {item.at}]
    BY <2>1 DEF Removed
  <2> QED BY <2>1, <2>2 DEF item
<1>8. Removed(e, Item("retained_staging", Left)) = [e EXCEPT !.left = e.left - 1]
  <2> DEFINE item == Item("retained_staging", Left)
  <2>1. item.kind = "retained_staging" /\ item.at = Left
    BY <1>2
  <2> HIDE DEF item
  <2>2. Removed(e, item) = [e EXCEPT !.left = e.left - 1]
    BY <2>1 DEF Removed
  <2> QED BY <2>2 DEF item
<1>9. Removed(e, Item("retained_uninstall", at)) = [e EXCEPT !.tombs = e.tombs - 1]
  BY <1>2 DEF Removed
<1> QED BY <1>1, <1>3, <1>4, <1>5, <1>6, <1>7, <1>8, <1>9, PutField

\* What of each kind the scan lists.
LEMMA ScanLists ==
  ASSUME NEW e, NEW at
  PROVE  /\ e.active # NoPackage /\ ~ActiveOk(e) => Item("invalid_active_record", Left) \in Scan(e)
         /\ at \in OrphanedVersions(e) => Item("orphaned_version", at) \in Scan(e)
         /\ at \in OrphanedRecords(e) => Item("orphaned_record", at) \in Scan(e)
         /\ at \in OrphanedAuthorizations(e) => Item("orphaned_authorization", at) \in Scan(e)
         /\ at \in e.temps => Item("temporary", at) \in Scan(e)
         /\ e.left > 0 => Item("retained_staging", Left) \in Scan(e)
         /\ e.tombs > 0 => Item("retained_uninstall", Left) \in Scan(e)
BY Zenon DEF Scan, When

\* What is there of the store e is still there of c, or gone.
Shrinks(e, c) ==
  /\ \A v \in Versions : c.dirs[v] \in {e.dirs[v], NoDir} /\ c.records[v] \in {e.records[v], NoPackage}
                         /\ c.auths[v] \in {e.auths[v], NoGrant}
  /\ c.active \in {e.active, NoPackage} /\ c.temps \subseteq e.temps

\* Cleaning up one item more.
LEMMA OneMore ==
  ASSUME NEW d, NEW s, NEW x \in s, NEW e, After(d, s \ {x}, e), NEW c, Spares(d, c), Shrinks(e, c), Gone({x}, c)
  PROVE  Gone(s, c)
<1>1. \A y : y \in s => y = x \/ y \in s \ {x}
  OBVIOUS
<1>2. Gone(s \ {x}, e)
  BY DEF After
<1>3. ASSUME NEW v \in Versions
      PROVE  /\ Item("orphaned_version", v) \in s => c.dirs[v] = NoDir
             /\ Item("orphaned_record", v) \in s => c.records[v] = NoPackage
             /\ Item("orphaned_authorization", v) \in s => c.auths[v] = NoGrant
  BY <1>1, <1>2 DEF Gone, Shrinks
<1>4. Item("invalid_active_record", Left) \in s => c.active = NoPackage
  BY <1>1, <1>2 DEF Gone, Shrinks
<1>5. \A t \in Written : Item("temporary", t) \in s => t \notin c.temps
  BY <1>1, <1>2 DEF Gone, Shrinks
<1> QED BY <1>3, <1>4, <1>5 DEF Gone

\* Cleaning up an item removes it, whatever was cleaned up before, and spares what is valid.
LEMMA CleanedItem ==
  ASSUME NEW d, DiskTyped(d), \A p \in Processes : ~Here(d.staging[p]),
         NEW s \in SUBSET {item \in Scan(d) : Cleanable(item)}, NEW x \in s,
         NEW e, DiskTyped(e), After(d, s \ {x}, e)
  PROVE  DiskTyped(Cleaned(x, e)) /\ After(d, s, Cleaned(x, e))
<1> DEFINE c == Cleaned(x, e)
<1>1. \/ x = Item("invalid_active_record", Left) /\ ~ActiveOk(d)
      \/ \E v \in OrphanedVersions(d) : x = Item("orphaned_version", v)
      \/ \E v \in OrphanedRecords(d) : x = Item("orphaned_record", v)
      \/ \E v \in OrphanedAuthorizations(d) : x = Item("orphaned_authorization", v)
      \/ \E t \in d.temps : x = Item("temporary", t)
      \/ d.left > 0 /\ x = Item("retained_staging", Left)
      \/ d.tombs > 0 /\ x = Item("retained_uninstall", Left)
  <2>1. x \in Scan(d) /\ Cleanable(x)
    OBVIOUS
  <2>2. \A v : ~Cleanable(Item("inactive_version", v))
    BY DEF Cleanable, Item
  <2>3. \A v : x # Item("inactive_version", v)
    BY <2>1, <2>2
  <2> QED BY <2>1, <2>3, Zenon DEF Scan, When
<1>2. c = IF x \in Scan(e) THEN Removed(e, x) ELSE e
  BY DEF Cleaned
<1>3. /\ Spares(d, e) /\ Gone(s \ {x}, e)
      /\ e.left = LeftAfter(d, s \ {x}) /\ e.tombs = TombsAfter(d, s \ {x})
  BY DEF After
<1>4. /\ \A v \in Versions : (Installed(e, v) <=> Installed(d, v)) /\ (Loads(e, v) => Loads(d, v))
      /\ ActiveOk(e) => ActiveOk(d)
  BY <1>3, SameAnswers
<1>5. \A k, a, l, b : Item(k, a) = Item(l, b) <=> k = l /\ a = b
  BY DEF Item
<1>6. /\ e.dirs \in [Versions -> Dirs] /\ e.records \in [Versions -> Packages \cup {NoPackage}]
      /\ e.auths \in [Versions -> Grants \cup {NoGrant}]
      /\ e.temps \subseteq Written /\ d.temps \subseteq Written
      /\ e.left \in Nat /\ e.tombs \in Nat /\ d.left \in Nat /\ d.tombs \in Nat
  BY DEF DiskTyped
<1> HIDE DEF c
\* The numbers of directories that nobody owns change only by their own items.
<1>7. ASSUME x # Item("retained_staging", Left), c.left = e.left PROVE c.left = LeftAfter(d, s)
  BY <1>3, <1>7 DEF LeftAfter
<1>8. ASSUME x # Item("retained_uninstall", Left), c.tombs = e.tombs PROVE c.tombs = TombsAfter(d, s)
  BY <1>3, <1>8 DEF TombsAfter
<1>9. ASSUME DiskTyped(c), Spares(d, c), Shrinks(e, c), Gone({x}, c), c.left = LeftAfter(d, s), c.tombs = TombsAfter(d, s)
      PROVE  DiskTyped(c) /\ After(d, s, c)
  BY <1>9, OneMore DEF After
<1>10. Shrinks(e, e)
  BY DEF Shrinks
<1>11. ASSUME Gone({x}, e), c = e, x # Item("retained_staging", Left), x # Item("retained_uninstall", Left)
       PROVE  DiskTyped(c) /\ After(d, s, c)
  BY <1>3, <1>7, <1>8, <1>9, <1>10, <1>11
\* A change in one field spares and shrinks if it does in that field.
<1>12. ASSUME NEW f \in Fields, NEW new, Sets(e, c, f, new), f \notin {"staging", "tomb", "profile", "harmed"}
       PROVE  /\ f # "dirs" => c.dirs = e.dirs
              /\ f # "records" => c.records = e.records
              /\ f # "auths" => c.auths = e.auths
              /\ f # "active" => c.active = e.active
              /\ f # "temps" => c.temps = e.temps
              /\ f # "left" => c.left = e.left
              /\ f # "tombs" => c.tombs = e.tombs
              /\ Only(e, c, {f}) /\ c[f] = new
  BY <1>12 DEF Sets, Only, Fields
<1>13. ASSUME x = Item("invalid_active_record", Left) /\ ~ActiveOk(d) PROVE DiskTyped(c) /\ After(d, s, c)
  <2>1. x # Item("retained_staging", Left) /\ x # Item("retained_uninstall", Left)
    BY <1>5, <1>13
  <2>2. CASE x \in Scan(e)
    <3>1. Sets(e, c, "active", NoPackage)
      BY <1>2, <1>13, <2>2, ItemRemoved
    <3>2. /\ c.dirs = e.dirs /\ c.records = e.records /\ c.auths = e.auths /\ c.temps = e.temps /\ c.left = e.left
          /\ c.tombs = e.tombs /\ Only(e, c, {"active"}) /\ c.active = NoPackage
      BY <1>12, <3>1 DEF Fields
    <3>3. DiskTyped(c)
      BY <3>2, TypedPut
    <3>4. Spares(d, c) /\ Shrinks(e, c)
      BY <1>3, <1>13, <3>2 DEF Spares, Shrinks
    <3>5. Gone({x}, c)
      BY <1>5, <1>13, <3>2 DEF Gone
    <3> QED BY <1>7, <1>8, <1>9, <2>1, <3>2, <3>3, <3>4, <3>5
  <2>3. CASE x \notin Scan(e)
    <3>1. e.active = NoPackage
      BY <1>4, <1>13, <2>3, ScanLists
    <3>2. Gone({x}, e)
      BY <1>5, <1>13, <3>1 DEF Gone
    <3> QED BY <1>2, <1>11, <2>1, <2>3, <3>2
  <2> QED BY <2>2, <2>3
<1>14. ASSUME NEW v \in OrphanedVersions(d), x = Item("orphaned_version", v)
       PROVE  DiskTyped(c) /\ After(d, s, c)
  <2>1. /\ x # Item("retained_staging", Left) /\ x # Item("retained_uninstall", Left)
        /\ v \in Versions /\ ~Installed(d, v)
    BY <1>5, <1>14 DEF OrphanedVersions
  <2>2. CASE x \in Scan(e)
    <3> DEFINE new == [e.dirs EXCEPT ![v] = NoDir]
    <3>1. Sets(e, c, "dirs", new)
      BY <1>2, <1>14, <2>2, ItemRemoved
    <3>2. new \in [Versions -> Dirs] /\ new[v] = NoDir /\ \A w \in Versions : new[w] = IF w = v THEN NoDir ELSE e.dirs[w]
      BY <1>6, <2>1, DirTypes
    <3> HIDE DEF new
    <3>3. /\ c.active = e.active /\ c.records = e.records /\ c.auths = e.auths /\ c.temps = e.temps /\ c.left = e.left
          /\ c.tombs = e.tombs /\ Only(e, c, {"dirs"}) /\ c.dirs = new
      BY <1>12, <3>1 DEF Fields
    <3>4. DiskTyped(c)
      BY <3>2, <3>3, TypedPut
    <3>5. Spares(d, c) /\ Shrinks(e, c)
      BY <1>3, <2>1, <3>2, <3>3 DEF Spares, Shrinks
    <3>6. Gone({x}, c)
      BY <1>5, <1>14, <3>2, <3>3 DEF Gone
    <3> QED BY <1>7, <1>8, <1>9, <2>1, <3>3, <3>4, <3>5, <3>6
  <2>3. CASE x \notin Scan(e)
    <3>1. v \notin OrphanedVersions(e)
      BY <1>14, <2>3, ScanLists
    <3>2. e.dirs[v] = NoDir
      BY <1>4, <1>6, <2>1, <3>1, DirTypes DEF OrphanedVersions
    <3>3. Gone({x}, e)
      BY <1>5, <1>14, <3>2 DEF Gone
    <3> QED BY <1>2, <1>11, <2>1, <2>3, <3>3
  <2> QED BY <2>2, <2>3
<1>15. ASSUME NEW v \in OrphanedRecords(d), x = Item("orphaned_record", v)
       PROVE  DiskTyped(c) /\ After(d, s, c)
  <2>1. /\ x # Item("retained_staging", Left) /\ x # Item("retained_uninstall", Left)
        /\ v \in Versions /\ ~Installed(d, v)
    BY <1>5, <1>15 DEF OrphanedRecords
  <2>2. CASE x \in Scan(e)
    <3> DEFINE new == [e.records EXCEPT ![v] = NoPackage]
    <3>1. Sets(e, c, "records", new)
      BY <1>2, <1>15, <2>2, ItemRemoved
    <3>2. /\ new \in [Versions -> Packages \cup {NoPackage}] /\ new[v] = NoPackage
          /\ \A w \in Versions : new[w] = IF w = v THEN NoPackage ELSE e.records[w]
      BY <1>6, <2>1
    <3> HIDE DEF new
    <3>3. /\ c.active = e.active /\ c.dirs = e.dirs /\ c.auths = e.auths /\ c.temps = e.temps /\ c.left = e.left
          /\ c.tombs = e.tombs /\ Only(e, c, {"records"}) /\ c.records = new
      BY <1>12, <3>1 DEF Fields
    <3>4. DiskTyped(c)
      BY <3>2, <3>3, TypedPut
    <3>5. Spares(d, c) /\ Shrinks(e, c)
      BY <1>3, <2>1, <3>2, <3>3 DEF Spares, Shrinks
    <3>6. Gone({x}, c)
      BY <1>5, <1>15, <3>2, <3>3 DEF Gone
    <3> QED BY <1>7, <1>8, <1>9, <2>1, <3>3, <3>4, <3>5, <3>6
  <2>3. CASE x \notin Scan(e)
    <3>1. v \notin OrphanedRecords(e)
      BY <1>15, <2>3, ScanLists
    <3>2. e.records[v] = NoPackage
      BY <1>4, <2>1, <3>1 DEF OrphanedRecords
    <3>3. Gone({x}, e)
      BY <1>5, <1>15, <3>2 DEF Gone
    <3> QED BY <1>2, <1>11, <2>1, <2>3, <3>3
  <2> QED BY <2>2, <2>3
<1>16. ASSUME NEW v \in OrphanedAuthorizations(d), x = Item("orphaned_authorization", v)
       PROVE  DiskTyped(c) /\ After(d, s, c)
  <2>1. /\ x # Item("retained_staging", Left) /\ x # Item("retained_uninstall", Left)
        /\ v \in Versions /\ ~Loads(d, v)
    BY <1>5, <1>16 DEF OrphanedAuthorizations
  <2>2. CASE x \in Scan(e)
    <3> DEFINE new == [e.auths EXCEPT ![v] = NoGrant]
    <3>1. Sets(e, c, "auths", new)
      BY <1>2, <1>16, <2>2, ItemRemoved
    <3>2. /\ new \in [Versions -> Grants \cup {NoGrant}] /\ new[v] = NoGrant
          /\ \A w \in Versions : new[w] = IF w = v THEN NoGrant ELSE e.auths[w]
      BY <1>6, <2>1
    <3> HIDE DEF new
    <3>3. /\ c.active = e.active /\ c.dirs = e.dirs /\ c.records = e.records /\ c.temps = e.temps /\ c.left = e.left
          /\ c.tombs = e.tombs /\ Only(e, c, {"auths"}) /\ c.auths = new
      BY <1>12, <3>1 DEF Fields
    <3>4. DiskTyped(c)
      BY <3>2, <3>3, TypedPut
    <3>5. Spares(d, c) /\ Shrinks(e, c)
      BY <1>3, <2>1, <3>2, <3>3 DEF Spares, Shrinks
    <3>6. Gone({x}, c)
      BY <1>5, <1>16, <3>2, <3>3 DEF Gone
    <3> QED BY <1>7, <1>8, <1>9, <2>1, <3>3, <3>4, <3>5, <3>6
  <2>3. CASE x \notin Scan(e)
    <3>1. v \notin OrphanedAuthorizations(e)
      BY <1>16, <2>3, ScanLists
    <3>2. e.auths[v] = NoGrant
      BY <1>4, <2>1, <3>1 DEF OrphanedAuthorizations
    <3>3. Gone({x}, e)
      BY <1>5, <1>16, <3>2 DEF Gone
    <3> QED BY <1>2, <1>11, <2>1, <2>3, <3>3
  <2> QED BY <2>2, <2>3
<1>17. ASSUME NEW t \in d.temps, x = Item("temporary", t)
       PROVE  DiskTyped(c) /\ After(d, s, c)
  <2>1. x # Item("retained_staging", Left) /\ x # Item("retained_uninstall", Left)
    BY <1>5, <1>17
  <2>2. CASE x \in Scan(e)
    <3> DEFINE new == e.temps \ {t}
    <3>1. Sets(e, c, "temps", new)
      BY <1>2, <1>17, <2>2, ItemRemoved
    <3>2. new \subseteq e.temps /\ t \notin new /\ new \subseteq Written
      BY <1>6
    <3> HIDE DEF new
    <3>3. /\ c.active = e.active /\ c.dirs = e.dirs /\ c.records = e.records /\ c.auths = e.auths /\ c.left = e.left
          /\ c.tombs = e.tombs /\ Only(e, c, {"temps"}) /\ c.temps = new
      BY <1>12, <3>1 DEF Fields
    <3>4. DiskTyped(c)
      BY <3>2, <3>3, TypedPut
    <3>5. Spares(d, c) /\ Shrinks(e, c)
      BY <1>3, <3>2, <3>3 DEF Spares, Shrinks
    <3>6. Gone({x}, c)
      BY <1>5, <1>17, <3>2, <3>3 DEF Gone
    <3> QED BY <1>7, <1>8, <1>9, <2>1, <3>3, <3>4, <3>5, <3>6
  <2>3. CASE x \notin Scan(e)
    <3>1. t \notin e.temps
      BY <1>17, <2>3, ScanLists
    <3>2. Gone({x}, e)
      BY <1>5, <1>17, <3>1 DEF Gone
    <3> QED BY <1>2, <1>11, <2>1, <2>3, <3>2
  <2> QED BY <2>2, <2>3
<1>18. ASSUME d.left > 0 /\ x = Item("retained_staging", Left) PROVE DiskTyped(c) /\ After(d, s, c)
  <2>1. x # Item("retained_uninstall", Left) /\ e.left = d.left
    BY <1>3, <1>5, <1>18 DEF LeftAfter
  <2>2. x \in Scan(e)
    BY <1>18, <2>1, ScanLists
  <2>3. Sets(e, c, "left", e.left - 1)
    BY <1>2, <1>18, <2>2, ItemRemoved
  <2>4. /\ c.active = e.active /\ c.dirs = e.dirs /\ c.records = e.records /\ c.auths = e.auths /\ c.temps = e.temps
        /\ c.tombs = e.tombs /\ Only(e, c, {"left"}) /\ c.left = e.left - 1
    BY <1>12, <2>3 DEF Fields
  <2>5. e.left - 1 \in Nat
    BY <1>6, <1>18, <2>1
  <2>6. DiskTyped(c)
    BY <2>4, <2>5, TypedPut
  <2>7. Spares(d, c) /\ Shrinks(e, c)
    BY <1>3, <2>4 DEF Spares, Shrinks
  <2>8. Gone({x}, c)
    BY <1>5, <1>18 DEF Gone
  <2>9. c.left = LeftAfter(d, s)
    BY <1>18, <2>1, <2>4 DEF LeftAfter
  <2> QED BY <1>8, <1>9, <2>1, <2>4, <2>6, <2>7, <2>8, <2>9
<1>19. ASSUME d.tombs > 0 /\ x = Item("retained_uninstall", Left) PROVE DiskTyped(c) /\ After(d, s, c)
  <2>1. x # Item("retained_staging", Left) /\ e.tombs = d.tombs
    BY <1>3, <1>5, <1>19 DEF TombsAfter
  <2>2. x \in Scan(e)
    BY <1>19, <2>1, ScanLists
  <2>3. Sets(e, c, "tombs", e.tombs - 1)
    BY <1>2, <1>19, <2>2, ItemRemoved
  <2>4. /\ c.active = e.active /\ c.dirs = e.dirs /\ c.records = e.records /\ c.auths = e.auths /\ c.temps = e.temps
        /\ c.left = e.left /\ Only(e, c, {"tombs"}) /\ c.tombs = e.tombs - 1
    BY <1>12, <2>3 DEF Fields
  <2>5. e.tombs - 1 \in Nat
    BY <1>6, <1>19, <2>1
  <2>6. DiskTyped(c)
    BY <2>4, <2>5, TypedPut
  <2>7. Spares(d, c) /\ Shrinks(e, c)
    BY <1>3, <2>4 DEF Spares, Shrinks
  <2>8. Gone({x}, c)
    BY <1>5, <1>19 DEF Gone
  <2>9. c.tombs = TombsAfter(d, s)
    BY <1>19, <2>1, <2>4 DEF TombsAfter
  <2> QED BY <1>7, <1>9, <2>1, <2>4, <2>6, <2>7, <2>8, <2>9
<1> QED BY <1>1, <1>13, <1>14, <1>15, <1>16, <1>17, <1>18, <1>19 DEF c

\* Cleaning up ends with every item that the scan listed gone.
LEMMA AllCleaned ==
  ASSUME NEW d, DiskTyped(d), \A p \in Processes : ~Here(d.staging[p])
  PROVE  /\ DiskTyped(CleanedUp(d))
         /\ After(d, {item \in Scan(d) : Cleanable(item)}, CleanedUp(d))
<1> DEFINE S == {item \in Scan(d) : Cleanable(item)}
           J == [s \in SUBSET S |-> {e \in Disks : After(d, s, e)}]
<1>1. IsFiniteSet(S)
  <2>1. S \in SUBSET Scan(d)
    OBVIOUS
  <2> QED BY <2>1, ScanFinite, FS_Subset
<1>2. d \in J[{}]
  <2>1. d \in Disks
    BY DiskTypes
  <2>2. Spares(d, d)
    BY DEF Spares
  <2>3. Gone({}, d) /\ LeftAfter(d, {}) = d.left /\ TombsAfter(d, {}) = d.tombs
    BY DEF Gone, LeftAfter, TombsAfter
  <2>4. {} \in SUBSET S
    OBVIOUS
  <2> QED BY <2>1, <2>2, <2>3, <2>4 DEF After
<1>3. ASSUME NEW s \in SUBSET S, NEW x \in s, NEW e \in J[s \ {x}] PROVE Cleaned(x, e) \in J[s]
  <2>1. s \ {x} \in SUBSET S
    OBVIOUS
  <2>2. e \in Disks /\ After(d, s \ {x}, e)
    BY <2>1
  <2>3. DiskTyped(e)
    BY <2>2, DiskTypes
  <2>4. DiskTyped(Cleaned(x, e)) /\ After(d, s, Cleaned(x, e))
    BY <2>2, <2>3, CleanedItem
  <2>5. Cleaned(x, e) \in Disks
    BY <2>4, DiskTypes
  <2> QED BY <2>4, <2>5
<1>4. CleanedUp(d) = FoldSet(Cleaned, d, S)
  BY Zenon DEF CleanedUp
<1>5. S \in SUBSET S /\ J[S] = {e \in Disks : After(d, S, e)}
  OBVIOUS
<1> HIDE DEF J
<1>6. FoldSet(Cleaned, d, S) \in J[S]
  BY <1>1, <1>2, <1>3, FoldKeeps
<1>7. CleanedUp(d) \in Disks /\ After(d, S, CleanedUp(d))
  BY <1>4, <1>5, <1>6
<1> QED BY <1>7, DiskTypes

\* What the deaths of all processes leave is a store.
LEMMA AbandonedStore ==
  ASSUME NEW d, DiskTyped(d)
  PROVE  DiskTyped(Abandoned(d)) /\ \A p \in Processes : ~Here(Abandoned(d).staging[p])
<1> DEFINE none == [p \in Processes |-> NoDir]
           n == d.left + Cardinality({p \in Processes : Here(d.staging[p])})
           m == d.tombs + (IF Here(d.tomb) THEN 1 ELSE 0)
           b == [d EXCEPT !.staging = none]
           c == [b EXCEPT !.tomb = NoDir]
           e == [c EXCEPT !.left = n]
           f == [e EXCEPT !.tombs = m]
<1>1. Abandoned(d) = f
  BY DEF Abandoned
<1>2. n \in Nat /\ m \in Nat
  <2>1. Cardinality({p \in Processes : Here(d.staging[p])}) \in Nat
    <3>1. {p \in Processes : Here(d.staging[p])} \in SUBSET Processes
      OBVIOUS
    <3> QED BY <3>1, FS_Subset, FS_CardinalityType, PackagesAssumption
  <2>2. d.left \in Nat /\ d.tombs \in Nat
    BY DEF DiskTyped
  <2> QED BY <2>1, <2>2
<1>3. none \in [Processes -> Dirs] /\ \A p \in Processes : ~Here(none[p])
  BY DirTypes
<1> HIDE DEF n, m, none
<1>4. ASSUME NEW x, NEW y, NEW field \in {"staging", "tomb", "left", "tombs"}, NEW value, DiskTyped(x), Sets(x, y, field, value),
             field = "staging" => value \in [Processes -> Dirs], field = "tomb" => value \in Dirs,
             field \in {"left", "tombs"} => value \in Nat
      PROVE  DiskTyped(y) /\ IsDisk(y) /\ y[field] = value
  BY <1>4, TypedPut DEF Sets, DiskTyped
<1>5. DiskTyped(b) /\ IsDisk(b) /\ b.staging = none
  <2>1. Sets(d, b, "staging", none)
    BY PutField DEF DiskTyped
  <2> HIDE DEF b
  <2> QED BY <1>3, <1>4, <2>1
<1> HIDE DEF b
<1>6. DiskTyped(c) /\ IsDisk(c) /\ c.staging = none
  <2>1. Sets(b, c, "tomb", NoDir)
    BY <1>5, PutField
  <2> HIDE DEF c
  <2>2. DiskTyped(c) /\ IsDisk(c)
    BY <1>4, <1>5, <2>1, DirTypes
  <2>3. c.staging = b.staging
    BY <2>1 DEF Sets, Only, Fields
  <2> QED BY <1>5, <2>2, <2>3
<1> HIDE DEF c
<1>7. DiskTyped(e) /\ IsDisk(e) /\ e.staging = none
  <2>1. Sets(c, e, "left", n)
    BY <1>6, PutField
  <2> HIDE DEF e
  <2>2. DiskTyped(e) /\ IsDisk(e)
    BY <1>2, <1>4, <1>6, <2>1
  <2>3. e.staging = c.staging
    BY <2>1 DEF Sets, Only, Fields
  <2> QED BY <1>6, <2>2, <2>3
<1> HIDE DEF e
<1>8. DiskTyped(f) /\ f.staging = none
  <2>1. Sets(e, f, "tombs", m)
    BY <1>7, PutField
  <2> HIDE DEF f
  <2>2. DiskTyped(f)
    BY <1>2, <1>4, <1>7, <2>1
  <2>3. f.staging = e.staging
    BY <2>1 DEF Sets, Only, Fields
  <2> QED BY <1>7, <2>2, <2>3
<1> HIDE DEF f
<1> QED BY <1>1, <1>3, <1>8

\* A store whose scan lists nothing that can be cleaned up any more is sound.
LEMMA CleanedSound ==
  ASSUME NEW d, DiskTyped(d), NEW e, DiskTyped(e), After(d, {item \in Scan(d) : Cleanable(item)}, e)
  PROVE  Sound(e)
<1> DEFINE S == {item \in Scan(d) : Cleanable(item)}
<1>1. Spares(d, e) /\ Gone(S, e)
  BY DEF After
<1>2. ASSUME NEW kind \in {"invalid_active_record", "orphaned_version", "orphaned_record", "orphaned_authorization",
                           "temporary"},
             NEW at, Item(kind, at) \in Scan(d)
      PROVE  Item(kind, at) \in S
  BY <1>2 DEF Cleanable, Item
<1>3. /\ e.dirs \in [Versions -> Dirs] /\ d.dirs \in [Versions -> Dirs] /\ d.temps \subseteq Written
      /\ d.active \in Packages \cup {NoPackage}
  BY DEF DiskTyped
<1>4. ASSUME NEW v \in Versions
      PROVE  /\ Installed(d, v) => Here(e.dirs[v]) /\ e.records[v] # NoPackage /\ e.records[v] = d.records[v]
             /\ ~Installed(d, v) => ~Here(e.dirs[v]) /\ e.records[v] = NoPackage
  <2>1. CASE Installed(d, v)
    <3>1. e.dirs[v] = d.dirs[v] /\ e.records[v] = d.records[v]
      BY <1>1, <2>1 DEF Spares
    <3> QED BY <1>3, <2>1, <3>1, DirTypes DEF Installed
  <2>2. CASE ~Installed(d, v)
    <3>1. ~Here(e.dirs[v])
      <4>1. CASE Here(d.dirs[v])
        <5>1. Item("orphaned_version", v) \in S
          BY <1>2, <2>2, <4>1, ScanLists DEF OrphanedVersions
        <5> QED BY <1>1, <5>1, DirTypes DEF Gone
      <4>2. CASE ~Here(d.dirs[v])
        BY <1>1, <4>2, DirTypes DEF Spares
      <4> QED BY <4>1, <4>2
    <3>2. e.records[v] = NoPackage
      <4>1. CASE d.records[v] # NoPackage
        <5>1. Item("orphaned_record", v) \in S
          BY <1>2, <2>2, <4>1, ScanLists DEF OrphanedRecords
        <5> QED BY <1>1, <5>1 DEF Gone
      <4>2. CASE d.records[v] = NoPackage
        BY <1>1, <4>2 DEF Spares
      <4> QED BY <4>1, <4>2
    <3> QED BY <2>2, <3>1, <3>2
  <2> QED BY <2>1, <2>2
<1>5. e.temps = {}
  <2>1. ASSUME NEW t \in e.temps PROVE FALSE
    <3>1. t \in d.temps /\ t \in Written
      BY <1>1, <1>3 DEF Spares
    <3>2. Item("temporary", t) \in S
      BY <1>2, <3>1, ScanLists
    <3> QED BY <1>1, <3>1, <3>2 DEF Gone
  <2> QED BY <2>1
<1>6. ASSUME NEW v \in Versions, e.auths[v] # NoGrant PROVE Here(e.dirs[v]) /\ e.auths[v].pkg = e.records[v]
  <2>1. e.auths[v] = d.auths[v]
    BY <1>1, <1>6 DEF Spares
  <2>2. Loads(d, v)
    <3>1. SUFFICES ASSUME ~Loads(d, v) PROVE FALSE
      OBVIOUS
    <3>2. Item("orphaned_authorization", v) \in S
      BY <1>2, <1>6, <2>1, <3>1, ScanLists DEF OrphanedAuthorizations
    <3> QED BY <1>1, <1>6, <3>2 DEF Gone
  <2>3. Installed(d, v) /\ d.auths[v].pkg = d.records[v]
    BY <2>2 DEF Loads, Canonical
  <2> QED BY <1>4, <2>1, <2>3
<1>7. ASSUME e.active # NoPackage PROVE e.records[VersionOf[e.active]] = e.active
  <2>1. e.active = d.active
    BY <1>1, <1>7 DEF Spares
  <2>2. ActiveOk(d)
    <3>1. SUFFICES ASSUME ~ActiveOk(d) PROVE FALSE
      OBVIOUS
    <3>2. Item("invalid_active_record", Left) \in S
      BY <1>2, <1>7, <2>1, <3>1, ScanLists
    <3> QED BY <1>1, <1>7, <3>2 DEF Gone
  <2>3. VersionOf[d.active] \in Versions
    BY <1>3, <1>7, <2>1, PackagesAssumption
  <2> QED BY <1>4, <2>1, <2>2, <2>3 DEF ActiveOk
<1> QED BY <1>4, <1>5, <1>6, <1>7 DEF Sound

\* Wherever the processes die, cleaning up what the scan lists, one item after
\* the other, leaves a sound store with every installed version, the active one
\* and every valid authorization still in it.
THEOREM CleanupAlwaysRecovers == Spec => []CleanupRecovers
<1>1. ASSUME DiskTyped(disk) PROVE CleanupRecovers
  <2> DEFINE d == Abandoned(disk)
             S == {item \in Scan(d) : Cleanable(item)}
             e == CleanedUp(d)
  <2>1. DiskTyped(d) /\ \A p \in Processes : ~Here(d.staging[p])
    BY <1>1, AbandonedStore
  <2> HIDE DEF d
  <2>2. DiskTyped(e) /\ After(d, S, e)
    BY <2>1, AllCleaned
  <2>3. Sound(e)
    BY <2>1, <2>2, CleanedSound
  <2>4. Spares(d, e) /\ e.left = LeftAfter(d, S) /\ e.tombs = TombsAfter(d, S)
    BY <2>2 DEF After
  <2>5. /\ d.left > 0 => Item("retained_staging", Left) \in S
        /\ d.tombs > 0 => Item("retained_uninstall", Left) \in S
    BY ScanLists DEF Cleanable, Item
  <2>6. /\ d.left > 0 => e.left < d.left
        /\ d.tombs > 0 => e.tombs < d.tombs
    <3>1. d.left \in Nat /\ d.tombs \in Nat
      BY <2>1 DEF DiskTyped
    <3> HIDE DEF S, e
    <3> QED BY <2>4, <2>5, <3>1 DEF LeftAfter, TombsAfter
  <2>7. \A v \in Versions :
          /\ Installed(d, v) => e.dirs[v] = d.dirs[v] /\ e.records[v] = d.records[v]
          /\ Loads(d, v) => e.auths[v] = d.auths[v]
    BY <2>4 DEF Spares
  <2>8. ActiveOk(d) => e.active = d.active
    BY <2>4 DEF Spares
  <2> HIDE DEF e, S
  <2> QED BY <2>3, <2>6, <2>7, <2>8 DEF CleanupRecovers, d, e
<1>2. TypeOK => DiskTyped(disk)
  BY DiskTypes DEF TypeOK
<1>3. TypeOK => CleanupRecovers
  BY <1>1, <1>2
<1> QED BY <1>3, StoreTypes, PTL
=============================================================================
