----------------------------- MODULE PluginDisk -----------------------------
(***************************************************************************)
(* The plugin store of one plugin on disk, as its queries see it: the      *)
(* version directories, the version records that bind each to a package,   *)
(* the active record, the stored authorizations, the directories in        *)
(* staging/, the temporary files an interrupted write leaves, and the      *)
(* sandbox profile (plugin_store.cpp, plugin_authorization_store.cpp).     *)
(* A store is a value d, so that what recovery would make of it is an      *)
(* operator.  A package stands for its digests: two packages of one        *)
(* version are two builds of it.                                           *)
(***************************************************************************)
EXTENDS Naturals, FiniteSets, FiniteSetsExt

CONSTANTS Processes,   \* the shell processes that manage the store
          Versions,
          Packages,
          VersionOf,   \* the version a package's manifest states
          Trusted,     \* the packages installed without a consent
          FullTrust,   \* the packages that ask for system.full_trust
          NoPackage, NoGrant, Left

ASSUME PackagesAssumption ==
    /\ Versions # {}
    /\ IsFiniteSet(Processes) /\ IsFiniteSet(Versions) /\ IsFiniteSet(Packages)
    /\ VersionOf \in [Packages -> Versions]
    /\ Trusted \subseteq Packages /\ FullTrust \subseteq Packages
    /\ NoPackage \notin Packages
    /\ NoGrant \notin [pkg: Packages, grants: SUBSET {"plain", "full_trust"}]
    /\ Left \notin Processes \cup Versions

\* A directory: whose package it holds and how much of it.  "part" lacks a
\* file, "bare" lacks the manifest too.  marks is history: "raided" when a
\* cleanup took files of it while it was the staging directory of a running
\* installation, "overOrphan" while it stands beside the record of an earlier
\* build of its version.
Marks == {"raided", "overOrphan"}
NoDir == [pkg |-> NoPackage, files |-> "none", marks |-> {}]
Dir(pkg, files) == [pkg |-> pkg, files |-> files, marks |-> {}]
Dirs == [pkg: Packages, files: {"whole", "part", "bare"}, marks: SUBSET Marks] \cup {NoDir}

Permissions(pkg) == IF pkg \in FullTrust THEN {"plain", "full_trust"} ELSE {"plain"}
Grants == [pkg: Packages, grants: SUBSET {"plain", "full_trust"}]

Written == {"records", "active", "authorizations"}   \* where atomic_write works

Disks == [dirs: [Versions -> Dirs],
          records: [Versions -> Packages \cup {NoPackage}],
          active: Packages \cup {NoPackage},
          auths: [Versions -> Grants \cup {NoGrant}],
          temps: SUBSET Written,
          staging: [Processes -> Dirs],   \* .install-* of a running installation
          left: Nat,                      \* .install-* that nobody owns any more
          tomb: Dirs,                     \* .uninstall-* of the running uninstall
          tombs: Nat,                     \* .uninstall-* that nobody owns any more
          profile: BOOLEAN,
          harmed: SUBSET Versions]        \* history: once published from raided staging

-----------------------------------------------------------------------------
(* What the queries answer.                                                *)

Here(dir) == dir.files # "none"
HasManifest(dir) == dir.files \in {"whole", "part"}

\* query_installed_plugin_version: the directory has a manifest of this
\* version and the version record names it.  The contents are not digested
\* again.
Installed(d, v) == HasManifest(d.dirs[v]) /\ d.records[v] # NoPackage

\* query_active_plugin_version and valid_installed_version: the active record
\* and the record of the version it names are the same.
ActiveOk(d) == /\ d.active # NoPackage
               /\ Installed(d, VersionOf[d.active])
               /\ d.records[VersionOf[d.active]] = d.active

\* canonical_authorization: bound to the installed package and granting only
\* what the installed manifest declares.
Canonical(d, v, grant) == /\ grant.pkg = d.records[v]
                          /\ grant.grants \subseteq Permissions(d.dirs[v].pkg)

\* load_plugin_authorization
Loads(d, v) == Installed(d, v) /\ d.auths[v] # NoGrant /\ Canonical(d, v, d.auths[v])

\* The shell's activate command: every permission of the manifest is granted.
FullyGranted(d, v) == Loads(d, v) /\ Permissions(d.dirs[v].pkg) \subseteq d.auths[v].grants

-----------------------------------------------------------------------------
(* The recovery scan, and the removal of one item of it.                   *)

Item(kind, at) == [kind |-> kind, at |-> at]

OrphanedVersions(d) == {v \in Versions: Here(d.dirs[v]) /\ ~Installed(d, v)}
InactiveVersions(d) == {v \in Versions: Installed(d, v)
                                         /\ ~(ActiveOk(d) /\ d.active = d.records[v])}
OrphanedRecords(d) == {v \in Versions: d.records[v] # NoPackage /\ ~Installed(d, v)}
\* Sensitivity variant: only the authorizations of installed versions are
\* looked at.
OrphanedAuthorizationsOfInstalled(d) ==
    {v \in Versions: d.auths[v] # NoGrant /\ Installed(d, v) /\ ~Loads(d, v)}

OrphanedAuthorizations(d) == {v \in Versions: d.auths[v] # NoGrant /\ ~Loads(d, v)}

When(condition, item) == IF condition THEN {item} ELSE {}

\* A temporary file is listed under the kind of its directory; here it has a
\* kind of its own, as no name of it is ever that of a record.
Scan(d) ==
    When(d.active # NoPackage /\ ~ActiveOk(d), Item("invalid_active_record", Left))
    \cup {Item("orphaned_version", v): v \in OrphanedVersions(d)}
    \cup {Item("inactive_version", v): v \in InactiveVersions(d)}
    \cup {Item("orphaned_record", v): v \in OrphanedRecords(d)}
    \cup {Item("orphaned_authorization", v): v \in OrphanedAuthorizations(d)}
    \cup {Item("temporary", t): t \in d.temps}
    \cup {Item("retained_staging", p): p \in {q \in Processes: Here(d.staging[q])}}
    \cup When(d.left > 0, Item("retained_staging", Left))
    \cup When(d.tombs > 0, Item("retained_uninstall", Left))

\* cleanup_plugin_recovery_item never deletes an inactive version.
Cleanable(item) == item.kind # "inactive_version"

\* remove_safe_entry when every deletion succeeds
Removed(d, item) ==
    CASE item.kind = "invalid_active_record" -> [d EXCEPT !.active = NoPackage]
      [] item.kind = "orphaned_version" -> [d EXCEPT !.dirs[item.at] = NoDir]
      [] item.kind = "orphaned_record" -> [d EXCEPT !.records[item.at] = NoPackage]
      [] item.kind = "orphaned_authorization" -> [d EXCEPT !.auths[item.at] = NoGrant]
      [] item.kind = "temporary" -> [d EXCEPT !.temps = @ \ {item.at}]
      [] item.kind = "retained_staging" /\ item.at = Left -> [d EXCEPT !.left = @ - 1]
      [] item.kind = "retained_staging" /\ item.at # Left -> [d EXCEPT !.staging[item.at] = NoDir]
      [] item.kind = "retained_uninstall" -> [d EXCEPT !.tombs = @ - 1]
      [] OTHER -> d

\* What is left of a directory when a deletion in the middle fails.
Remains(dir, marks) ==
    {[dir EXCEPT !.files = files, !.marks = @ \cup marks]:
        files \in {f \in {"part", "bare"}: Here(dir) /\ (dir.files = "bare" => f = "bare")}}

\* remove_safe_entry when one of the deletions fails
HalfRemoved(d, item) ==
    CASE item.kind = "orphaned_version" ->
           {[d EXCEPT !.dirs[item.at] = r]: r \in Remains(d.dirs[item.at], {})}
      [] item.kind = "retained_staging" /\ item.at # Left ->
           {[d EXCEPT !.staging[item.at] = r]: r \in Remains(d.staging[item.at], {"raided"})}
      [] OTHER -> {d}
=============================================================================
