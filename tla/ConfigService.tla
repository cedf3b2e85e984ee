---------------------------- MODULE ConfigService ----------------------------
(***************************************************************************)
(* The configuration on disk and in Core: src/config/config_store.cpp and  *)
(* config_monitor.cpp.                                                     *)
(*                                                                         *)
(* Settings processes save documents, each with the two temporary files of *)
(* all of them, while Core's monitor watches the document and publishes    *)
(* what it reads.  A temporary file is written with no sharing; what is    *)
(* moved over a file replaces it at once.  A document is a model value;    *)
(* Torn stands for bytes no reader accepts.                                *)
(***************************************************************************)
EXTENDS Integers

CONSTANTS
  Config,       \* the documents
  FirstConfig,  \* the document at the start
  Torn,         \* a file cut short
  Missing,      \* no file
  Savers        \* the settings processes

ASSUME ConfigConstants ==
  /\ FirstConfig \in Config
  /\ Torn \notin Config /\ Missing \notin Config /\ Torn # Missing

VARIABLES
  main, bak, tmp, bakTmp,  \* the document and its backup, and their temporaries
  stamp,                   \* size and time of main, as a count of its replacements: no two
                           \* of them are taken for the same
  saver,                   \* ConfigStore::save in each settings process
  deaths,                  \* history: how many died while they wrote a file
  watch,                   \* where the monitor's thread is
  seen,                    \* previous: what it observed of main
  store,                   \* current_ and generation_ of the monitor's store
  snapshot, generation     \* what the monitor has published

files == <<main, bak, tmp, bakTmp, stamp>>
saving == <<saver, deaths>>
configVars == <<files, saving, watch, seen, store, snapshot, generation>>

Idle == [pc |-> "idle", doc |-> Missing, existing |-> Missing]

ConfigTypeOK ==
  /\ {main, bak, tmp, bakTmp} \subseteq Config \cup {Torn, Missing}
  /\ saver \in [Savers -> [pc : {"idle", "tmp", "read", "backup", "bakTmp", "replace bak", "replace main"},
                           doc : Config \cup {Missing}, existing : Config \cup {Missing}]]
  /\ deaths \in Nat /\ stamp \in Nat /\ seen \in Nat /\ generation \in Nat
  /\ watch \in {"down", "start", "wait", "reload", "publish", "announce"}
  /\ store \in [doc : Config, gen : Nat] /\ snapshot \in Config

\* load: the document, or else its backup, or else the defaults
Loaded == IF main \in Config THEN main ELSE IF bak \in Config THEN bak ELSE FirstConfig

InitConfig ==
  /\ main = FirstConfig /\ bak = Missing /\ tmp = Missing /\ bakTmp = Missing
  /\ stamp = 0
  /\ saver = [p \in Savers |-> Idle] /\ deaths = 0
  /\ watch = "wait" /\ seen = 0
  /\ store = [doc |-> FirstConfig, gen |-> 1]
  /\ snapshot = FirstConfig /\ generation = 1

---------------------------------------------------------------------------
(* ConfigStore::save.                                                      *)

monitorVars == <<watch, seen, store, snapshot, generation>>

\* a file another process is writing can be neither opened, moved nor removed
Held(p, pc) == \E q \in Savers \ {p} : saver[q].pc = pc
At(p, pc) == saver[p].pc = pc
GoesTo(p, pc) == saver' = [saver EXCEPT ![p].pc = pc]

\* Sensitivity variant: the document itself is opened for writing.
BeginSaveInPlace(p, doc) ==
  /\ At(p, "idle") /\ ~Held(p, "tmp")
  /\ tmp' = Torn /\ main' = Torn
  /\ saver' = [saver EXCEPT ![p] = [pc |-> "tmp", doc |-> doc, existing |-> Missing]]
  /\ UNCHANGED <<bak, bakTmp, stamp, deaths, monitorVars>>

\* write_durable opens the temporary file, which empties it
BeginSave(p, doc) ==
  /\ At(p, "idle") /\ ~Held(p, "tmp")
  /\ tmp' = Torn
  /\ saver' = [saver EXCEPT ![p] = [pc |-> "tmp", doc |-> doc, existing |-> Missing]]
  /\ UNCHANGED <<main, bak, bakTmp, stamp, deaths, monitorVars>>

FinishTemporary(p) ==
  /\ At(p, "tmp")
  /\ tmp' = saver[p].doc /\ GoesTo(p, "read")
  /\ UNCHANGED <<main, bak, bakTmp, stamp, deaths, monitorVars>>

\* a document that can be read becomes the backup; reading fails when another
\* process replaces it meanwhile
ReadExisting(p) ==
  /\ At(p, "read")
  /\ \/ main \in Config /\ saver' = [saver EXCEPT ![p].existing = main, ![p].pc = "backup"]
     \/ (main \notin Config \/ Held(p, "replace main")) /\ GoesTo(p, "replace main")
  /\ UNCHANGED <<files, deaths, monitorVars>>

BeginBackup(p) ==
  /\ At(p, "backup") /\ ~Held(p, "bakTmp")
  /\ bakTmp' = Torn /\ GoesTo(p, "bakTmp")
  /\ UNCHANGED <<main, bak, tmp, stamp, deaths, monitorVars>>

FinishBackup(p) ==
  /\ At(p, "bakTmp")
  /\ bakTmp' = saver[p].existing /\ GoesTo(p, "replace bak")
  /\ UNCHANGED <<main, bak, tmp, stamp, deaths, monitorVars>>

ReplaceBackup(p) ==
  /\ At(p, "replace bak") /\ ~Held(p, "bakTmp") /\ bakTmp # Missing
  /\ bak' = bakTmp /\ bakTmp' = Missing /\ GoesTo(p, "replace main")
  /\ UNCHANGED <<main, tmp, stamp, deaths, monitorVars>>

ReplaceMain(p) ==
  /\ At(p, "replace main") /\ ~Held(p, "tmp") /\ tmp # Missing
  /\ main' = tmp /\ tmp' = Missing /\ stamp' = stamp + 1
  /\ saver' = [saver EXCEPT ![p] = Idle]
  /\ UNCHANGED <<bak, bakTmp, deaths, monitorVars>>

\* a step fails, for whatever reason: the temporaries written so far are
\* removed, unless another process is writing them
GiveUp(p) ==
  /\ saver[p].pc \in {"tmp", "backup", "bakTmp", "replace bak", "replace main"}
  /\ tmp' = IF Held(p, "tmp") THEN tmp ELSE Missing
  /\ bakTmp' = IF saver[p].pc \in {"tmp", "replace main"} \/ Held(p, "bakTmp") THEN bakTmp ELSE Missing
  /\ saver' = [saver EXCEPT ![p] = Idle]
  /\ UNCHANGED <<main, bak, stamp, deaths, monitorVars>>

\* a settings process dies in the middle of a save
SaverDies(p) ==
  /\ saver[p].pc # "idle"
  /\ saver' = [saver EXCEPT ![p] = Idle]
  /\ deaths' = IF saver[p].pc \in {"tmp", "bakTmp"} THEN deaths + 1 ELSE deaths
  /\ UNCHANGED <<files, monitorVars>>

Save(p) ==
  \/ FinishTemporary(p) \/ ReadExisting(p) \/ BeginBackup(p)
  \/ FinishBackup(p) \/ ReplaceBackup(p) \/ ReplaceMain(p) \/ GiveUp(p)

---------------------------------------------------------------------------
(* ConfigMonitor.                                                          *)

\* start loads and publishes, and its thread observes the file a little later
StartMonitor ==
  /\ watch = "down"
  /\ store' = [doc |-> Loaded, gen |-> 1]
  /\ snapshot' = Loaded /\ generation' = 1
  /\ watch' = "start"
  /\ UNCHANGED <<files, saving, seen>>
FirstObservation ==
  /\ watch = "start"
  /\ seen' = stamp /\ watch' = "wait"
  /\ UNCHANGED <<files, saving, store, snapshot, generation>>

Observe ==
  /\ watch = "wait" /\ stamp # seen
  /\ seen' = stamp /\ watch' = "reload"
  /\ UNCHANGED <<files, saving, store, snapshot, generation>>

\* reload: the document only; one that is not valid changes nothing.  A document
\* that is valid can be read
Reload ==
  /\ watch = "reload"
  /\ IF main \in Config /\ main # store.doc
     THEN store' = [doc |-> main, gen |-> store.gen + 1] /\ watch' = "publish"
     ELSE watch' = "wait" /\ UNCHANGED store
  /\ UNCHANGED <<files, saving, seen, snapshot, generation>>

\* Sensitivity variant: the file is observed once more after it is read.
PublishObserving ==
  /\ watch = "publish"
  /\ snapshot' = store.doc /\ seen' = stamp /\ watch' = "announce"
  /\ UNCHANGED <<files, saving, store, generation>>

\* readers take no lock: they see the snapshot change before the generation
Publish ==
  /\ watch = "publish"
  /\ snapshot' = store.doc /\ watch' = "announce"
  /\ UNCHANGED <<files, saving, seen, store, generation>>
Announce ==
  /\ watch = "announce"
  /\ generation' = store.gen /\ watch' = "wait"
  /\ UNCHANGED <<files, saving, seen, store, snapshot>>

Monitor == StartMonitor \/ FirstObservation \/ Observe \/ Reload \/ Publish \/ Announce

---------------------------------------------------------------------------
(* What a save leaves on disk, whoever else saves.                         *)

\* The document can be read or else its backup, however saves cross, unless two
\* settings processes have died while they wrote a temporary file: one of the
\* document and one of the backup, which a third then moves over both
\* (config_store.cpp:436-460).
ConfigLoadable == deaths <= 1 => main \in Config \/ bak \in Config
=============================================================================
