-------------------------- MODULE CoreFilesProofs ---------------------------
(***************************************************************************)
(* Theorems about the configuration on disk, for any documents and any     *)
(* number of settings processes.                                           *)
(*                                                                         *)
(* ConfigSpec is what the configuration goes through by itself: saves,     *)
(* deaths, the monitor, and the end of Core or of everything.  A document  *)
(* and a backup that cannot be read take two different accidents: a        *)
(* temporary document nobody writes any more that is moved over the        *)
(* document (against MainSound), and a temporary backup of that kind that  *)
(* is moved over the backup (against BackupSound).  Each takes a death of  *)
(* its own.                                                                *)
(*                                                                         *)
(* Theorems about what Core has learned, for any texts and any number of   *)
(* selections between two flushes.                                         *)
(*                                                                         *)
(* LearningSpec is what the counts and their file go through by            *)
(* themselves.  The file is the last that was written unless it is         *)
(* damaged; the backup is one of the last two until the first fault, and   *)
(* after it still when that was a power loss that spared it.               *)
(***************************************************************************)
EXTENDS ConfigService, LearningStore, SequenceTheorems, TLAPS

\* Core ends, and its monitor with it.
MonitorEnds == watch' = "down" /\ UNCHANGED <<files, saving, seen, store, snapshot, generation>>

\* The power fails: the settings processes end, too.
EverythingEnds ==
  /\ watch' = "down" /\ saver' = [p \in Savers |-> Idle]
  /\ UNCHANGED <<files, deaths, seen, store, snapshot, generation>>

\* A step of one settings process.
Steps(p) == (\E doc \in Config : BeginSave(p, doc)) \/ Save(p) \/ SaverDies(p)

ConfigNext ==
  \/ \E p \in Savers : Steps(p)
  \/ Monitor \/ MonitorEnds \/ EverythingEnds

ConfigSpec == InitConfig /\ [][ConfigNext]_configVars

---------------------------------------------------------------------------
(* The invariant *)

\* Nobody writes the temporary document, or the temporary backup.
NobodyAt(pc) == \A p \in Savers : saver[p].pc # pc

Underway == {"read", "backup", "bakTmp", "replace bak", "replace main"}

\* Who has the file open that it writes finds it torn still; a document to be
\* written is one, and so is one that was read.
WritersHold ==
  \A p \in Savers :
    /\ saver[p].pc = "tmp" => tmp = Torn
    /\ saver[p].pc = "bakTmp" => bakTmp = Torn
    /\ saver[p].pc # "idle" => saver[p].doc \in Config
    /\ saver[p].pc \in {"backup", "bakTmp"} => saver[p].existing \in Config

\* The document is one, and a torn temporary document is still being written
\* unless all the settings processes are gone.
MainSound ==
  /\ main \in Config
  /\ tmp = Torn /\ NobodyAt("tmp") => \A p \in Savers : saver[p].pc \notin Underway

\* The backup is not torn, and is a document when the document is not or may be
\* replaced; a torn temporary backup is still being written unless nobody is
\* about to move it.
BackupSound ==
  /\ bak # Torn
  /\ bakTmp = Torn /\ NobodyAt("bakTmp") => NobodyAt("replace bak")
  /\ main \notin Config \/ ~NobodyAt("replace main") => bak \in Config

\* One process at most writes a temporary file.
OneWriter ==
  \A p, q \in Savers :
    saver[p].pc = saver[q].pc /\ saver[p].pc \in {"tmp", "bakTmp"} => p = q

ConfigInv ==
  /\ ConfigTypeOK
  /\ OneWriter
  /\ WritersHold
  /\ deaths = 0 => MainSound /\ BackupSound
  /\ deaths = 1 => MainSound \/ BackupSound

---------------------------------------------------------------------------
(* What the steps of a save do, one process at a time *)

\* Where a process that saves can be.
SaverStates ==
  [pc : {"idle", "tmp", "read", "backup", "bakTmp", "replace bak", "replace main"},
   doc : Config \cup {Missing}, existing : Config \cup {Missing}]

\* A step of one process moves that one and leaves the others where they are.
LEMMA OthersStay ==
  ASSUME ConfigTypeOK, NEW p \in Savers, Steps(p)
  PROVE  \E r \in SaverStates : saver' = [saver EXCEPT ![p] = r]
<1>0. saver \in [Savers -> SaverStates] /\ Idle \in SaverStates /\ saver[p] \in SaverStates
  BY DEF ConfigTypeOK, SaverStates, Idle
<1>1. ASSUME NEW doc \in Config, BeginSave(p, doc) PROVE \E r \in SaverStates : saver' = [saver EXCEPT ![p] = r]
  <2>1. [pc |-> "tmp", doc |-> doc, existing |-> Missing] \in SaverStates
    BY DEF SaverStates
  <2> QED BY <1>1, <2>1 DEF BeginSave
<1>2. ASSUME NEW pc \in {"idle", "tmp", "read", "backup", "bakTmp", "replace bak", "replace main"}, GoesTo(p, pc)
      PROVE  \E r \in SaverStates : saver' = [saver EXCEPT ![p] = r]
  <2>1. [saver[p] EXCEPT !.pc = pc] \in SaverStates
    BY <1>0 DEF SaverStates
  <2> QED BY <1>2, <2>1 DEF GoesTo
<1>3. CASE main \in Config /\ saver' = [saver EXCEPT ![p].existing = main, ![p].pc = "backup"]
  <2>1. [saver[p] EXCEPT !.existing = main, !.pc = "backup"] \in SaverStates
    BY <1>0, <1>3 DEF SaverStates
  <2>2. saver' = [saver EXCEPT ![p] = [saver[p] EXCEPT !.existing = main, !.pc = "backup"]]
    BY <1>0, <1>3
  <2> QED BY <2>1, <2>2
<1>4. CASE saver' = [saver EXCEPT ![p] = Idle]
  BY <1>0, <1>4
<1> QED
  BY <1>1, <1>2, <1>3, <1>4 DEF Steps, Save, FinishTemporary, ReadExisting, BeginBackup, FinishBackup,
       ReplaceBackup, ReplaceMain, GiveUp, SaverDies

\* Types are preserved by every step.
LEMMA ConfigTyped == ConfigTypeOK /\ [ConfigNext]_configVars => ConfigTypeOK'
<1> SUFFICES ASSUME ConfigTypeOK, [ConfigNext]_configVars PROVE ConfigTypeOK'
  OBVIOUS
<1> USE ConfigConstants
<1>1. ASSUME NEW p \in Savers, Steps(p) PROVE ConfigTypeOK'
  <2>1. saver' \in [Savers -> SaverStates]
    BY <1>1, OthersStay DEF ConfigTypeOK, SaverStates
  <2>2. {main, bak, tmp, bakTmp}' \subseteq Config \cup {Torn, Missing}
    <3>1. saver[p].doc \in Config \cup {Missing} /\ saver[p].existing \in Config \cup {Missing}
      BY DEF ConfigTypeOK
    <3> QED
      BY <1>1, <3>1 DEF ConfigTypeOK, Steps, Save, BeginSave, FinishTemporary, ReadExisting, BeginBackup,
           FinishBackup, ReplaceBackup, ReplaceMain, GiveUp, SaverDies, files
  <2>3. deaths' = deaths \/ deaths' = deaths + 1
    BY <1>1 DEF Steps, Save, BeginSave, FinishTemporary, ReadExisting, BeginBackup,
           FinishBackup, ReplaceBackup, ReplaceMain, GiveUp, SaverDies
  <2>4. stamp' = stamp \/ stamp' = stamp + 1
    BY <1>1 DEF Steps, Save, BeginSave, FinishTemporary, ReadExisting, BeginBackup,
           FinishBackup, ReplaceBackup, ReplaceMain, GiveUp, SaverDies, files
  <2>5. UNCHANGED monitorVars
    BY <1>1 DEF Steps, Save, BeginSave, FinishTemporary, ReadExisting, BeginBackup,
           FinishBackup, ReplaceBackup, ReplaceMain, GiveUp, SaverDies
  <2>6. deaths' \in Nat /\ stamp' \in Nat
    <3>1. deaths \in Nat /\ stamp \in Nat
      BY DEF ConfigTypeOK
    <3> QED BY <2>3, <2>4, <3>1
  <2> QED
    BY <2>1, <2>2, <2>5, <2>6 DEF ConfigTypeOK, SaverStates, monitorVars
<1>2. CASE Monitor
  <2>1. Loaded \in Config
    BY DEF Loaded
  <2>2. UNCHANGED <<files, saving>>
    BY <1>2 DEF Monitor, StartMonitor, FirstObservation, Observe, Reload, Publish, Announce
  <2>3. CASE StartMonitor
    <3>1. [doc |-> Loaded, gen |-> 1] \in [doc : Config, gen : Nat]
      BY <2>1
    <3> QED BY <2>1, <2>2, <2>3, <3>1 DEF ConfigTypeOK, StartMonitor, files, saving
  <2>4. CASE Reload
    <3>1. main \in Config => [doc |-> main, gen |-> store.gen + 1] \in [doc : Config, gen : Nat]
      <4>1. store.gen \in Nat
        BY DEF ConfigTypeOK
      <4>2. store.gen + 1 \in Nat
        BY <4>1
      <4> QED BY <4>2
    <3>2. store' \in [doc : Config, gen : Nat] /\ watch' \in {"publish", "wait"}
      BY <2>4, <3>1 DEF ConfigTypeOK, Reload
    <3> QED BY <2>2, <2>4, <3>2 DEF ConfigTypeOK, Reload, files, saving
  <2>5. CASE FirstObservation \/ Observe \/ Publish \/ Announce
    <3>1. store.doc \in Config /\ store.gen \in Nat
      BY DEF ConfigTypeOK
    <3> QED BY <2>2, <2>5, <3>1 DEF ConfigTypeOK, FirstObservation, Observe, Publish, Announce, files, saving
  <2> QED
    BY <1>2, <2>3, <2>4, <2>5 DEF Monitor
<1>3. CASE MonitorEnds
  BY <1>3 DEF ConfigTypeOK, MonitorEnds, files, saving
<1>4. CASE EverythingEnds
  BY <1>4 DEF ConfigTypeOK, EverythingEnds, Idle, files
<1>5. CASE UNCHANGED configVars
  BY <1>5 DEF ConfigTypeOK, configVars, files, saving
<1> QED
  BY <1>1, <1>2, <1>3, <1>4, <1>5 DEF ConfigNext, Steps
---------------------------------------------------------------------------
(* Who writes a temporary file *)

\* No step makes two writers of a temporary file, and a temporary file that is
\* written stays torn.
LEMMA WritersStep ==
  ASSUME ConfigTypeOK, OneWriter, WritersHold, [ConfigNext]_configVars
  PROVE  OneWriter' /\ WritersHold'
<1> USE ConfigConstants
<1>0. saver \in [Savers -> SaverStates]
  BY DEF ConfigTypeOK, SaverStates
<1>1. ASSUME NEW p \in Savers, NEW doc \in Config, BeginSave(p, doc) PROVE OneWriter' /\ WritersHold'
  BY <1>0, <1>1 DEF OneWriter, WritersHold, BeginSave, At, Held
<1>2. ASSUME NEW p \in Savers, FinishTemporary(p) PROVE OneWriter' /\ WritersHold'
  BY <1>0, <1>2 DEF OneWriter, WritersHold, FinishTemporary, At, GoesTo, SaverStates
<1>3. ASSUME NEW p \in Savers, ReadExisting(p) PROVE OneWriter' /\ WritersHold'
  <2>1. UNCHANGED <<tmp, bakTmp>> /\ saver[p].doc \in Config
    BY <1>3 DEF ReadExisting, files, WritersHold, At
  <2>2. CASE main \in Config /\ saver' = [saver EXCEPT ![p].existing = main, ![p].pc = "backup"]
    <3>1. saver'[p] = [saver[p] EXCEPT !.existing = main, !.pc = "backup"] /\ \A q \in Savers \ {p} : saver'[q] = saver[q]
      BY <1>0, <2>2
    <3>2. saver'[p].pc = "backup" /\ saver'[p].existing \in Config /\ saver'[p].doc \in Config
      <4>1. saver[p] \in SaverStates
        BY <1>0
      <4>2. [saver[p] EXCEPT !.existing = main, !.pc = "backup"].pc = "backup"
        BY <4>1 DEF SaverStates
      <4>3. [saver[p] EXCEPT !.existing = main, !.pc = "backup"].existing = main
        BY <4>1 DEF SaverStates
      <4>4. [saver[p] EXCEPT !.existing = main, !.pc = "backup"].doc = saver[p].doc
        BY <4>1 DEF SaverStates
      <4> QED BY <2>1, <2>2, <3>1, <4>2, <4>3, <4>4
    <3> QED BY <2>1, <3>1, <3>2 DEF OneWriter, WritersHold
  <2>3. CASE GoesTo(p, "replace main")
    BY <1>0, <2>1, <2>3 DEF OneWriter, WritersHold, GoesTo, SaverStates
  <2> QED BY <1>3, <2>2, <2>3 DEF ReadExisting
<1>4. ASSUME NEW p \in Savers, BeginBackup(p) PROVE OneWriter' /\ WritersHold'
  BY <1>0, <1>4 DEF OneWriter, WritersHold, BeginBackup, At, Held, GoesTo, SaverStates
<1>5. ASSUME NEW p \in Savers, FinishBackup(p) PROVE OneWriter' /\ WritersHold'
  BY <1>0, <1>5 DEF OneWriter, WritersHold, FinishBackup, At, GoesTo, SaverStates
<1>6. ASSUME NEW p \in Savers, ReplaceBackup(p) PROVE OneWriter' /\ WritersHold'
  BY <1>0, <1>6 DEF OneWriter, WritersHold, ReplaceBackup, At, Held, GoesTo, SaverStates
<1>7. ASSUME NEW p \in Savers, ReplaceMain(p) PROVE OneWriter' /\ WritersHold'
  BY <1>0, <1>7 DEF OneWriter, WritersHold, ReplaceMain, At, Held, Idle, SaverStates
<1>8. ASSUME NEW p \in Savers, GiveUp(p) PROVE OneWriter' /\ WritersHold'
  BY <1>0, <1>8 DEF OneWriter, WritersHold, GiveUp, Held, Idle, SaverStates
<1>9. ASSUME NEW p \in Savers, SaverDies(p) PROVE OneWriter' /\ WritersHold'
  BY <1>0, <1>9 DEF OneWriter, WritersHold, SaverDies, Idle, SaverStates, files
<1>10. CASE UNCHANGED <<files, saving>>
  BY <1>10 DEF OneWriter, WritersHold, files, saving
<1>11. CASE EverythingEnds
  BY <1>11 DEF OneWriter, WritersHold, EverythingEnds, Idle
<1>12. Monitor \/ MonitorEnds \/ UNCHANGED configVars => UNCHANGED <<files, saving>>
  BY DEF Monitor, StartMonitor, FirstObservation, Observe, Reload, Publish, Announce, MonitorEnds, configVars
<1> QED
  BY <1>1, <1>2, <1>3, <1>4, <1>5, <1>6, <1>7, <1>8, <1>9, <1>10, <1>11, <1>12 DEF ConfigNext, Steps, Save

---------------------------------------------------------------------------
(* The two accidents *)

\* The document stays one unless a process dies while it writes the temporary
\* document.
LEMMA MainStep ==
  ASSUME ConfigTypeOK, OneWriter, WritersHold, MainSound, [ConfigNext]_configVars,
         \A p \in Savers : ~(At(p, "tmp") /\ SaverDies(p))
  PROVE  MainSound'
<1> USE ConfigConstants DEF Underway
<1>0. saver \in [Savers -> SaverStates]
  BY DEF ConfigTypeOK, SaverStates
<1>1. ASSUME NEW p \in Savers, NEW doc \in Config, BeginSave(p, doc) PROVE MainSound'
  BY <1>0, <1>1 DEF MainSound, NobodyAt, BeginSave, At
<1>2. ASSUME NEW p \in Savers, FinishTemporary(p) PROVE MainSound'
  BY <1>0, <1>2 DEF MainSound, NobodyAt, WritersHold, FinishTemporary, At
<1>3. ASSUME NEW p \in Savers, ReadExisting(p) PROVE MainSound'
  BY <1>0, <1>3 DEF MainSound, NobodyAt, ReadExisting, At, GoesTo, SaverStates, files
<1>4. ASSUME NEW p \in Savers, BeginBackup(p) \/ FinishBackup(p) \/ ReplaceBackup(p) PROVE MainSound'
  BY <1>0, <1>4 DEF MainSound, NobodyAt, BeginBackup, FinishBackup, ReplaceBackup, At, GoesTo, SaverStates
<1>5. ASSUME NEW p \in Savers, ReplaceMain(p) PROVE MainSound'
  <2>1. NobodyAt("tmp")
    BY <1>5 DEF NobodyAt, ReplaceMain, At, Held
  <2>2. tmp \in Config
    BY <1>5, <2>1 DEF MainSound, ConfigTypeOK, ReplaceMain, At
  <2> QED BY <1>0, <1>5, <2>2 DEF MainSound, NobodyAt, ReplaceMain
<1>6. ASSUME NEW p \in Savers, GiveUp(p) PROVE MainSound'
  <2>1. main' = main /\ saver' = [saver EXCEPT ![p] = Idle]
    BY <1>6 DEF GiveUp
  <2>2. tmp' = Torn => tmp = Torn /\ Held(p, "tmp")
    BY <1>6 DEF GiveUp
  <2> QED BY <1>0, <2>1, <2>2 DEF MainSound, NobodyAt, Held, Idle
<1>7. ASSUME NEW p \in Savers, SaverDies(p) PROVE MainSound'
  <2>1. saver[p].pc # "tmp"
    BY <1>7 DEF At
  <2> QED BY <1>0, <1>7, <2>1 DEF MainSound, NobodyAt, SaverDies, Idle, SaverStates, files
<1>8. CASE UNCHANGED <<files, saving>>
  BY <1>8 DEF MainSound, NobodyAt, files, saving
<1>9. CASE EverythingEnds
  BY <1>9 DEF MainSound, NobodyAt, EverythingEnds, Idle, files
<1>10. Monitor \/ MonitorEnds \/ UNCHANGED configVars => UNCHANGED <<files, saving>>
  BY DEF Monitor, StartMonitor, FirstObservation, Observe, Reload, Publish, Announce, MonitorEnds, configVars
<1> QED
  BY <1>1, <1>2, <1>3, <1>4, <1>5, <1>6, <1>7, <1>8, <1>9, <1>10 DEF ConfigNext, Steps, Save

\* The backup stays one that can stand in for the document unless a process
\* dies while it writes the temporary backup.
LEMMA BackupStep ==
  ASSUME ConfigTypeOK, OneWriter, WritersHold, BackupSound, [ConfigNext]_configVars,
         \A p \in Savers : ~(At(p, "bakTmp") /\ SaverDies(p))
  PROVE  BackupSound'
<1> USE ConfigConstants
<1>0. saver \in [Savers -> SaverStates]
  BY DEF ConfigTypeOK, SaverStates
<1>1. ASSUME NEW p \in Savers, NEW doc \in Config, BeginSave(p, doc) PROVE BackupSound'
  BY <1>0, <1>1 DEF BackupSound, NobodyAt, BeginSave, At
<1>2. ASSUME NEW p \in Savers, FinishTemporary(p) PROVE BackupSound'
  BY <1>0, <1>2 DEF BackupSound, NobodyAt, FinishTemporary, At, GoesTo, SaverStates
<1>3. ASSUME NEW p \in Savers, ReadExisting(p) PROVE BackupSound'
  <2>1. PICK goal \in {"backup", "replace main"} :
          \A q \in Savers : saver'[q].pc = IF q = p THEN goal ELSE saver[q].pc
    BY <1>0, <1>3 DEF ReadExisting, GoesTo, SaverStates
  <2>2. saver[p].pc = "read" /\ UNCHANGED files
    BY <1>3 DEF ReadExisting, At
  <2>3. goal = "replace main" => main \notin Config \/ ~NobodyAt("replace main")
    BY <1>0, <1>3, <2>1 DEF ReadExisting, Held, NobodyAt, SaverStates
  <2> QED BY <2>1, <2>2, <2>3 DEF BackupSound, NobodyAt, files
<1>4. ASSUME NEW p \in Savers, BeginBackup(p) PROVE BackupSound'
  BY <1>0, <1>4 DEF BackupSound, NobodyAt, BeginBackup, At, GoesTo, SaverStates
<1>5. ASSUME NEW p \in Savers, FinishBackup(p) PROVE BackupSound'
  BY <1>0, <1>5 DEF BackupSound, NobodyAt, WritersHold, FinishBackup, At, GoesTo, SaverStates
<1>6. ASSUME NEW p \in Savers, ReplaceBackup(p) PROVE BackupSound'
  <2>1. NobodyAt("bakTmp")
    BY <1>6 DEF NobodyAt, ReplaceBackup, At, Held
  <2>2. bakTmp \in Config
    BY <1>6, <2>1 DEF BackupSound, NobodyAt, ConfigTypeOK, ReplaceBackup, At
  <2> QED BY <1>0, <1>6, <2>2 DEF BackupSound, NobodyAt, ReplaceBackup
<1>7. ASSUME NEW p \in Savers, ReplaceMain(p) PROVE BackupSound'
  <2>1. bak \in Config
    BY <1>7 DEF BackupSound, NobodyAt, ReplaceMain, At
  <2>2. UNCHANGED <<bak, bakTmp>> /\ saver' = [saver EXCEPT ![p] = Idle] /\ saver[p].pc = "replace main"
    BY <1>7 DEF ReplaceMain, At
  <2>3. NobodyAt("bakTmp")' => NobodyAt("bakTmp")
    BY <1>0, <2>2 DEF NobodyAt
  <2>4. NobodyAt("replace bak") => NobodyAt("replace bak")'
    BY <1>0, <2>2 DEF NobodyAt, Idle
  <2> QED BY <2>1, <2>2, <2>3, <2>4 DEF BackupSound
<1>8. ASSUME NEW p \in Savers, GiveUp(p) PROVE BackupSound'
  <2>1. UNCHANGED <<main, bak>> /\ saver' = [saver EXCEPT ![p] = Idle]
    BY <1>8 DEF GiveUp
  <2>2. bakTmp' = Torn => bakTmp = Torn /\ (saver[p].pc # "bakTmp" \/ Held(p, "bakTmp"))
    BY <1>8 DEF GiveUp
  <2>3. bakTmp' = Torn /\ NobodyAt("bakTmp")' => NobodyAt("bakTmp")
    BY <1>0, <2>1, <2>2 DEF NobodyAt, Held
  <2>4. NobodyAt("replace bak") => NobodyAt("replace bak")'
    BY <1>0, <2>1 DEF NobodyAt, Idle
  <2>5. NobodyAt("replace main") => NobodyAt("replace main")'
    BY <1>0, <2>1 DEF NobodyAt, Idle
  <2> QED BY <2>1, <2>2, <2>3, <2>4, <2>5 DEF BackupSound
<1>9. ASSUME NEW p \in Savers, SaverDies(p) PROVE BackupSound'
  <2>1. saver[p].pc # "bakTmp"
    BY <1>9 DEF At
  <2> QED BY <1>0, <1>9, <2>1 DEF BackupSound, NobodyAt, SaverDies, Idle, SaverStates, files
<1>10. CASE UNCHANGED <<files, saving>>
  BY <1>10 DEF BackupSound, NobodyAt, files, saving
<1>11. CASE EverythingEnds
  BY <1>11 DEF BackupSound, NobodyAt, EverythingEnds, Idle, files
<1>12. Monitor \/ MonitorEnds \/ UNCHANGED configVars => UNCHANGED <<files, saving>>
  BY DEF Monitor, StartMonitor, FirstObservation, Observe, Reload, Publish, Announce, MonitorEnds, configVars
<1> QED
  BY <1>1, <1>2, <1>3, <1>4, <1>5, <1>6, <1>7, <1>8, <1>9, <1>10, <1>11, <1>12 DEF ConfigNext, Steps, Save
---------------------------------------------------------------------------
(* The invariant and what follows from it *)

\* The invariant holds at the start and is kept by every step: with the first
\* death at most one of the two accidents has happened.
LEMMA ConfigInvariantStep == ConfigInv /\ [ConfigNext]_configVars => ConfigInv'
<1> SUFFICES ASSUME ConfigInv, [ConfigNext]_configVars PROVE ConfigInv'
  OBVIOUS
<1>1. ConfigTypeOK /\ OneWriter /\ WritersHold /\ deaths \in Nat
  BY DEF ConfigInv, ConfigTypeOK
<1>2. ConfigTypeOK' /\ OneWriter' /\ WritersHold'
  BY <1>1, ConfigTyped, WritersStep
<1>3. ASSUME NEW p \in Savers, SaverDies(p), At(p, "tmp") \/ At(p, "bakTmp") PROVE ConfigInv'
  <2>1. deaths' = deaths + 1
    BY <1>3 DEF SaverDies, At
  <2>2. ASSUME At(p, "tmp"), BackupSound PROVE BackupSound'
    <3>1. \A q \in Savers : ~(At(q, "bakTmp") /\ SaverDies(q))
      <4> SUFFICES ASSUME NEW q \in Savers, At(q, "bakTmp"), SaverDies(q) PROVE FALSE
        OBVIOUS
      <4>1. saver'[q] = saver[q] \/ q = p
        BY <1>1, <1>3 DEF SaverDies, ConfigTypeOK
      <4>2. saver'[q].pc = "idle"
        BY <1>1 DEF SaverDies, ConfigTypeOK, Idle
      <4> QED BY <2>2, <4>1, <4>2 DEF At
    <3> QED BY <1>1, <2>2, <3>1, BackupStep
  <2>3. ASSUME At(p, "bakTmp"), MainSound PROVE MainSound'
    <3>1. \A q \in Savers : ~(At(q, "tmp") /\ SaverDies(q))
      <4> SUFFICES ASSUME NEW q \in Savers, At(q, "tmp"), SaverDies(q) PROVE FALSE
        OBVIOUS
      <4>1. saver'[q] = saver[q] \/ q = p
        BY <1>1, <1>3 DEF SaverDies, ConfigTypeOK
      <4>2. saver'[q].pc = "idle"
        BY <1>1 DEF SaverDies, ConfigTypeOK, Idle
      <4> QED BY <2>3, <4>1, <4>2 DEF At
    <3> QED BY <1>1, <2>3, <3>1, MainStep
  <2>4. deaths = 0 => MainSound' \/ BackupSound'
    BY <1>3, <2>2, <2>3 DEF ConfigInv
  <2> QED BY <1>1, <1>2, <2>1, <2>4 DEF ConfigInv
<1>4. CASE \A p \in Savers : SaverDies(p) => ~At(p, "tmp") /\ ~At(p, "bakTmp")
  <2>1. deaths' = deaths
    BY <1>4 DEF ConfigNext, Steps, Save, BeginSave, FinishTemporary, ReadExisting, BeginBackup, FinishBackup,
         ReplaceBackup, ReplaceMain, GiveUp, SaverDies, At, Monitor, StartMonitor, FirstObservation, Observe,
         Reload, Publish, Announce, MonitorEnds, EverythingEnds, configVars, saving
  <2>2. MainSound => MainSound'
    BY <1>1, <1>4, MainStep
  <2>3. BackupSound => BackupSound'
    BY <1>1, <1>4, BackupStep
  <2> QED BY <1>2, <2>1, <2>2, <2>3 DEF ConfigInv
<1> QED BY <1>3, <1>4

\* The inductive invariant.
THEOREM ConfigInvariant == ConfigSpec => []ConfigInv
<1>1. InitConfig => ConfigInv
  <2> SUFFICES ASSUME InitConfig PROVE ConfigInv
    OBVIOUS
  <2>1. \A p \in Savers : saver[p].pc = "idle"
    BY DEF InitConfig, Idle
  <2>2. ConfigTypeOK
    <3>1. Idle \in SaverStates
      BY DEF Idle, SaverStates
    <3>2. store \in [doc : Config, gen : Nat]
      BY ConfigConstants DEF InitConfig
    <3> QED BY <3>1, <3>2, ConfigConstants DEF InitConfig, ConfigTypeOK, SaverStates
  <2>3. OneWriter /\ WritersHold
    BY <2>1 DEF OneWriter, WritersHold
  <2>4. MainSound /\ BackupSound
    BY <2>1, ConfigConstants DEF InitConfig, MainSound, BackupSound, NobodyAt, Underway
  <2> QED BY <2>2, <2>3, <2>4 DEF ConfigInv
<1> QED BY <1>1, ConfigInvariantStep, PTL DEF ConfigSpec

\* However many settings processes save at once, fail and die, the document can
\* be read or else its backup, as long as one of them at most dies while it
\* writes a temporary file (config_store.cpp:436-460).
THEOREM ConfigStaysLoadable == ConfigSpec => []ConfigLoadable
<1>1. ConfigInv => ConfigLoadable
  <2>1. deaths \in Nat /\ deaths <= 1 => deaths = 0 \/ deaths = 1
    OBVIOUS
  <2> QED BY <2>1 DEF ConfigInv, ConfigTypeOK, ConfigLoadable, MainSound, BackupSound
<1> QED BY <1>1, ConfigInvariant, PTL
-----------------------------------------------------------------------------
(* What Core has learned *)

(* The invariant *)

\* What the file has, unless it is damaged.
InFile == IF learned = Absent THEN <<>> ELSE learned

\* The counts of the last two flushes.
Recent == {written[i] : i \in {Len(written) - 1, Len(written)} \cap DOMAIN written}

\* The file is the last that was written, unless a power loss damaged it; and
\* then, if that is all that happened, the backup is recent.
LastWritten ==
  /\ written # <<>>
  /\ "file" \notin hit => learned # Damaged
  /\ learned # Damaged => InFile = written[Len(written)]
  /\ learned = Damaged /\ faults <= 1 /\ "backup" \notin hit => learnedBak \in Recent \cup {Absent}
  /\ faults = 0 => learned # Damaged /\ learnedBak \in Recent \cup {Absent}
  /\ learned = Absent => learnedBak = Absent
  /\ learned \in FileHad \cup {Damaged, Absent} /\ learnedBak \in FileHad \cup {Damaged, Absent}

LearningInv ==
  /\ LearningTypeOK
  /\ NothingUnaccounted
  /\ LastWritten

\* Until the first fault fewer selections than are flushed together are only in
\* memory.
FewUnflushed == faults = 0 => unflushed < FlushEvery

---------------------------------------------------------------------------
(* Sequences *)

\* A text that is appended leaves what comes before it.
LEMMA PrefixKept ==
  ASSUME NEW s \in Seq(Texts), NEW e \in Texts, NEW n \in 0..Len(s)
  PROVE  SubSeq(Append(s, e), 1, n) = SubSeq(s, 1, n)
<1>1. /\ Append(s, e) \in Seq(Texts) /\ Len(Append(s, e)) = Len(s) + 1
      /\ \A i \in 1..Len(s) : Append(s, e)[i] = s[i]
  BY AppendProperties
<1>2. Len(s) \in Nat /\ \A i \in 1..n : s[i] \in Texts /\ Append(s, e)[i] = s[i]
  BY <1>1, LenProperties, ElementOfSeq
<1>3. n \in Int
  BY <1>2
<1> DEFINE a == SubSeq(Append(s, e), 1, n)
           b == SubSeq(s, 1, n)
<1>4. /\ a \in Seq(Texts) /\ Len(a) = IF 1 <= n THEN n - 1 + 1 ELSE 0
      /\ \A i \in 1..n - 1 + 1 : a[i] = Append(s, e)[1 + i - 1]
  BY ONLY <1>2, <1>3, SubSeqProperties
<1>5. /\ b \in Seq(Texts) /\ Len(b) = IF 1 <= n THEN n - 1 + 1 ELSE 0
      /\ \A i \in 1..n - 1 + 1 : b[i] = s[1 + i - 1]
  BY ONLY <1>2, <1>3, SubSeqProperties
<1>6. Len(a) = Len(b) /\ Len(a) = n
  BY <1>2, <1>4, <1>5
<1>7. \A i \in 1..n : a[i] = b[i]
  <2> TAKE i \in 1..n
  <2>1. i \in 1..n - 1 + 1 /\ 1 + i - 1 = i
    BY <1>2
  <2> QED BY <1>2, <1>4, <1>5, <2>1
<1> HIDE DEF a, b
<1>8. a = b
  BY <1>4, <1>5, <1>6, <1>7, SeqEqual
<1> QED BY <1>8 DEF a, b

---------------------------------------------------------------------------
(* The file *)

\* What can be read is what the file has, unless it is damaged.
LEMMA ReadableIsInFile ==
  ASSUME LearningTypeOK, learned # Damaged
  PROVE  Readable = InFile /\ InFile \in Seq(Texts)
BY EmptySeq DEF LearningTypeOK, Readable, InFile
\* A flush leaves files of the kinds there are, however far it gets.
LEMMA FlushTyped ==
  ASSUME LearningTypeOK, NEW now \in Seq(Texts), NEW stage, FlushedTo(stage, now)
  PROVE  /\ learned' \in Seq(Texts) \cup {Damaged, Absent}
         /\ learnedBak' \in Seq(Texts) \cup {Damaged, Absent}
         /\ written' \in Seq(Seq(Texts))
<1>1. learned' \in Seq(Texts) \cup {Damaged, Absent} /\ learnedBak' \in Seq(Texts) \cup {Damaged, Absent}
  BY DEF LearningTypeOK, FlushedTo
<1>2. Append(written, now) \in Seq(Seq(Texts))
  BY AppendProperties DEF LearningTypeOK
<1> QED BY <1>1, <1>2 DEF LearningTypeOK, FlushedTo

\* What is written becomes the last of what was, and the last before it is
\* recent still.
LEMMA WrittenGrows ==
  ASSUME LearningTypeOK, written # <<>>, NEW now \in Seq(Texts), written' = Append(written, now)
  PROVE  /\ written' # <<>> /\ written'[Len(written')] = now
         /\ written[Len(written)] \in Recent'
<1>1. /\ written' \in Seq(Seq(Texts)) /\ written' # <<>> /\ Len(written') = Len(written) + 1
      /\ \A i \in 1..Len(written) : written'[i] = written[i]
      /\ written'[Len(written) + 1] = now
  BY AppendProperties DEF LearningTypeOK
<1>2. Len(written) \in Nat \ {0} /\ DOMAIN written' = 1..Len(written')
  BY <1>1, EmptySeq, LenProperties DEF LearningTypeOK
<1>3. Len(written) \in {Len(written') - 1, Len(written')} \cap DOMAIN written'
  BY <1>1, <1>2
<1>4. written'[Len(written)] = written[Len(written)]
  BY <1>1, <1>2
<1> QED BY <1>1, <1>3, <1>4 DEF Recent

\* The last of what was written is recent.
LEMMA LastIsRecent ==
  ASSUME LearningTypeOK, written # <<>>
  PROVE  written[Len(written)] \in Recent
<1>1. Len(written) \in Nat \ {0} /\ DOMAIN written = 1..Len(written)
  BY EmptySeq, LenProperties DEF LearningTypeOK
<1>2. Len(written) \in {Len(written) - 1, Len(written)} \cap DOMAIN written
  BY <1>1
<1> QED BY <1>2 DEF Recent

\* What the file had it still has had, and what is written too.
LEMMA HadGrows ==
  ASSUME LearningTypeOK, written # <<>>, NEW now \in Seq(Texts), written' = Append(written, now)
  PROVE  FileHad \subseteq FileHad' /\ now \in FileHad'
<1>1. /\ Len(written') = Len(written) + 1 /\ written' \in Seq(Seq(Texts))
      /\ \A i \in 1..Len(written) : written'[i] = written[i]
      /\ written'[Len(written) + 1] = now
  BY AppendProperties DEF LearningTypeOK
<1>2. Len(written) \in Nat \ {0} /\ DOMAIN written = 1..Len(written) /\ DOMAIN written' = 1..Len(written')
  BY <1>1, EmptySeq, LenProperties DEF LearningTypeOK
<1>3. Len(written) + 1 \in {n \in DOMAIN written' : n > 1 \/ FirstLearned # Absent}
  BY <1>1, <1>2
<1>4. \A i \in {n \in DOMAIN written : n > 1 \/ FirstLearned # Absent} :
        i \in {n \in DOMAIN written' : n > 1 \/ FirstLearned # Absent} /\ written'[i] = written[i]
  BY <1>1, <1>2
<1> QED BY <1>1, <1>3, <1>4 DEF FileHad

\* The file had counts.
LEMMA HadCounts ==
  ASSUME LearningTypeOK
  PROVE  FileHad \subseteq Seq(Texts)
BY ElementOfSeq, LenProperties DEF FileHad, LearningTypeOK

\* A flush keeps the file the last that was written and the backup recent,
\* as long as one that does not come to its end counts as a fault.
LEMMA FlushKeepsLast ==
  ASSUME LearningTypeOK, LastWritten, NEW now \in Seq(Texts), NEW stage \in Stages, FlushedTo(stage, now), hit' = hit,
         faults' \in {faults, faults + 1}, stage # "moved" => faults' = faults + 1
  PROVE  LastWritten'
<1> USE LearningConstants
<1>0. faults \in Nat /\ written # <<>>
  BY DEF LearningTypeOK, LastWritten
<1>1. learned # Damaged /\ learned # Absent => InFile = learned
  BY DEF InFile
<1>2. CASE stage = "moved"
  <2>1. written' = Append(written, now) /\ learned' = now
        /\ learnedBak' = IF learned = Absent THEN learnedBak ELSE learned
    BY <1>2 DEF FlushedTo
  <2>2. written' # <<>> /\ written'[Len(written')] = now /\ written[Len(written)] \in Recent'
    BY <1>0, <2>1, WrittenGrows
  <2>3. learned' # Damaged /\ learned' # Absent /\ InFile' = now
    BY <2>1 DEF InFile
  <2>4. faults' = 0 => learnedBak' \in Recent' \cup {Absent}
    BY <1>0, <1>1, <2>1, <2>2 DEF LastWritten
  <2>5. learned' \in FileHad' /\ learnedBak' \in FileHad' \cup {Damaged, Absent}
    BY <1>0, <2>1, HadGrows DEF LastWritten
  <2> QED BY <2>2, <2>3, <2>4, <2>5 DEF LastWritten
<1>3. CASE stage # "moved"
  <2>1. faults' = faults + 1 /\ UNCHANGED <<learned, written>>
    BY <1>3 DEF FlushedTo
  <2>2. InFile' = InFile /\ Recent' = Recent /\ FileHad' = FileHad
    BY <2>1 DEF InFile, Recent, FileHad
  <2>3. faults' <= 1 => faults = 0
    BY <1>0, <2>1
  <2>4. faults' # 0
    BY <1>0, <2>1
  <2>5. learned' = Damaged => ~(faults' <= 1)
    BY <2>1, <2>3 DEF LastWritten
  <2>6. learnedBak' \in {learnedBak, Damaged, learned} /\ (learned = Absent => learnedBak' = learnedBak)
    BY DEF FlushedTo
  <2> QED BY <2>1, <2>2, <2>4, <2>5, <2>6 DEF LastWritten
<1> QED BY <1>2, <1>3

---------------------------------------------------------------------------
(* A selection *)

\* So many selections of what is now counted are not in the file.
Accounts(now, n) ==
  learned # Damaged => Len(now) = Len(InFile) + n /\ InFile = SubSeq(now, 1, Len(InFile))

\* Whether the flush that is due comes to its end, fails or is not due.
LEMMA WhenDueKeeps ==
  ASSUME LearningTypeOK, LastWritten, NEW now \in Seq(Texts), NEW n \in Nat, Accounts(now, n), FlushWhenDue(now, n),
         hit' = hit
  PROVE  /\ unflushed' \in Nat /\ faults' \in Nat
         /\ learned' \in Seq(Texts) \cup {Damaged, Absent}
         /\ learnedBak' \in Seq(Texts) \cup {Damaged, Absent}
         /\ written' \in Seq(Seq(Texts))
         /\ LastWritten'
         /\ learned' # Damaged => Len(now) = Len(InFile') + unflushed' /\ InFile' = SubSeq(now, 1, Len(InFile'))
<1> USE LearningConstants
<1>1. CASE n < FlushEvery
  <2>1. unflushed' = n /\ UNCHANGED <<learned, learnedBak, written, faults>>
    BY <1>1 DEF FlushWhenDue
  <2>2. InFile' = InFile /\ Recent' = Recent /\ FileHad' = FileHad
    BY <2>1 DEF InFile, Recent, FileHad
  <2> QED BY <2>1, <2>2 DEF LearningTypeOK, LastWritten, Accounts
<1>2. CASE ~(n < FlushEvery)
  <2>1. PICK stage \in Failing \cup {"moved"} :
          /\ FlushedTo(stage, now)
          /\ unflushed' = IF stage = "moved" THEN 0 ELSE n
          /\ faults' = IF stage = "moved" THEN faults ELSE faults + 1
    BY <1>2 DEF FlushWhenDue
  <2>2. faults' \in Nat /\ unflushed' \in Nat /\ faults' \in {faults, faults + 1} /\ stage \in Stages
        /\ (stage # "moved" => faults' = faults + 1)
    <3>1. faults \in Nat
      BY DEF LearningTypeOK
    <3> QED BY <2>1, <3>1 DEF Stages, Failing
  <2>3. /\ learned' \in Seq(Texts) \cup {Damaged, Absent}
        /\ learnedBak' \in Seq(Texts) \cup {Damaged, Absent}
        /\ written' \in Seq(Seq(Texts))
    BY <2>1, FlushTyped
  <2>4. LastWritten'
    BY <2>1, <2>2, FlushKeepsLast
  <2>5. CASE stage = "moved"
    <3>1. InFile' = now /\ unflushed' = 0
      BY <2>1, <2>5 DEF FlushedTo, InFile
    <3>2. Len(now) \in Nat /\ SubSeq(now, 1, Len(now)) = now
      BY LenProperties, SubSeqFull
    <3> QED BY <2>2, <2>3, <2>4, <3>1, <3>2
  <2>6. CASE stage # "moved"
    <3>1. learned' = learned /\ InFile' = InFile /\ unflushed' = n
      BY <2>1, <2>6 DEF FlushedTo, InFile
    <3> QED BY <2>2, <2>3, <2>4, <3>1 DEF Accounts
  <2> QED BY <2>5, <2>6
<1> QED BY <1>1, <1>2

\* Core is gone: the flags and counts of one that is not there.
LEMMA GoneKeeps ==
  ASSUME Gone
  PROVE  ~up' /\ up' \in BOOLEAN /\ counts' \in Seq(Texts) /\ unflushed' \in Nat /\ NothingUnaccounted'
<1>1. ~up' /\ up' \in BOOLEAN
  BY Zenon DEF Gone
<1>2. counts' \in Seq(Texts) /\ unflushed' \in Nat
  BY EmptySeq DEF Gone
<1> QED BY <1>1, <1>2 DEF NothingUnaccounted
---------------------------------------------------------------------------
(* The invariant and what follows from it *)

\* The invariant is kept by every step.
LEMMA LearningInvariantStep == LearningInv /\ [LearningNext]_learningVars => LearningInv'
<1> SUFFICES ASSUME LearningInv, [LearningNext]_learningVars PROVE LearningInv'
  OBVIOUS
<1> USE LearningConstants
<1>0. LearningTypeOK /\ NothingUnaccounted /\ LastWritten
  BY DEF LearningInv
<1>1. /\ counts \in Seq(Texts) /\ unflushed \in Nat /\ faults \in Nat
      /\ learned \in Seq(Texts) \cup {Damaged, Absent} /\ learnedBak \in Seq(Texts) \cup {Damaged, Absent}
      /\ written \in Seq(Seq(Texts)) /\ hit \subseteq {"file", "backup"}
  BY <1>0 DEF LearningTypeOK
<1>2. up => Accounts(counts, unflushed)
  BY <1>0, ReadableIsInFile DEF NothingUnaccounted, Accounts
<1>3. LearningTypeOK' /\ (up' /\ learned' # Damaged =>
                            Len(counts') = Len(InFile') + unflushed' /\ InFile' = SubSeq(counts', 1, Len(InFile')))
      => NothingUnaccounted'
  <2>1. LearningTypeOK' /\ learned' # Damaged => Readable' = InFile'
    BY DEF LearningTypeOK, Readable, InFile
  <2> QED BY <2>1 DEF NothingUnaccounted
<1>4. ASSUME NEW text \in Texts, Learn(text) PROVE LearningInv'
  <2>1. up /\ up' \in BOOLEAN /\ counts' = Append(counts, text) /\ FlushWhenDue(counts', unflushed + 1) /\ hit' = hit
    BY <1>0, <1>4, Zenon DEF Learn, LearningTypeOK
  <2>2. counts' \in Seq(Texts) /\ Len(counts') = Len(counts) + 1 /\ unflushed + 1 \in Nat
    BY <1>1, <2>1, AppendProperties
  <2>3. Accounts(counts', unflushed + 1)
    <3>1. CASE learned # Damaged
      <4>1. Len(InFile) \in Nat /\ Len(counts) \in Nat
        BY <1>0, <1>1, <3>1, ReadableIsInFile, LenProperties
      <4>2. Len(counts) = Len(InFile) + unflushed /\ InFile = SubSeq(counts, 1, Len(InFile))
        BY <1>2, <2>1, <3>1 DEF Accounts
      <4>3. Len(InFile) \in 0..Len(counts)
        BY <1>1, <4>1, <4>2
      <4>4. SubSeq(counts', 1, Len(InFile)) = SubSeq(counts, 1, Len(InFile))
        BY <1>1, <2>1, <4>3, PrefixKept
      <4>5. Len(counts') = Len(InFile) + (unflushed + 1)
        BY <1>1, <2>2, <4>1, <4>2
      <4> QED BY <4>2, <4>4, <4>5 DEF Accounts
    <3> QED BY <3>1 DEF Accounts
  <2> QED BY <1>0, <1>1, <1>3, <2>1, <2>2, <2>3, WhenDueKeeps DEF LearningInv, LearningTypeOK
<1>5. CASE LearnNothing
  <2>1. up /\ up' \in BOOLEAN /\ counts' = counts /\ FlushWhenDue(counts, unflushed) /\ hit' = hit
    BY <1>0, <1>5, Zenon DEF LearnNothing, LearningTypeOK
  <2> QED BY <1>0, <1>1, <1>2, <1>3, <2>1, WhenDueKeeps DEF LearningInv, LearningTypeOK
<1>6. CASE LoadCounts
  <2>1. up' \in BOOLEAN /\ counts' = Readable /\ Readable # Damaged /\ unflushed' = 0
        /\ UNCHANGED <<learned, learnedBak, written, faults, hit>>
    BY <1>6, Zenon DEF LoadCounts
  <2>2. Readable \in Seq(Texts)
    BY <1>1, <2>1, EmptySeq DEF Readable
  <2>3. LearningTypeOK'
    BY <1>1, <2>1, <2>2 DEF LearningTypeOK
  <2>4. LastWritten' /\ InFile' = InFile
    BY <1>0, <2>1 DEF LastWritten, Recent, InFile, FileHad
  <2>5. learned # Damaged => InFile = Readable /\ Len(InFile) \in Nat /\ SubSeq(InFile, 1, Len(InFile)) = InFile
    BY <1>0, ReadableIsInFile, LenProperties, SubSeqFull
  <2>6. up' /\ learned' # Damaged =>
          Len(counts') = Len(InFile') + unflushed' /\ InFile' = SubSeq(counts', 1, Len(InFile'))
    BY <2>1, <2>4, <2>5
  <2> QED BY <1>3, <2>3, <2>4, <2>6 DEF LearningInv
<1>7. CASE Shutdown
  <2>1. Gone /\ hit' = hit
    BY <1>7 DEF Shutdown
  <2>2. CASE unflushed = 0
    <3>1. UNCHANGED <<learned, learnedBak, written, faults>>
      BY <1>7, <2>2 DEF Shutdown
    <3> QED BY <1>0, <1>1, <2>1, <3>1, GoneKeeps DEF LearningInv, LearningTypeOK, LastWritten, Recent, InFile, FileHad
  <2>3. CASE unflushed # 0
    <3>1. PICK stage \in Failing \cup {"moved"} :
            FlushedTo(stage, counts) /\ faults' = IF stage = "moved" THEN faults ELSE faults + 1
      BY <1>7, <2>3 DEF Shutdown
    <3>2. stage \in Stages /\ faults' \in Nat /\ faults' \in {faults, faults + 1} /\ (stage # "moved" => faults' = faults + 1)
      BY <1>1, <3>1 DEF Stages, Failing
    <3>3. LastWritten'
      BY <1>0, <1>1, <2>1, <3>1, <3>2, FlushKeepsLast
    <3>4. /\ learned' \in Seq(Texts) \cup {Damaged, Absent}
          /\ learnedBak' \in Seq(Texts) \cup {Damaged, Absent}
          /\ written' \in Seq(Seq(Texts))
      BY <1>0, <1>1, <3>1, FlushTyped
    <3> QED BY <1>1, <2>1, <3>2, <3>3, <3>4, GoneKeeps DEF LearningInv, LearningTypeOK
  <2> QED BY <2>2, <2>3
<1>8. CASE Crash
  <2>1. Gone /\ faults' = faults + 1 /\ UNCHANGED <<learned, learnedBak, written, hit>>
    BY <1>8 DEF Crash
  <2>2. InFile' = InFile /\ Recent' = Recent /\ FileHad' = FileHad
    BY <2>1 DEF InFile, Recent, FileHad
  <2>3. (faults' <= 1 => faults = 0) /\ faults' # 0 /\ faults' \in Nat
    BY <1>1, <2>1
  <2>4. LastWritten'
    BY <1>0, <2>1, <2>2, <2>3 DEF LastWritten
  <2> QED BY <1>1, <2>1, <2>3, <2>4, GoneKeeps DEF LearningInv, LearningTypeOK
<1>9. ASSUME NEW text \in Texts, CrashFlushing(text) PROVE LearningInv'
  <2>1. Gone /\ faults' = faults + 1 /\ hit' = hit /\ \E stage \in Stages : FlushedTo(stage, Append(counts, text))
    BY <1>9 DEF CrashFlushing
  <2>2. PICK stage \in Stages : FlushedTo(stage, Append(counts, text))
    BY <2>1
  <2>3. Append(counts, text) \in Seq(Texts)
    BY <1>1, AppendProperties
  <2>4. faults' \in Nat /\ faults' \in {faults, faults + 1}
    BY <1>1, <2>1
  <2>5. LastWritten'
    BY <1>0, <2>1, <2>2, <2>3, <2>4, FlushKeepsLast
  <2>6. /\ learned' \in Seq(Texts) \cup {Damaged, Absent}
        /\ learnedBak' \in Seq(Texts) \cup {Damaged, Absent}
        /\ written' \in Seq(Seq(Texts))
    BY <1>0, <2>2, <2>3, FlushTyped
  <2> QED BY <1>1, <2>1, <2>4, <2>5, <2>6, GoneKeeps DEF LearningInv, LearningTypeOK
<1>10. CASE PowerLoss
  <2>1. /\ Gone /\ faults' = faults + 1 /\ written' = written
        /\ learned' = learned \/ (learned # Absent /\ learned' = Damaged)
        /\ learnedBak' = learnedBak \/ (learnedBak # Absent /\ learnedBak' \in {Damaged, Absent} \cup FileHad)
        /\ hit' = hit \cup {file \in {"file", "backup"} :
                              IF file = "file" THEN learned' # learned ELSE learnedBak' # learnedBak}
    BY <1>10 DEF PowerLoss
  <2>2. (faults' <= 1 => faults = 0) /\ faults' # 0 /\ faults' \in Nat
    BY <1>1, <2>1
  <2>3. /\ hit' \subseteq {"file", "backup"} /\ hit \subseteq hit'
        /\ "file" \notin hit' => learned' = learned
        /\ "backup" \notin hit' => learnedBak' = learnedBak
    BY <1>1, <2>1
  <2>4. Recent' = Recent /\ FileHad' = FileHad /\ FileHad \subseteq Seq(Texts)
    BY <1>0, <2>1, HadCounts DEF Recent, FileHad
  <2>5. learned' # Damaged => learned' = learned /\ InFile' = InFile
    BY <2>1 DEF InFile
  <2>6. LastWritten'
    BY <1>0, <2>1, <2>2, <2>3, <2>4, <2>5 DEF LastWritten
  <2>7. learned' \in Seq(Texts) \cup {Damaged, Absent} /\ learnedBak' \in Seq(Texts) \cup {Damaged, Absent}
    BY <1>1, <2>1, <2>4
  <2> QED BY <1>1, <2>1, <2>2, <2>3, <2>6, <2>7, GoneKeeps DEF LearningInv, LearningTypeOK
<1>11. CASE UNCHANGED learningVars
  <2>1. UNCHANGED <<counts, unflushed, learned, learnedBak, written, faults, hit>>
    BY <1>11 DEF learningVars
  <2>2. up' \in BOOLEAN /\ (up' => up)
    BY <1>0, <1>11, Zenon DEF learningVars, LearningTypeOK
  <2> QED BY <1>0, <1>1, <2>1, <2>2 DEF LearningInv, LearningTypeOK, NothingUnaccounted, LastWritten, Recent, InFile,
       FileHad, Readable
<1> QED BY <1>4, <1>5, <1>6, <1>7, <1>8, <1>9, <1>10, <1>11 DEF LearningNext

\* It holds at the start, with a file or without.
LEMMA LearningInvariantInit == InitLearning => LearningInv
<1> SUFFICES ASSUME InitLearning PROVE LearningInv
  OBVIOUS
<1> USE LearningConstants
<1>1. counts = InFile /\ counts \in Seq(Texts)
  BY EmptySeq DEF InitLearning, InFile
<1>2. unflushed = 0 /\ faults = 0 /\ hit = {} /\ learnedBak = Absent /\ learned \in Seq(Texts) \cup {Damaged, Absent} /\ learned # Damaged
  BY DEF InitLearning
<1>3. up \in BOOLEAN
  BY Zenon DEF InitLearning
<1>4. written \in Seq(Seq(Texts)) /\ written # <<>> /\ Len(written) = 1 /\ written[1] = counts
  <2>1. written = <<counts>>
    BY DEF InitLearning
  <2> QED BY <1>1, <2>1
<1>5. LearningTypeOK
  BY <1>1, <1>2, <1>3, <1>4 DEF LearningTypeOK
<1>6. Len(InFile) \in Nat /\ SubSeq(InFile, 1, Len(InFile)) = InFile
  BY <1>1, LenProperties, SubSeqFull
<1>7. Readable = InFile
  BY <1>2, <1>5, ReadableIsInFile
<1>8. NothingUnaccounted
  BY <1>1, <1>2, <1>6, <1>7 DEF NothingUnaccounted
<1>9. LastWritten
  <2>1. learned = FirstLearned
    BY DEF InitLearning
  <2>2. learned # Absent => learned \in FileHad
    <3>1. 1 \in DOMAIN written
      BY <1>4, LenProperties
    <3> QED BY <1>1, <1>4, <2>1, <3>1 DEF FileHad, InFile
  <2> QED BY <1>1, <1>2, <1>4, <2>1, <2>2 DEF LastWritten
<1> QED BY <1>5, <1>8, <1>9 DEF LearningInv

\* The inductive invariant.
THEOREM LearningInvariant == LearningSpec => []LearningInv
<1> QED BY LearningInvariantInit, LearningInvariantStep, PTL DEF LearningSpec

\* Until a power loss damages the file, what can be read is what the last flush
\* wrote; after one that damages only the file it is recent; and it is what some
\* flush wrote, or nothing: what follows from the invariant.
LEMMA InvariantSurvives == LearningInv => LearningSurvives
<1> SUFFICES ASSUME LearningInv PROVE LearningSurvives
  OBVIOUS
<1>1. LearningTypeOK /\ LastWritten
  BY DEF LearningInv
<1>2. learned # Damaged => Readable = InFile
  BY <1>1, ReadableIsInFile
<1>3. learned = Damaged => Readable = (IF learnedBak # Absent THEN learnedBak ELSE Damaged)
  BY LearningConstants DEF Readable
<1>4. "file" \notin hit => Readable = written[Len(written)]
  BY <1>1, <1>2 DEF LastWritten
<1>5. ASSUME faults <= 1, "backup" \notin hit, learned # Damaged \/ learnedBak # Absent
      PROVE  \E i \in {Len(written) - 1, Len(written)} \cap DOMAIN written : Readable = written[i]
  <2>1. CASE learned # Damaged
    <3>1. Readable \in Recent
      BY <1>1, <1>2, <2>1, LastIsRecent DEF LastWritten
    <3> QED BY <3>1 DEF Recent
  <2>2. CASE learned = Damaged
    <3>1. Readable \in Recent
      BY <1>1, <1>3, <1>5, <2>2 DEF LastWritten
    <3> QED BY <3>1 DEF Recent
  <2> QED BY <2>1, <2>2
<1>6. Readable # Damaged /\ learned # Absent => Readable \in FileHad
  BY <1>1, <1>2, <1>3 DEF LastWritten, InFile
<1> QED BY <1>4, <1>5, <1>6 DEF LearningSurvives
\* Before anything fails, a crash loses fewer selections than are flushed
\* together, however requests and restarts go (named_pipe.cpp's candidate_committed
\* flushes when unflushed_selections reaches 32).
THEOREM FewAreLost == LearningSpec => []FewUnflushed
<1> USE LearningConstants
<1>1. InitLearning => FewUnflushed
  BY DEF InitLearning, FewUnflushed
<1>2. LearningInv /\ FewUnflushed /\ [LearningNext]_learningVars => FewUnflushed'
  <2> SUFFICES ASSUME LearningInv, FewUnflushed, [LearningNext]_learningVars PROVE FewUnflushed'
    OBVIOUS
  <2>1. faults \in Nat /\ unflushed \in Nat
    BY DEF LearningInv, LearningTypeOK
  <2>2. ASSUME NEW now, NEW n \in Nat, FlushWhenDue(now, n) PROVE FewUnflushed'
    <3>1. CASE n < FlushEvery
      BY <2>2, <3>1 DEF FlushWhenDue, FewUnflushed
    <3>2. CASE ~(n < FlushEvery)
      <4>1. unflushed' = 0 \/ faults' = faults + 1
        BY <2>2, <3>2 DEF FlushWhenDue
      <4> QED BY <2>1, <4>1 DEF FewUnflushed
    <3> QED BY <3>1, <3>2
  <2>3. ASSUME unflushed' = 0 PROVE FewUnflushed'
    BY <2>3 DEF FewUnflushed
  <2>4. ASSUME NEW text \in Texts, Learn(text) PROVE FewUnflushed'
    BY <2>1, <2>2, <2>4 DEF Learn
  <2>5. CASE LearnNothing
    BY <2>1, <2>2, <2>5 DEF LearnNothing
  <2>6. CASE LoadCounts
    BY <2>3, <2>6 DEF LoadCounts
  <2>7. CASE Shutdown \/ Crash \/ PowerLoss \/ \E text \in Texts : CrashFlushing(text)
    <3>1. Gone
      BY <2>7 DEF Shutdown, Crash, PowerLoss, CrashFlushing
    <3> QED BY <2>3, <3>1 DEF Gone
  <2>8. CASE UNCHANGED learningVars
    BY <2>8 DEF learningVars, FewUnflushed
  <2> QED BY <2>4, <2>5, <2>6, <2>7, <2>8 DEF LearningNext
<1> QED BY <1>1, <1>2, LearningInvariant, PTL DEF LearningSpec
=============================================================================
