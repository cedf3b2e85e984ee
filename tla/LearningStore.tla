---------------------------- MODULE LearningStore ----------------------------
(***************************************************************************)
(* What Core has learned, in memory and on disk:                           *)
(* src/engine/user_frequency.cpp, and what apps/core_service and           *)
(* run_core_server in src/ipc/named_pipe.cpp do with it.                   *)
(*                                                                         *)
(* The counts are a sequence of what was recorded: the count of a text is  *)
(* how often it occurs.  A selection adds to three tables at once, which   *)
(* are written and read together.  Counts that reach 2^32 - 1 are left     *)
(* out.                                                                    *)
(***************************************************************************)
EXTENDS Integers, Sequences

CONSTANTS
  Texts,        \* what can be learned
  FlushEvery,   \* unflushed selections that are written to disk: 32 in the code
  FirstLearned, \* the file at the start
  Damaged,      \* a file that cannot be decoded
  Absent        \* no file

ASSUME LearningConstants ==
  /\ FlushEvery \in Nat \ {0}
  /\ FirstLearned \in Seq(Texts) \cup {Absent}
  /\ Damaged \notin Seq(Texts) /\ Absent \notin Seq(Texts) /\ Absent # Damaged

VARIABLES
  up,           \* Core serves
  counts,       \* counts_
  unflushed,    \* unflushed_selections
  learned, learnedBak,   \* the file and its backup
  written,      \* history: the counts the file has had
  faults,       \* history: crashes, power losses and flushes that failed halfway
  hit           \* history: what power losses damaged, of "file" and "backup"

learningVars == <<up, counts, unflushed, learned, learnedBak, written, faults, hit>>

LearningTypeOK ==
  /\ up \in BOOLEAN /\ counts \in Seq(Texts) /\ unflushed \in Nat
  /\ learned \in Seq(Texts) \cup {Damaged, Absent}
  /\ learnedBak \in Seq(Texts) \cup {Damaged, Absent}
  /\ written \in Seq(Seq(Texts)) /\ faults \in Nat /\ hit \subseteq {"file", "backup"}

InitLearning ==
  /\ up = TRUE
  /\ learned = FirstLearned /\ learnedBak = Absent
  /\ counts = (IF learned = Absent THEN <<>> ELSE learned) /\ unflushed = 0
  /\ written = <<counts>> /\ faults = 0 /\ hit = {}

\* load: no file is no counts, whatever the backup has
Readable ==
  IF learned = Absent THEN <<>>
  ELSE IF learned # Damaged THEN learned
  ELSE IF learnedBak # Absent THEN learnedBak ELSE Damaged

\* Core starts; it does not when file and backup are damaged
LoadCounts ==
  /\ ~up /\ Readable # Damaged
  /\ up' = TRUE /\ counts' = Readable /\ unflushed' = 0
  /\ UNCHANGED <<learned, learnedBak, written, faults, hit>>

Stages == {"temporary", "copying", "copied", "moved"}
\* Sensitivity variant: the file is moved to the backup.
FlushedToMoving(stage, now) ==
  /\ learnedBak' = IF stage = "temporary" THEN learnedBak ELSE learned
  /\ learned' = CASE stage = "temporary" -> learned
                  [] stage \in {"copying", "copied"} -> Absent
                  [] OTHER -> now
  /\ written' = IF stage = "moved" THEN Append(written, now) ELSE written
\* flush writes a temporary file, copies the file over the backup, damaged or
\* not, and moves the temporary file over the file: what it leaves when it gets
\* so far with now
FlushedTo(stage, now) ==
  /\ learnedBak' = IF stage = "temporary" \/ learned = Absent THEN learnedBak
                   ELSE IF stage = "copying" THEN Damaged ELSE learned
  /\ IF stage = "moved" THEN learned' = now /\ written' = Append(written, now)
     ELSE UNCHANGED <<learned, written>>
\* how a flush ends that fails: CopyFile or MoveFileEx answers an error
Failing == {"temporary", "copied"}

\* Sensitivity variant: the count of selections starts again with every flush.
FlushWhenDueForgetting(now, n) ==
  IF n < FlushEvery
  THEN unflushed' = n /\ UNCHANGED <<learned, learnedBak, written, faults>>
  ELSE \E stage \in Failing \cup {"moved"} :
         /\ FlushedTo(stage, now)
         /\ unflushed' = 0
         /\ faults' = IF stage = "moved" THEN faults ELSE faults + 1

\* so many selections are not written: every so often they are.  After a
\* failure the next selection tries again
FlushWhenDue(now, n) ==
  IF n < FlushEvery
  THEN unflushed' = n /\ UNCHANGED <<learned, learnedBak, written, faults>>
  ELSE \E stage \in Failing \cup {"moved"} :
         /\ FlushedTo(stage, now)
         /\ unflushed' = IF stage = "moved" THEN 0 ELSE n
         /\ faults' = IF stage = "moved" THEN faults ELSE faults + 1

\* candidate_committed
Learn(text) ==
  /\ up /\ counts' = Append(counts, text)
  /\ FlushWhenDue(counts', unflushed + 1)
  /\ UNCHANGED <<up, hit>>
\* candidate_committed while nothing is learned
LearnNothing ==
  /\ up /\ FlushWhenDue(counts, unflushed)
  /\ UNCHANGED <<up, counts, hit>>

Gone == up' = FALSE /\ counts' = <<>> /\ unflushed' = 0

\* shutdown_request: Core ends even when it cannot write
Shutdown ==
  /\ up /\ Gone /\ UNCHANGED hit
  /\ IF unflushed = 0 THEN UNCHANGED <<learned, learnedBak, written, faults>>
     ELSE \E stage \in Failing \cup {"moved"} :
            /\ FlushedTo(stage, counts)
            /\ faults' = IF stage = "moved" THEN faults ELSE faults + 1

\* Core dies, or its pipe cannot be created again
Crash ==
  /\ up /\ Gone
  /\ faults' = faults + 1
  /\ UNCHANGED <<learned, learnedBak, written, hit>>
\* Core dies while it writes
CrashFlushing(text) ==
  LET now == Append(counts, text) IN
  /\ up /\ Gone /\ unflushed + 1 >= FlushEvery
  /\ \E stage \in Stages : FlushedTo(stage, now)
  /\ faults' = faults + 1
  /\ UNCHANGED hit

\* what the file has had
FileHad == {written[i] : i \in {n \in DOMAIN written : n > 1 \/ FirstLearned # Absent}}
\* The move is written through; the data of the temporary file that became the
\* file, and the copy that became the backup, are not.  A power loss may damage
\* the file, the backup or both, and the copy may be lost altogether or leave
\* what an earlier flush had copied.
PowerLoss ==
  /\ Gone
  /\ learned' \in {learned} \cup (IF learned = Absent THEN {} ELSE {Damaged})
  /\ learnedBak' \in {learnedBak} \cup (IF learnedBak = Absent THEN {} ELSE {Damaged, Absent} \cup FileHad)
  /\ hit' = hit \cup {file \in {"file", "backup"} :
                        IF file = "file" THEN learned' # learned ELSE learnedBak' # learnedBak}
  /\ faults' = faults + 1
  /\ UNCHANGED written

LearningNext ==
  \/ \E text \in Texts : Learn(text) \/ CrashFlushing(text)
  \/ LearnNothing \/ LoadCounts \/ Shutdown \/ Crash \/ PowerLoss

LearningSpec == InitLearning /\ [][LearningNext]_learningVars

---------------------------------------------------------------------------
\* While Core runs, what a restart would load and the selections that count as
\* unflushed make up all it has learned, after flushes that failed at any
\* stage, crashes and restarts.
NothingUnaccounted ==
  up /\ learned # Damaged =>
    /\ Len(counts) = Len(Readable) + unflushed
    /\ Readable = SubSeq(counts, 1, Len(Readable))

\* Until a power loss damages the file, what can be read is what the last flush
\* wrote that came to its end, after any crashes and failed flushes.  When a
\* power loss damages the file alone, and is the only fault so far, it is what
\* one of the last two flushes wrote, once there is a backup.  Whatever fails,
\* it is what some flush wrote or nothing.
LearningSurvives ==
  /\ "file" \notin hit => Readable = written[Len(written)]
  /\ faults <= 1 /\ "backup" \notin hit /\ (learned # Damaged \/ learnedBak # Absent) =>
       \E i \in {Len(written) - 1, Len(written)} \cap DOMAIN written : Readable = written[i]
  /\ Readable # Damaged /\ learned # Absent => Readable \in FileHad
=============================================================================
