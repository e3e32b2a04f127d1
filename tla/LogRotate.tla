------------------------------ MODULE LogRotate ------------------------------
(***************************************************************************)
(* The log file (src/internal/adapters/logger/rotate.go).  A write that    *)
(* would pass maxSize rotates first: the file closes, the oldest backup    *)
(* goes, the others move up by one, the file becomes backup 1 and a new    *)
(* one opens.  The code ignores every error on the way, so each of these   *)
(* calls may fail, and the process may end between two of them.            *)
(*                                                                         *)
(* A line is its number, and LineSize gives its length.  A file is the     *)
(* sequence of its lines, or Absent where there is no file.                  *)
(***************************************************************************)
EXTENDS Integers, SequencesExt

CONSTANTS Absent,
          BackupCounts,        \* the values of maxBackups
          maxSize,
          LineSize(_),         \* the length of line n
          MaxLines, MaxFaults  \* bounds

ASSUME LogRotateAssumption ==
  /\ Absent \notin Seq(Nat)
  /\ BackupCounts \subseteq Nat /\ maxSize \in Nat
  /\ MaxLines \in Nat /\ MaxFaults \in Nat
  /\ \A n \in 1 .. MaxLines : LineSize(n) \in 1 .. maxSize

VARIABLES
  maxBackups,  \* rotatingWriter.maxBackups
  live,        \* the file at path
  backup,      \* path.1, path.2, ...
  open,        \* whether w.f is open
  size,        \* w.size
  step,        \* where the writer is: idle, or at a call of rotate
  from,        \* the backup that moves next, 0 for the file itself
  lines,       \* history: how many lines were handed to Write
  faults       \* the bounded counter

logVars == <<maxBackups, live, backup, open, size, step, from, lines, faults>>

FileSize(file) == FoldLeft(LAMBDA sum, n : sum + LineSize(n), 0, file)

\* A file system call works, or fails once more.
Fails == faults < MaxFaults /\ faults' = faults + 1
Works == faults' = faults

LogInit ==
  /\ maxBackups \in BackupCounts
  /\ live = <<>> /\ backup = [i \in 1 .. maxBackups |-> Absent]
  /\ open = TRUE /\ size = 0 /\ step = "idle" /\ from = 0
  /\ lines = 0 /\ faults = 0

\* The next line goes to the file and into w.size, unless the write fails: it
\* always does on a file that is closed.
AppendLine ==
  /\ lines' = lines + 1 /\ step' = "idle"
  /\ \/ /\ open /\ Works
        /\ live' = Append(live, lines + 1)
        /\ size' = size + LineSize(lines + 1)
     \/ (IF open THEN Fails ELSE Works) /\ UNCHANGED <<live, size>>
  /\ UNCHANGED <<maxBackups, backup, open, from>>

Write ==
  /\ step = "idle" /\ lines < MaxLines
  /\ size + LineSize(lines + 1) <= maxSize
  /\ AppendLine

\* Write calls rotate, which closes the file first.
StartRotate ==
  /\ step = "idle" /\ lines < MaxLines
  /\ size + LineSize(lines + 1) > maxSize
  /\ open' = FALSE /\ step' = "remove"
  /\ UNCHANGED <<maxBackups, live, backup, size, from, lines, faults>>

\* Mutant: the loop over the backups starts one too low.
AfterRemove_OneTooLow ==
  IF maxBackups = 0 THEN step' = "open" /\ UNCHANGED from
  ELSE step' = "move" /\ from' = maxBackups - 2

AfterRemove ==
  IF maxBackups = 0 THEN step' = "open" /\ UNCHANGED from
  ELSE step' = "move" /\ from' = maxBackups - 1

\* Removes the oldest backup, or the file itself where none are kept.
RemoveOldest ==
  /\ step = "remove"
  /\ IF maxBackups = 0
     THEN live' = Absent /\ UNCHANGED backup
     ELSE backup' = [backup EXCEPT ![maxBackups] = Absent] /\ UNCHANGED live
  /\ AfterRemove
  /\ Works
  /\ UNCHANGED <<maxBackups, open, size, lines>>

RemoveFails ==
  /\ step = "remove" /\ Fails
  /\ AfterRemove
  /\ UNCHANGED <<maxBackups, live, backup, open, size, lines>>

\* path.i becomes path.i+1, for i down to 1; a file that is not there stays away.
Shift ==
  /\ step = "move" /\ from >= 1
  /\ from' = from - 1
  /\ \/ /\ Works
        /\ backup' = IF backup[from] = Absent THEN backup
                     ELSE [backup EXCEPT ![from + 1] = backup[from], ![from] = Absent]
     \/ Fails /\ UNCHANGED backup
  /\ UNCHANGED <<maxBackups, live, open, size, step, lines>>

\* path becomes path.1.
RenameLive ==
  /\ step = "move" /\ from = 0
  /\ step' = "open"
  /\ \/ /\ Works
        /\ IF live = Absent THEN UNCHANGED <<live, backup>>
           ELSE backup' = [backup EXCEPT ![1] = live] /\ live' = Absent
     \/ Fails /\ UNCHANGED <<live, backup>>
  /\ UNCHANGED <<maxBackups, open, size, from, lines>>

\* open appends to what is there; a failure leaves the closed file in w.f and
\* w.size as it was.
Reopen ==
  /\ step = "open" /\ step' = "write"
  /\ \/ /\ Works
        /\ open' = TRUE
        /\ live' = IF live = Absent THEN <<>> ELSE live
        /\ size' = FileSize(live')
     \/ Fails /\ UNCHANGED <<open, live, size>>
  /\ UNCHANGED <<maxBackups, backup, from, lines>>

\* The write that rotated ends.
FinishWrite ==
  /\ step = "write"
  /\ AppendLine

\* The process ends anywhere, and the next one opens the file it finds.
Relaunch ==
  /\ Fails
  /\ open' = TRUE
  /\ live' = IF live = Absent THEN <<>> ELSE live
  /\ size' = FileSize(live')
  /\ step' = "idle" /\ from' = 0
  /\ UNCHANGED <<maxBackups, backup, lines>>

LogNext ==
  \/ Write \/ StartRotate \/ RemoveOldest \/ RemoveFails \/ Shift \/ RenameLive
  \/ Reopen \/ FinishWrite \/ Relaunch

LogSpec == LogInit /\ [][LogNext]_logVars
------------------------------------------------------------------------------
\* Every line on disk, from the oldest backup to the file.
OnDisk ==
  LET Lines(file) == IF file = Absent THEN <<>> ELSE file
  IN  FlattenSeq([i \in 1 .. maxBackups |-> Lines(backup[maxBackups + 1 - i])]) \o Lines(live)

\* What is on disk is in the order it was written, whatever call failed and
\* wherever the process ended.  While no call has failed it is also without a
\* gap up to the last line, and an old line is gone only when every backup is in
\* use: maxBackups rotations came after it (rotate, rotate.go:81-93).
LogKeepsNewest ==
  /\ \A i, j \in 1 .. Len(OnDisk) : i < j => OnDisk[i] < OnDisk[j]
  /\ faults = 0 =>
       /\ OnDisk # <<>> => Last(OnDisk) - Head(OnDisk) = Len(OnDisk) - 1
       /\ step = "idle" /\ lines > 0 =>
            /\ OnDisk # <<>> /\ Last(OnDisk) = lines
            /\ Head(OnDisk) > 1 => \A i \in 1 .. maxBackups : backup[i] \notin {Absent, <<>>}
=============================================================================
