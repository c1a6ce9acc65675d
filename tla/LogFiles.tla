------------------------------- MODULE LogFiles -------------------------------
(***************************************************************************)
(* internal/log/jsonfile: the log file of a container, its rotation, and   *)
(* the readers that serve "logs".  Driver.mu makes Log one step; a reader  *)
(* takes no lock, so between any two files it opens the driver may rotate. *)
(*                                                                         *)
(* files[0] is the log and files[i] is what is named ".i"; a name with no  *)
(* file is not in the domain.  An entry has a stream and a line, and the   *)
(* size of one, whatever its line.                                         *)
(***************************************************************************)
EXTENDS Integers, SequencesExt

CONSTANTS
  Readers,     \* requests for the logs
  MaxSize,     \* entries the log may have before it is rotated; 0 is no limit
  MaxFiles,    \* the "max-file" option
  MaxToken,    \* the longest line bufio.Scanner takes
  Tails,       \* values of the "tail" option tried; -1 is all
  MaxFailures  \* bound: entries for which a write or a rotation fails

ASSUME LogConstants ==
  /\ MaxSize \in Nat /\ MaxFiles \in Int /\ MaxToken \in Nat /\ MaxFailures \in Nat
  /\ Tails \subseteq Nat \cup {-1}

VARIABLES
  files,
  driver,      \* Driver.file: "open", "closed", or "broken" when a rotation failed
  reader,
  \* history
  logged,      \* entries written, in order
  dropped,     \* entries Log returned an error for
  rotations

driverVars == <<files, driver, logged, dropped, rotations>>
logVars == <<driverVars, reader>>

Rotated == IF MaxFiles <= 0 THEN 1 ELSE MaxFiles

LogInit ==
  /\ files = [i \in {0} |-> <<>>] /\ driver = "open"
  /\ reader = [r \in Readers |-> [step |-> "new", todo |-> {}, got |-> <<>>, had |-> {}, since |-> 0]]
  /\ logged = <<>> /\ dropped = {} /\ rotations = 0

-----------------------------------------------------------------------------
(* Log *)

Full == MaxSize > 0 /\ Len(files[0]) + 1 > MaxSize

\* Mutation: the rotated files do not move up.
ShiftNothing == [j \in DOMAIN files \ {Rotated} |-> files[j]]

\* The oldest goes, the other rotated files move up by one.
Shift ==
  [j \in (DOMAIN files \cap {0}) \cup {k \in 2..Rotated : k - 1 \in DOMAIN files} |->
     IF j = 0 THEN files[0] ELSE files[j - 1]]

Renamed == [j \in (DOMAIN Shift \ {0}) \cup {1} |-> IF j = 1 THEN files[0] ELSE Shift[j]]

\* The files as rotateIfNeeded leaves them when it returns no error
Ready ==
  IF Full THEN [j \in DOMAIN Renamed \cup {0} |-> IF j = 0 THEN <<>> ELSE Renamed[j]] ELSE files

LogWritten(e) ==
  /\ driver = "open"
  /\ files' = [Ready EXCEPT ![0] = Append(@, e)]
  /\ rotations' = IF Full THEN rotations + 1 ELSE rotations
  /\ logged' = Append(logged, e)
  /\ UNCHANGED <<driver, dropped>>

LogFails(e) ==
  /\ dropped' = dropped \cup {e}
  /\ UNCHANGED logged
  /\ \/ \* the write
        /\ driver = "open" /\ Cardinality(dropped) < MaxFailures
        /\ files' = Ready
        /\ rotations' = IF Full THEN rotations + 1 ELSE rotations
        /\ UNCHANGED driver
     \/ \* renaming the log, or opening the new one: the closed file stays for ever
        /\ driver = "open" /\ Full /\ Cardinality(dropped) < MaxFailures
        /\ files' \in {Shift, Renamed}
        /\ rotations' = rotations + 1
        /\ driver' = "broken"
     \/ \* a closed file
        /\ driver # "open"
        /\ UNCHANGED <<files, driver, rotations>>

Log(e) == (LogWritten(e) \/ LogFails(e)) /\ UNCHANGED reader

-----------------------------------------------------------------------------
(* ReadLogs *)

Retained == UNION {ToSet(files[i]) : i \in DOMAIN files}

\* rotatedFiles and the log
ReadStart(r) ==
  /\ reader[r].step = "new"
  /\ reader' = [reader EXCEPT ![r] =
       [step |-> "reading", got |-> <<>>, had |-> Retained, since |-> rotations, todo |-> DOMAIN files \cup {0}]]
  /\ UNCHANGED driverVars

\* The scanner stops for good at a line that is too long for it.
Scanned(f, n) ==
  /\ n \in 0..Len(f) /\ \A i \in 1..n : Len(f[i].line) <= MaxToken
  /\ n < Len(f) => Len(f[n + 1].line) > MaxToken

Take(r, i) == [reader[r] EXCEPT !.todo = @ \ {i}]

Oldest(r, i) == i \in reader[r].todo /\ \A j \in reader[r].todo : j <= i

\* Mutation: the files are read newest first.
ReadFileNewest(r) ==
  /\ reader[r].step = "reading"
  /\ \E i \in reader[r].todo :
       /\ \A j \in reader[r].todo : i <= j
       /\ IF i \notin DOMAIN files THEN reader' = [reader EXCEPT ![r] = Take(r, i)]
          ELSE \E n \in 0..Len(files[i]) :
                 /\ Scanned(files[i], n)
                 /\ reader' = [reader EXCEPT ![r] = [Take(r, i) EXCEPT !.got = @ \o SubSeq(files[i], 1, n)]]
  /\ UNCHANGED driverVars

\* Mutation: the log itself is left out.
ReadFileRotatedOnly(r) ==
  /\ reader[r].step = "reading"
  /\ \E i \in reader[r].todo :
       /\ Oldest(r, i)
       /\ IF i \notin DOMAIN files \ {0} THEN reader' = [reader EXCEPT ![r] = Take(r, i)]
          ELSE \E n \in 0..Len(files[i]) :
                 /\ Scanned(files[i], n)
                 /\ reader' = [reader EXCEPT ![r] = [Take(r, i) EXCEPT !.got = @ \o SubSeq(files[i], 1, n)]]
  /\ UNCHANGED driverVars

\* Oldest first, the log last.  A file that went away since is skipped.
ReadFile(r) ==
  /\ reader[r].step = "reading"
  /\ \E i \in reader[r].todo :
       /\ Oldest(r, i)
       /\ IF i \notin DOMAIN files THEN reader' = [reader EXCEPT ![r] = Take(r, i)]
          ELSE \E n \in 0..Len(files[i]) :
                 /\ Scanned(files[i], n)
                 /\ reader' = [reader EXCEPT ![r] = [Take(r, i) EXCEPT !.got = @ \o SubSeq(files[i], 1, n)]]
  /\ UNCHANGED driverVars

LastOf(s, n) == IF n >= 0 /\ Len(s) > n THEN SubSeq(s, Len(s) - n + 1, Len(s)) ELSE s

ReadEnd(r) ==
  /\ reader[r].step = "reading" /\ reader[r].todo = {}
  /\ \E tail \in Tails :
       reader' = [reader EXCEPT ![r].step = IF tail < 0 THEN "whole" ELSE "tail",
                                ![r].got = LastOf(@, tail)]
  /\ UNCHANGED driverVars

ReaderNext(r) == ReadStart(r) \/ ReadFile(r) \/ ReadEnd(r)

-----------------------------------------------------------------------------
(* Properties *)

\* What the files hold, oldest first, is the end of what was logged, at least as
\* much of it as Rotated files hold: rotation drops entries only at the old end
\* and no more than it must, even when it fails halfway.
RetainedSuffix ==
  /\ DOMAIN files \subseteq 0..Rotated
  /\ \E before \in [0..(Rotated + 1) -> 0..Len(logged)] :  \* entries older than those of the files 0 to i - 1
       /\ before[0] = Len(logged)
       /\ \A i \in 0..Rotated :
            IF i \in DOMAIN files
            THEN before[i] = before[i + 1] + Len(files[i]) /\ files[i] = SubSeq(logged, before[i + 1] + 1, before[i])
            ELSE before[i] = before[i + 1]
       /\ before[Rotated + 1] = 0 \/ (MaxSize > 0 /\ Len(logged) - before[Rotated + 1] >= Rotated * MaxSize)

\* However often the log is rotated under it, a reader returns entries in the
\* order they were logged, and none twice.
ReaderInOrder ==
  \A r \in Readers : LET got == reader[r].got IN
    \E at \in [DOMAIN got -> DOMAIN logged] :
      /\ \A i \in DOMAIN got : logged[at[i]] = got[i]
      /\ \A i, j \in DOMAIN got : i < j => at[i] < at[j]

\* A reader that no rotation disturbs returns all there was when it began, if
\* no line is too long for the scanner.
ReaderWhole ==
  \A r \in Readers :
    (/\ reader[r].step = "whole" /\ reader[r].since = rotations
     /\ \A e \in reader[r].had : Len(e.line) <= MaxToken)
    => reader[r].had \subseteq ToSet(reader[r].got)

=============================================================================
