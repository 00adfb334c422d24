------------------------------ MODULE LogFiles ------------------------------
(***************************************************************************)
(* The log files a node keeps: those of the logger (FileSink of            *)
(* server/lib/logger.js), numbered from the latest on, and node.log of the *)
(* launcher (launcher.js, initLogger), with archives named by their time.  *)
(*                                                                         *)
(* A line is known by its number and counts as one unit of a file's size.  *)
(* A rotation is a number of calls to the file system, one after the       *)
(* other; any of them fails, or the process ends before it.                *)
(***************************************************************************)
EXTENDS Integers, Sequences, SequencesExt, FiniteSets, FiniteSetsExt, Functions

CONSTANTS
  MaxLines,      \* maxFileSizeBytes and maxBytes, in lines
  LogSituations  \* [sink, files, lines, faults, back]: the sink, its maxFiles
                 \* and, as bounds, the lines, the faults, the steps back of
                 \* the clock

ASSUME LogAssumption ==
  /\ MaxLines \in Nat \ {0}
  /\ \A s \in LogSituations : s.sink \in {"numbered", "stamped"} /\ s.files \in Nat \ {0}

VARIABLES
  sink,      \* the sink looked at: "numbered" or "stamped"
  maxFiles,
  files,     \* numbered: the lines of the file itself, at 0, and of its numbers
  archives,  \* stamped: per time of its name, an archive's lines and its mtime
  now,       \* the time of the last line
  written,   \* the number of the last line that was written
  cuts,      \* history: the rotations of the logger that were cut
  turned,    \* history: the clock was set back
  left       \* the bounds: lines, faults and steps back that are left

logVars == <<sink, maxFiles, files, archives, now, written, cuts,
             turned, left>>

NoLines == << >>

LogInit ==
  /\ \E s \in LogSituations :
       /\ sink = s.sink /\ maxFiles = s.files
       /\ left = [lines |-> s.lines, faults |-> s.faults, back |-> s.back]
       /\ files = [i \in 0 .. s.files + 1 |-> NoLines]
  /\ archives = << >>
  /\ now = 0 /\ written = 0 /\ cuts = 0 /\ turned = FALSE

Full == Len(files[0]) >= MaxLines

\* The time of the next line: the clock may have been set back.
Times == {now + 1} \union {t \in 1 .. now : left.back > 0}

Faults == {f \in BOOLEAN : f => left.faults > 0}

Used(lines, fault, back) ==
  /\ turned' = (turned \/ back)
  /\ left' = [lines  |-> left.lines - lines,
              faults |-> IF fault THEN left.faults - 1 ELSE left.faults,
              back   |-> IF back THEN left.back - 1 ELSE left.back]

(***************************************************************************)
(* FileSink.                                                               *)
(***************************************************************************)
Removal(i) == [file |-> i, to |-> -1]
Move(i, j) == [file |-> i, to |-> j]

\* Mutant of Calls: the archives are moved from the latest to the oldest.
CallsUpwards(m) ==
  [j \in 1 .. 2 * (m - 1) |->
     LET i == (j + 1) \div 2
     IN  IF j % 2 = 1 THEN Removal(i + 1) ELSE Move(i, i + 1)]
  \o <<Removal(1), Move(0, 1), Removal(m + 1)>>

\* The calls of rotateIfNeeded: each archive takes the next number, from the
\* oldest one on, then the file becomes the first.
Calls(m) ==
  [j \in 1 .. 2 * (m - 1) |->
     LET i == m - (j + 1) \div 2
     IN  IF j % 2 = 1 THEN Removal(i + 1) ELSE Move(i, i + 1)]
  \o <<Removal(1), Move(0, 1), Removal(m + 1)>>

\* A call finds its file or has nothing to do.
Called(f, call) ==
  IF f[call.file] = NoLines THEN f
  ELSE [i \in DOMAIN f |-> CASE i = call.to   -> f[call.file]
                             [] i = call.file -> NoLines
                             [] OTHER         -> f[i]]

Rotated(n) == FoldLeft(Called, files, SubSeq(Calls(maxFiles), 1, n))

\* write: a rotation that fails is given up, and the line is appended all the same
\* to a file that goes on growing; an append that fails loses the line.
WriteNumbered ==
  /\ sink = "numbered" /\ left.lines > 0
  /\ \E n \in IF Full THEN 0 .. Len(Calls(maxFiles)) ELSE {0}, ends \in BOOLEAN :
       LET cut == Full /\ n < Len(Calls(maxFiles))
       IN  /\ cut \/ ~ends => left.faults > 0
           /\ Used(1, cut \/ ~ends, FALSE)
           /\ cuts' = IF cut THEN cuts + 1 ELSE cuts
           /\ files' = IF ends THEN [Rotated(n) EXCEPT ![0] = Append(@, written + 1)]
                       ELSE Rotated(n)
           /\ written' = IF ends THEN written + 1 ELSE written
  /\ UNCHANGED <<sink, maxFiles, archives, now>>

(***************************************************************************)
(* initLogger.                                                             *)
(***************************************************************************)
\* pruneArchives: those that were written last are kept.  Of the others, those
\* whose removal fails stay.
Kept(all) ==
  {kept \in SUBSET DOMAIN all :
     /\ Cardinality(kept) = Min({maxFiles - 1, Cardinality(DOMAIN all)})
     /\ \A t \in kept, u \in DOMAIN all \ kept : all[t].mtime >= all[u].mtime}

Prunings(all, fault) ==
  UNION {{Restrict(all, kept \union stay) :
            stay \in IF fault THEN SUBSET (DOMAIN all \ kept) ELSE {{}}}
         : kept \in Kept(all)}

\* rotateIfNeeded at the time t: the file takes the name of the time, also that of
\* an archive there is, and then the archives are pruned.  What a rename that
\* fails leaves is not pruned.
Rotations(t, fault) ==
  LET all == [u \in DOMAIN archives \union {t} |->
                IF u = t THEN [lines |-> files[0], mtime |-> now] ELSE archives[u]]
      still == {[file |-> files[0], archives |-> archives]}
      moved == {[file |-> NoLines, archives |-> a] : a \in Prunings(all, fault)}
  IN  CASE ~Full          -> still
        [] Full /\ fault  -> still \union moved
        [] Full /\ ~fault -> moved

\* write: the rotation and the line, which an append that fails loses.
WriteStamped ==
  /\ sink = "stamped" /\ left.lines > 0
  /\ \E t \in Times, fault \in Faults, ends \in {e \in BOOLEAN : ~e => left.faults > 0} :
       \E r \in Rotations(t, fault) :
         /\ files' = [files EXCEPT ![0] = IF ends THEN Append(r.file, written + 1)
                                          ELSE r.file]
         /\ archives' = r.archives
         /\ now' = IF ends THEN t ELSE now
         /\ written' = IF ends THEN written + 1 ELSE written
         /\ Used(1, fault \/ ~ends, t <= now)
  /\ UNCHANGED <<sink, maxFiles, cuts>>

\* The start of the launcher rotates and prunes before there is a line.
OpenStamped ==
  /\ sink = "stamped"
  /\ \E t \in Times, fault \in Faults :
       \E r \in Rotations(t, fault) :
         /\ files' = [files EXCEPT ![0] = r.file]
         /\ archives' \in Prunings(r.archives, fault)
         /\ Used(0, fault, t <= now)
  /\ UNCHANGED <<sink, maxFiles, now, written, cuts>>

Write == WriteNumbered \/ WriteStamped

Open == \/ OpenStamped
        \/ sink = "numbered" /\ UNCHANGED logVars

-----------------------------------------------------------------------------
\* The last lines that have to be there whatever happened: what the files hold,
\* less one archive for every rotation of the logger that was cut.
Due == LET held == IF sink = "numbered" THEN maxFiles - cuts ELSE maxFiles - 1
       IN  Min({written, MaxLines * Max({held, 0})})

\* The lines in the order of their files.
InOrder == FlattenSeq([i \in 1 .. maxFiles + 2 |-> files[maxFiles + 2 - i]])

\* However rotations fail and wherever the process ends, the files of the logger
\* hold consecutive lines in the order of their numbers, a failure costs no more
\* than the oldest archive, and the launcher never removes an archive that is
\* among its latest, unless the clock was set back.
LatestLinesAreKept ==
  LET latest == written - Due + 1 .. written
  IN  /\ \A i \in 1 .. Len(InOrder) - 1 : InOrder[i + 1] = InOrder[i] + 1
      /\ ~turned =>
           latest \subseteq Range(InOrder)
                     \union UNION {Range(archives[t].lines) : t \in DOMAIN archives}
=============================================================================
