------------------------------ MODULE LogFile ------------------------------
(***************************************************************************)
(* The log file of hub or runner (protocol/src/logger.ts, FileSink): lines *)
(* are appended to a file, that is renamed to .1, .1 to .2 and so on, once *)
(* it is large.  A line is its number, all lines have one length, and a    *)
(* write writes the line or fails.  File 0 is the one that is written; an  *)
(* empty file stands for one that is not there, too.                       *)
(***************************************************************************)
EXTENDS Integers, Sequences, SequencesExt

CONSTANTS MaxLines,     \* LOG_MAX_BYTES, in lines
          MaxFiles,     \* LOG_MAX_FILES: how many renamed files are kept
          MaxLogged,    \* bound on the lines
          MaxMishaps    \* bound on failing system calls and killed processes

ASSUME LogNumbers == {MaxLines, MaxFiles} \subseteq Nat \ {0}
ASSUME LogBounds == {MaxLogged, MaxMishaps} \subseteq Nat

VARIABLES
  files,     \* what the files hold
  fd,        \* is file 0 open
  counted,   \* bytesWritten, in lines
  logged,    \* lines logged so far
  mishaps,
  damaged,   \* a rename, a write, an open or a stat failed (properties only)
  doubled    \* an open failed within rotate (properties only)

logVars == <<files, fd, counted, logged, mishaps, damaged, doubled>>

Old == 0..(MaxFiles - 1)   \* the files that a rotation renames

LogTypeOK ==
  /\ files \in [0..MaxFiles -> Seq(1..logged)]
  /\ fd \in BOOLEAN
  /\ counted \in Nat
  /\ logged \in 0..MaxLogged
  /\ mishaps \in 0..MaxMishaps
  /\ damaged \in BOOLEAN /\ doubled \in BOOLEAN

LogInit ==
  /\ files = [i \in 0..MaxFiles |-> <<>>]
  /\ fd = TRUE
  /\ counted = 0
  /\ logged = 0
  /\ mishaps = 0
  /\ damaged = FALSE
  /\ doubled = FALSE

Mishap == mishaps < MaxMishaps /\ mishaps' = mishaps + 1

\* renameSync of file i, if it is there; the next one is replaced.
Rename(fs, i) ==
  IF fs[i] = <<>> THEN fs ELSE [fs EXCEPT ![i + 1] = fs[i], ![i] = <<>>]

\* A bug: the files are renamed from the newest on.
RenamedUpwards(fs, R) ==
  FoldLeft(Rename, fs, SelectSeq([i \in 1..MaxFiles |-> i - 1], LAMBDA i : i \in R))

\* The renames of rotate, of which those of R succeed.  They go from the oldest file
\* on, so that each takes a file to a place that was left, and none is moved twice;
\* the last place is left by nobody, and what is there is replaced.
Renamed(fs, R) ==
  [i \in 0..MaxFiles |->
     IF i - 1 \in R /\ fs[i - 1] # <<>> THEN fs[i - 1]
     ELSE IF i \in R THEN <<>> ELSE fs[i]]

\* A bug: a file that is there already counts as empty.
OpenUncounted(fs) == fd' = TRUE /\ counted' = 0

\* open: append mode, and the size of what is there.
Open(fs) == fd' = TRUE /\ counted' = Len(fs[0])

\* open, when statSync throws: what is there is not counted.
OpenUnsized == fd' = TRUE /\ counted' = 0

\* What writeSync leaves in the files.
Grown == [files EXCEPT ![0] = Append(@, logged')]

\* A line is logged, writeSync succeeds, and so does the rotation after it, if the
\* file is large, but for the renames, or the statSync, that fail.
Write ==
  /\ fd
  /\ logged < MaxLogged
  /\ logged' = logged + 1
  /\ \/ /\ counted + 1 < MaxLines
        /\ files' = Grown
        /\ counted' = counted + 1
        /\ UNCHANGED <<fd, mishaps, damaged>>
     \/ /\ counted + 1 >= MaxLines
        /\ \E R \in SUBSET Old :
             /\ files' = Renamed(Grown, R)
             /\ \/ R = Old /\ Open(files') /\ UNCHANGED <<mishaps, damaged>>
                \/ R # Old /\ Open(files') /\ Mishap /\ damaged' = TRUE
                \/ OpenUnsized /\ Mishap /\ damaged' = TRUE
  /\ UNCHANGED doubled

\* The openSync of a rotation throws: the fallback appends the line again, or
\* fails as well, and no file is open any more.
WriteReopenFails ==
  /\ fd
  /\ logged < MaxLogged
  /\ logged' = logged + 1
  /\ counted + 1 >= MaxLines
  /\ \E R \in SUBSET Old :
       LET rotated == Renamed(Grown, R) IN
       files' \in {rotated, [rotated EXCEPT ![0] = Append(@, logged')]}
  /\ fd' = FALSE
  /\ counted' = counted + 1
  /\ Mishap
  /\ damaged' = TRUE
  /\ doubled' = TRUE

\* writeSync throws: the fallback writes the line, uncounted, or fails too.
WriteFails ==
  /\ fd
  /\ logged < MaxLogged
  /\ logged' = logged + 1
  /\ files' \in {Grown, files}
  /\ Mishap
  /\ damaged' = TRUE
  /\ UNCHANGED <<fd, counted, doubled>>

\* Without an open file the line is dropped.
WriteNowhere ==
  /\ ~fd
  /\ logged < MaxLogged
  /\ logged' = logged + 1
  /\ UNCHANGED <<files, fd, counted, mishaps, damaged, doubled>>

\* The process is killed, between two lines or while it rotates, when the renames
\* down to one of them are done; the next one opens the file, or logs to the
\* console only.
Restart ==
  /\ \/ UNCHANGED <<files, logged>>
     \/ /\ fd
        /\ logged < MaxLogged
        /\ counted + 1 >= MaxLines
        /\ logged' = logged + 1
        /\ \E i \in 0..MaxFiles : files' = Renamed(Grown, {j \in Old : j >= i})
  /\ \/ Open(files') /\ UNCHANGED damaged
     \/ OpenUnsized /\ damaged' = TRUE
     \/ fd' = FALSE /\ damaged' = TRUE /\ UNCHANGED counted
  /\ Mishap
  /\ UNCHANGED doubled

LogNext == Write \/ WriteReopenFails \/ WriteFails \/ WriteNowhere \/ Restart

LogSpec == LogInit /\ [][LogNext]_logVars

-----------------------------------------------------------------------------
(* Properties.                                                             *)

\* The lines of which some file has a copy.
Held == UNION {ToSet(files[i]) : i \in 0..MaxFiles}

\* Line k of file i comes before line l of file j.
Before(i, k, j, l) == i > j \/ (i = j /\ k < l)

\* Read from the oldest file to the newest, the lines are in the order in which they
\* were logged, and none is there twice, whatever renames fail and wherever a process
\* was killed, unless an open failed in the middle of a rotation.  If no call failed
\* there is no hole either: the lines are the last ones, and they are MaxFiles full
\* files, but for one file for every process that was killed (rotate, write).
LogReadsBack ==
  /\ ~doubled =>
       \A i, j \in 0..MaxFiles : \A k \in 1..Len(files[i]), l \in 1..Len(files[j]) :
         Before(i, k, j, l) => files[i][k] < files[j][l]
  /\ ~damaged =>
       \E first \in 1..(logged + 1) :
         /\ Held = first..logged
         /\ first = 1 \/ (logged + 1) - first >= (MaxFiles - mishaps) * MaxLines

\* If no call failed, a file outgrows its limit by no more than a line for every
\* process that was killed, whatever it held when the next one opened it (open,
\* rotate).
LogBounded ==
  ~damaged => \A i \in 0..MaxFiles : Len(files[i]) <= MaxLines + mishaps
=============================================================================
