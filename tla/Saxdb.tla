--------------------------------- MODULE Saxdb --------------------------------
(***************************************************************************)
(* The databases.  Each is written whole to a temporary file, buffer by    *)
(* buffer, which then replaces the old file; some are sections of one      *)
(* "mondo" file.  Nothing else runs during a write, but write() may fail   *)
(* or take a part of what it is given, the writer and rename() may fail,   *)
(* and the process may die, at any point.  Source: src/saxdb.c.            *)
(***************************************************************************)
EXTENDS Integers

CONSTANTS
  Dbs,        \* databases with a file of their own
  Sections,   \* databases that are sections of the mondo file
  Buffers,    \* how often a writer fills the output buffer
  MaxVersion, \* bound on the changes of a database
  NULL

VARIABLES
  mem,    \* what each database holds, as a version number
  disk,   \* file -> [data, written, garbled]: versions, how much of them is
          \* there, and whether something else is among it
  ctx,    \* the write under way, or NULL; short: a buffer is written in part
  acked,  \* the version of each database that was last reported written
  kept,   \* old files that rename() did not replace when it was last called
  full,   \* the disk is full
  up

vars == <<mem, disk, ctx, acked, kept, full, up>>

Data == Dbs \cup Sections
Mondo == "mondo"
Files == Dbs \cup {Mondo}
FileOf(d) == IF d \in Sections THEN Mondo ELSE d
Holds(f) == {d \in Data : FileOf(d) = f}

Init ==
  /\ mem = [d \in Data |-> 0] /\ acked = mem /\ kept = {}
  /\ disk = [f \in Files |-> [data |-> [d \in Holds(f) |-> 0], written |-> Buffers, garbled |-> FALSE]]
  /\ ctx = NULL /\ full = FALSE /\ up = TRUE

-----------------------------------------------------------------------------
\* Anything the services do.
Change(d) ==
  /\ up /\ ctx = NULL /\ mem[d] < MaxVersion
  /\ mem' = [mem EXCEPT ![d] = @ + 1] /\ UNCHANGED <<disk, ctx, acked, kept, full, up>>

\* saxdb_write_db begins, from a timer, WRITE, WRITEALL or at exit; mondo
\* sections are written only with their file.
Open(f) ==
  /\ up /\ ctx = NULL
  /\ ctx' = [file |-> f, written |-> 0, failed |-> FALSE, short |-> FALSE, garbled |-> FALSE]
  /\ UNCHANGED <<mem, disk, acked, kept, full, up>>

\* The writer has come to its end, all buffers are flushed.
Finished(c) == ~c.failed /\ c.written = Buffers

\* The loop of saxdb_flush has come to its end, with g having written more
\* than the buffer held.  After an error that was the flush of
\* saxdb_close_context, and the temporary file is removed.
Flushed(c, g) ==
  IF c.failed THEN NULL
  ELSE [c EXCEPT !.written = @ + 1, !.short = FALSE, !.garbled = @ \/ g]

\* saxdb_flush: write() takes all it is given.  That is obuf.used bytes each
\* time: after a short write these go past the end of the buffer.
Flush ==
  /\ ctx # NULL /\ ~full /\ ~Finished(ctx)
  /\ ctx' = Flushed(ctx, ctx.short)
  /\ UNCHANGED <<mem, disk, acked, kept, full, up>>

\* write() takes what there is room for.  The loop goes on, unless that makes
\* the buffer's length together with what an earlier one took, or more.
FlushShort ==
  /\ ctx # NULL /\ ~full /\ ~Finished(ctx)
  /\ full' = TRUE
  /\ \/ ctx' = [ctx EXCEPT !.short = TRUE]
     \/ ctx.short /\ \E g \in BOOLEAN : ctx' = Flushed(ctx, g)
  /\ UNCHANGED <<mem, disk, acked, kept, up>>

\* write() fails: longjmp to the error path of saxdb_write_db, whose own
\* flush, of the same buffer, comes back here.
FlushFails ==
  /\ ctx # NULL /\ full /\ ~Finished(ctx)
  /\ ctx' = [ctx EXCEPT !.failed = TRUE, !.short = FALSE]
  /\ UNCHANGED <<mem, disk, acked, kept, full, up>>

\* db->writer reports an error of its own.
WriterFails ==
  /\ ctx # NULL /\ ~ctx.failed /\ ~ctx.short /\ ~Finished(ctx)
  /\ ctx' = [ctx EXCEPT !.failed = TRUE]
  /\ UNCHANGED <<mem, disk, acked, kept, full, up>>

\* The end of saxdb_write_db, whatever rename() returned: last_write is set
\* and the log says that the database was written.
Report ==
  /\ ctx # NULL /\ Finished(ctx)
  /\ acked' = [d \in Data |-> IF FileOf(d) = ctx.file THEN mem[d] ELSE acked[d]]
  /\ ctx' = NULL /\ UNCHANGED <<mem, full, up>>

\* rename() replaces the old file as a whole.
Rename ==
  /\ Report
  /\ disk' = [disk EXCEPT ![ctx.file] =
                [data |-> [d \in Holds(ctx.file) |-> mem[d]], written |-> ctx.written, garbled |-> ctx.garbled]]
  /\ kept' = kept \ {ctx.file}

\* rename() fails, which is logged; the old file stays.
RenameFails == Report /\ kept' = kept \cup {ctx.file} /\ UNCHANGED disk

Crash == up /\ up' = FALSE /\ ctx' = NULL /\ UNCHANGED <<mem, disk, acked, kept, full>>

\* Mutant: sections of the shared file are looked for in files of their own.
Read_ByName(d) == {IF d \in Dbs THEN disk[d].data[d] ELSE 0}

\* saxdb_register: a database reads its file or its section.  Where the file
\* has more than was written, older records among it, anything may be read.
Read(d) ==
  LET file == disk[FileOf(d)] IN IF file.garbled THEN 0..file.data[d] ELSE {file.data[d]}

\* A file that cannot be parsed ends services at once (parse_database): they
\* do not start.
Start ==
  /\ ~up /\ up' = TRUE
  /\ mem' \in [Data -> 0..MaxVersion] /\ \A d \in Data : mem'[d] \in Read(d)
  /\ UNCHANGED <<disk, ctx, acked, kept, full>>

\* Others fill the disk and make room on it.
Disk == full' = ~full /\ UNCHANGED <<mem, disk, ctx, acked, kept, up>>

Next ==
  \/ \E d \in Data : Change(d)
  \/ \E f \in Files : Open(f)
  \/ Flush \/ FlushShort \/ FlushFails \/ WriterFails \/ Rename \/ RenameFails \/ Crash \/ Start \/ Disk

\* The process takes its next step, and a buffer that finds room again and
\* again is written; the disk need not get room again.
Spec == Init /\ [][Next]_vars /\ SF_vars(Flush)
        /\ WF_vars(FlushFails) /\ WF_vars(Rename \/ RenameFails)

-----------------------------------------------------------------------------
(* Properties.                                                             *)

\* Whatever fails and whenever the process dies, a file holds all of some
\* write, and nothing older than what was last reported as written, unless
\* rename() failed in that very report (saxdb.c:162): then "Wrote" is not
\* true, until another write of the file gets through.
SavedWhole ==
  \A d \in Data : LET file == disk[FileOf(d)] IN
    file.written = Buffers /\ (FileOf(d) \notin kept => acked[d] <= file.data[d])

\* What was reported as written is there after a restart, with all that was
\* written with it, but for such a file, and for one of which a short write
\* (saxdb.c:206) was taken up again.
NothingAckedLost ==
  [][Start => \A d \in Data : \/ FileOf(d) \in kept \/ disk[FileOf(d)].garbled
                              \/ mem'[d] >= acked[d]]_vars
=============================================================================
