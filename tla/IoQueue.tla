-------------------------------- MODULE IoQueue -------------------------------
(***************************************************************************)
(* A socket's buffer: a ring that grows, read from and written to in       *)
(* pieces.  On the `recv' side what arrives is handed out line by line, on *)
(* the `send' side what was written is sent as far as the socket takes it. *)
(* Source: src/ioset.c.  Bytes are numbered in the order they come.        *)
(***************************************************************************)
EXTENDS Integers, Sequences

CONSTANTS
  StartSize,  \* of a new buffer, 1024
  MaxLine,    \* the callback's buffer for a line
  MaxBytes    \* bound on the bytes that come

VARIABLES
  side,     \* "recv" or "send"
  ioq,      \* [buf, get, put, size]
  come,     \* how many bytes have come
  gone,     \* how many of them were taken
  eols,     \* the bytes that end a line
  line_len  \* fd->line_len

vars == <<side, ioq, come, gone, eols, line_len>>

Least(a, b) == IF a < b THEN a ELSE b

Init ==
  /\ side \in {"recv", "send"}
  /\ ioq = [buf |-> [i \in 0..StartSize - 1 |-> 0], get |-> 0, put |-> 0, size |-> StartSize]
  /\ come = 0 /\ gone = 0 /\ eols = {} /\ line_len = 0

\* ioq_put_avail: what can be put in one piece
PutAvail(q) ==
  IF q.put < q.get THEN q.get - q.put - 1
  ELSE IF q.get = 0 THEN q.size - q.put - 1 ELSE q.size - q.put

\* ioq_get_avail: what can be got in one piece
GetAvail(q) == (IF q.put < q.get THEN q.size ELSE q.put) - q.get

\* ioq_used
Used(q) == (IF q.put < q.get THEN q.size ELSE 0) + q.put - q.get

\* ioq_grow
Grow(q) ==
  LET get_avail == GetAvail(q) IN
  [buf |-> [i \in 0..2 * q.size - 1 |->
              IF i < get_avail THEN q.buf[q.get + i]
              ELSE IF q.put < q.get /\ i < get_avail + q.put THEN q.buf[i - get_avail] ELSE 0],
   get |-> 0, put |-> Used(q), size |-> 2 * q.size]

\* The position pos bytes further on, when that may reach the end.
Wrapped(q, pos) == IF pos = q.size THEN 0 ELSE pos

\* n bytes copied to put, from `first' on
Store(q, n, first) ==
  [q EXCEPT !.buf = [i \in DOMAIN @ |->
                       IF i \in q.put..q.put + n - 1 THEN first + i - q.put ELSE @[i]],
            !.put = Wrapped(q, q.put + n)]

\* The first position in from..to - 1 that ends a line.
Eol(q, ends, from, to) ==
  LET found == {i \in from..to - 1 : q.buf[i] \in ends} IN
  IF found = {} THEN -1 ELSE CHOOSE i \in found : \A j \in found : i <= j

\* Mutant: a line that goes on at the start of the ring is not seen.
FindLineLength_NoWrap(q) ==
  LET pos == Eol(q, eols, q.get, IF q.put < q.get THEN q.size ELSE q.put) IN
  IF pos # -1 THEN pos + 1 - q.get ELSE 0

\* ioset_find_line_length
FindLineLength(q) ==
  LET pos == Eol(q, eols, q.get, IF q.put < q.get THEN q.size ELSE q.put)
      more == Eol(q, eols, 0, q.put) IN
  IF pos # -1 THEN pos + 1 - q.get
  ELSE IF q.put < q.get /\ more # -1 THEN q.size - q.get + more + 1 ELSE 0

-----------------------------------------------------------------------------
\* ioset_buffered_read: n bytes arrive, some of which end a line; before the
\* next read the callback has taken all lines there are.
BufferedRead ==
  LET q == IF PutAvail(ioq) = 0 THEN Grow(ioq) ELSE ioq IN
  /\ side = "recv" /\ line_len = 0
  /\ \E n \in 1..PutAvail(q) : \E ends \in SUBSET (come + 1..come + n) :
       LET stored == Store(q, n, come + 1)
           pos == Eol(stored, ends, q.put, q.put + n) IN
       /\ come + n <= MaxBytes
       /\ ioq' = stored /\ come' = come + n /\ eols' = eols \cup ends
       /\ line_len' = IF pos = -1 THEN 0
                      ELSE IF q.put < q.get THEN q.size + pos + 1 - q.get ELSE pos + 1 - q.get
  /\ UNCHANGED <<side, gone>>

\* ioset_line_read, from the callback; what is longer than its buffer is
\* handed out in pieces
LineRead ==
  LET max == Least(line_len, MaxLine)
      avail == GetAvail(ioq)
      q == [ioq EXCEPT !.get = IF max > avail THEN max - avail
                               ELSE Wrapped(ioq, ioq.get + max)] IN
  /\ side = "recv" /\ line_len > 0
  /\ ioq' = q /\ gone' = gone + max /\ line_len' = FindLineLength(q)
  /\ UNCHANGED <<side, come, eols>>

\* The buffer ioset_write finds itself enough room in.
RECURSIVE Roomy(_, _)
Roomy(q, n) == IF Used(q) + n >= q.size THEN Roomy(Grow(q), n) ELSE q

\* ioset_write
Write ==
  /\ side = "send"
  /\ \E n \in 1..MaxBytes - come :
       LET q == Roomy(ioq, n)
           avail == PutAvail(q) IN
       /\ ioq' = IF n > avail
                 THEN Store([Store(q, avail, come + 1) EXCEPT !.put = 0], n - avail, come + avail + 1)
                 ELSE Store(q, n, come + 1)
       /\ come' = come + n
  /\ UNCHANGED <<side, gone, eols, line_len>>

\* ioset_try_write, when there is something and the socket takes res of it
TryWrite ==
  /\ side = "send" /\ ioq.get # ioq.put
  /\ \E res \in 1..GetAvail(ioq) :
       /\ ioq' = [ioq EXCEPT !.get = Wrapped(ioq, ioq.get + res)]
       /\ gone' = gone + res
  /\ UNCHANGED <<side, come, eols, line_len>>

Next == BufferedRead \/ LineRead \/ Write \/ TryWrite

Spec == Init /\ [][Next]_vars

-----------------------------------------------------------------------------
(* Properties.                                                             *)

\* What the ring holds, from get to put.
Contents ==
  [i \in 1..Used(ioq) |-> ioq.buf[(ioq.get + i - 1) % ioq.size]]

\* The buffer loses, repeats and reorders nothing, however it wraps around
\* and grows: it holds what has come and is not gone, in order.
StreamKept == Contents = [i \in 1..come - gone |-> gone + i]

\* line_len, which is computed in two ways (ioset.c:429, 465), is the length
\* of the first line that is complete, and 0 only if there is none: no line
\* waits for the next read.
FirstLineKnown ==
  side = "recv" =>
    LET ends == {i \in DOMAIN Contents : Contents[i] \in eols} IN
    IF ends = {} THEN line_len = 0
    ELSE line_len \in ends /\ \A i \in ends : line_len <= i
=============================================================================
