--------------------------------- MODULE Recdb ---------------------------------
(***************************************************************************)
(* The text of a database: what saxdb writes of records, and what recdb    *)
(* reads when the file is whole, was cut short, or was edited by hand.     *)
(* A file is a sequence of characters; octal and hexadecimal escapes,      *)
(* which are only read, are left out.  Sources: src/saxdb.c, src/recdb.c.  *)
(***************************************************************************)
EXTENDS Naturals, SequencesExt

CONSTANTS
  Databases, \* what may be written: sequences of records (name, value)
  Comments,  \* what may be put between the tokens of a file
  NULL

VARIABLES
  db,    \* what was written last
  file,
  state, \* "written", "cut", "edited"
  read   \* what the file was read as, if it was not refused; or NULL

vars == <<db, file, state, read>>

EOL == "\n"
EOF == "EOF"
Space == {" ", EOL, "\t"}

Str(s)  == [type |-> "qstring", qstring |-> s, list |-> <<>>, object |-> <<>>]
List(l) == [type |-> "string_list", qstring |-> <<>>, list |-> l, object |-> <<>>]
Obj(o)  == [type |-> "object", qstring |-> <<>>, list |-> <<>>, object |-> o]

Init == db = <<>> /\ file = <<>> /\ state = "written" /\ read = NULL

-----------------------------------------------------------------------------
(* saxdb's writer; indentation is white space among the rest.              *)

Escaped(c) == CASE c = EOL -> <<"\\", "n">> [] c = "\t" -> <<"\\", "t">>
                [] c \in {"\\", "\""} -> <<"\\", c>> [] OTHER -> <<c>>

\* saxdb_put_qstring.
PutQString(s) == <<"\"">> \o FlattenSeq([i \in DOMAIN s |-> Escaped(s[i])]) \o <<"\"">>

Separated(ts) == FlattenSeq([i \in DOMAIN ts |-> IF i = 1 THEN ts[i] ELSE <<",", " ">> \o ts[i]])

\* saxdb_write_string, saxdb_write_string_list, and records within.
RECURSIVE PutRecords(_)
PutValue(v) ==
  CASE v.type = "qstring"     -> PutQString(v.qstring)
    [] v.type = "string_list" -> <<"(">> \o Separated([i \in DOMAIN v.list |-> PutQString(v.list[i])]) \o <<")">>
    [] v.type = "object"      -> <<"{", EOL>> \o PutRecords(v.object) \o <<"}">>
PutRecords(rs) ==
  FlattenSeq([i \in DOMAIN rs |-> PutQString(rs[i].name) \o <<" ">> \o PutValue(rs[i].value) \o <<";", EOL>>])

Write(d) == db' = d /\ file' = PutRecords(d) /\ state' = "written" /\ read' = NULL

-----------------------------------------------------------------------------
(* recdb's parser.  Each operator gives what it read and where it stands   *)
(* then; an abort jumps out of all of them.                                *)

At(f, p)      == IF p <= Len(f) THEN f[p] ELSE EOF
Got(v, p)     == [v |-> v, p |-> p, ok |-> TRUE]
Abort         == [v |-> NULL, p |-> 0, ok |-> FALSE]

\* The end of a C style comment from p on: after an asterisk exactly one
\* character is looked at.  NULL if there is none.
RECURSIVE CommentEnd(_, _)
CommentEnd(f, p) ==
  IF At(f, p) = EOF THEN NULL
  ELSE IF f[p] # "*" THEN CommentEnd(f, p + 1)
  ELSE IF At(f, p + 1) = "/" THEN p + 2 ELSE IF At(f, p + 1) = EOF THEN NULL ELSE CommentEnd(f, p + 2)

\* parse_skip_ws: where the first character that counts is.
RECURSIVE SkipWs(_, _)
SkipWs(f, p) ==
  IF At(f, p) \in Space THEN SkipWs(f, p + 1)
  ELSE IF At(f, p) # "/" \/ At(f, p + 1) \notin {"/", "*"} THEN Got(At(f, p), p)
  ELSE IF f[p + 1] = "*"
    THEN IF CommentEnd(f, p + 2) = NULL THEN Abort ELSE SkipWs(f, CommentEnd(f, p + 2))
  ELSE SkipWs(f, CHOOSE q \in p + 2..Len(f) + 2 :
                   /\ (At(f, q - 1) = EOL \/ q = Len(f) + 2)
                   /\ \A r \in p + 2..q - 1 : At(f, r - 1) # EOL)

Unescaped(c) == CASE c = "n" -> <<EOL>> [] c = "t" -> <<"\t">> [] c \in {"\\", "\""} -> <<c>> [] OTHER -> <<"\\", c>>

\* The characters of a string up to the quote.
RECURSIVE More(_, _, _)
More(f, p, s) ==
  CASE At(f, p) = EOF  -> Abort
    [] At(f, p) = "\"" -> Got(s, p + 1)
    [] At(f, p) = EOL  -> Abort
    [] At(f, p) = "\\" -> IF At(f, p + 1) = EOF THEN Abort ELSE More(f, p + 2, s \o Unescaped(f[p + 1]))
    [] OTHER           -> More(f, p + 1, Append(s, f[p]))
Chars(f, p) == More(f, p, <<>>)

\* parse_qstring: NULL at the end of the file.
ParseQString(f, p) ==
  LET c == SkipWs(f, p)
  IN IF ~c.ok THEN Abort ELSE IF c.v = EOF THEN Got(NULL, c.p)
     ELSE IF c.v # "\"" THEN Abort ELSE Chars(f, c.p + 1)

\* What these give from each position of a file.
Scanned(f) == [ws |-> [p \in 1..Len(f) + 2 |-> SkipWs(f, p)], qstring |-> [p \in 1..Len(f) + 2 |-> ParseQString(f, p)]]

\* parse_string_list behind the parenthesis.
RECURSIVE ParseList(_, _, _)
ParseList(f, p, l) ==
  LET c == f.ws[p] IN
  IF ~c.ok THEN Abort
  ELSE IF c.v \in {EOF, ")"} THEN Got(List(l), c.p + 1)
  ELSE LET s == f.qstring[c.p]
           d == f.ws[s.p]
       IN IF ~s.ok \/ ~d.ok THEN Abort
          ELSE IF d.v \in {EOF, ")"} THEN Got(List(Append(l, s.v)), d.p + 1)
          ELSE IF d.v = "," THEN ParseList(f, d.p + 1, Append(l, s.v)) ELSE Abort

\* parse_record_int: name, perhaps "=", value, semicolon; NULL at the end.
RECURSIVE ParseObject(_, _, _)
ParseValue(f, p) ==
  LET c == f.ws[p]
  IN IF ~c.ok THEN Abort
     ELSE CASE c.v = "\"" -> LET s == f.qstring[c.p] IN IF s.ok THEN Got(Str(s.v), s.p) ELSE Abort
            [] c.v = "{"  -> ParseObject(f, c.p + 1, <<>>)
            [] c.v = "("  -> ParseList(f, c.p + 1, <<>>)
            [] OTHER      -> Abort
ParseRecord(f, p) ==
  LET name == f.qstring[p]
      c    == f.ws[name.p]
      v    == ParseValue(f, IF c.v = "=" THEN c.p + 1 ELSE c.p)
      e    == f.ws[v.p]
  IN IF ~name.ok THEN Abort
     ELSE IF name.v = NULL THEN Got(NULL, name.p)
     ELSE IF ~c.ok \/ ~v.ok THEN Abort
     ELSE IF ~e.ok \/ e.v # ";" THEN Abort
     ELSE Got([name |-> name.v, value |-> v.v], e.p + 1)

\* parse_object behind the brace.
ParseObject(f, p, rs) ==
  LET c == f.ws[p]
      r == ParseRecord(f, c.p)
  IN IF ~c.ok THEN Abort
     ELSE IF c.v \in {EOF, "}"} THEN Got(Obj(rs), c.p + 1)
     ELSE IF ~r.ok THEN Abort ELSE ParseObject(f, r.p, Append(rs, r.v))

\* parse_database.
RECURSIVE ParseDatabase(_, _, _, _)
ParseDatabase(f, end, p, rs) ==
  IF p > end THEN [ok |-> TRUE, db |-> rs]
  ELSE LET r == ParseRecord(f, p)
       IN IF ~r.ok THEN [ok |-> FALSE, db |-> <<>>]
          ELSE ParseDatabase(f, end, r.p, IF r.v = NULL THEN rs ELSE Append(rs, r.v))

Read == read = NULL /\ read' = ParseDatabase(Scanned(file), Len(file), 1, <<>>) /\ UNCHANGED <<db, file, state>>

-----------------------------------------------------------------------------
(* What happens to files.                                                  *)

\* A write that was not finished.
Cut(n) ==
  /\ state = "written" /\ n < Len(file) /\ file' = SubSeq(file, 1, n) /\ state' = "cut"
  /\ read' = NULL /\ UNCHANGED db

\* A hand adds a comment in front of something that is no part of a string.
Quotes(f, n)  == {i \in 1..n : f[i] = "\"" /\ ~\E j \in 1..i - 1 : f[j] = "\\"}
Edit(n, c) ==
  /\ state = "written" /\ ~\E i \in DOMAIN file : file[i] = "\\"
  /\ Cardinality(Quotes(file, n)) % 2 = 0
  /\ file' = SubSeq(file, 1, n) \o c \o SubSeq(file, n + 1, Len(file)) /\ state' = "edited"
  /\ read' = NULL /\ UNCHANGED db

Next ==
  \/ \E d \in Databases : state = "written" /\ file = <<>> /\ Write(d)
  \/ Read
  \/ \E n \in 0..Len(file) : Cut(n) \/ \E c \in Comments : Edit(n, c)

Spec == Init /\ [][Next]_vars

-----------------------------------------------------------------------------
\* A file that was written, commented or not, is read as what was written.
\* One that was cut short is refused or read as its first records: never as
\* others.
FilesExact ==
  read # NULL =>
    /\ state # "cut" => read.ok /\ read.db = db
    /\ state = "cut" /\ read.ok => IsPrefix(read.db, db)
=============================================================================
