--------------------------------- MODULE Globs ---------------------------------
(***************************************************************************)
(* Masks: match_ircglob, which compares a text with a mask, and mmatch,    *)
(* which tells whether a mask covers another (bans and G-lines that became *)
(* redundant are dropped on its word).  One action is one round of the     *)
(* loop; indices count from 1 and the character behind the end is NUL.     *)
(* Letters are compared as if lower case; escapes are left out.  Source:   *)
(* src/tools.c.                                                            *)
(***************************************************************************)
EXTENDS Sequences, FiniteSetsExt

CONSTANTS
  Letters,
  MaxText, MaxMask, \* lengths
  NULL

VARIABLES
  glob,    \* the mask, for mmatch the old one
  text,    \* what is compared with it, for mmatch the new one
  mode,    \* "text" or "mask"
  m, n,    \* where the loop is in the mask and the text
  ma, na,  \* where it resumes after a failure: m_tmp and n_tmp, or ma and na
  wild,    \* an asterisk was met
  result   \* NULL while the loop runs

vars == <<glob, text, mode, m, n, ma, na, wild, result>>
input == <<glob, text, mode>>

NUL  == "NUL"
Wild == {"*", "?"}
Strings(S, k) == UNION {[1..i -> S] : i \in 0..k}
At(s, i)      == IF i \in 1..Len(s) THEN s[i] ELSE NUL
\* The first index from i on whose character is not in S.
Past(s, i, S) == Min({k \in i..Len(s) + 1 : At(s, k) \notin S})

Init ==
  /\ glob \in Strings(Letters \cup Wild, MaxMask)
  /\ \/ mode = "text" /\ text \in Strings(Letters, MaxText)
     \/ mode = "mask" /\ text \in Strings(Letters \cup Wild, MaxMask)
  /\ m = 1 /\ n = 1 /\ ma = 1 /\ na = 1 /\ wild = FALSE /\ result = NULL

End(b)   == result' = b /\ UNCHANGED <<input, m, n, ma, na, wild>>
Go(i, j) == m' = i /\ n' = j /\ UNCHANGED <<input, ma, na, wild, result>>
Resume   == m' = ma /\ n' = na + 1 /\ na' = na + 1 /\ UNCHANGED <<input, ma, wild, result>>

-----------------------------------------------------------------------------
(* match_ircglob.  m_tmp = glob, so far no asterisk, is ~wild.             *)

Matching  == mode = "text" /\ result = NULL
Backtrack == IF ~wild \/ At(text, na + 1) = NUL THEN End(FALSE) ELSE Resume

GlobEnds == Matching /\ At(glob, m) = NUL /\ IF At(text, n) = NUL THEN End(TRUE) ELSE Backtrack

\* The question marks of a group of wildcards that ends at k.
Singles(k) == {i \in m..k - 1 : glob[i] = "?"}

\* A group of wildcards: the question marks take what they need, an asterisk
\* looks for the character that follows.
Wildcards ==
  LET k == Past(glob, m, Wild)
      j == n + Cardinality(Singles(k))
      star == \E i \in m..k - 1 : glob[i] = "*"
      hit  == Past(text, j, Letters \ {At(glob, k)})
  IN /\ Matching /\ At(glob, m) \in Wild
     /\ IF j > Len(text) + 1 THEN Backtrack
        ELSE IF ~star THEN Go(k, j)
        ELSE IF At(glob, k) = NUL THEN End(TRUE)
        ELSE m' = k /\ ma' = k /\ n' = hit /\ na' = j /\ wild' = TRUE /\ UNCHANGED <<input, result>>

Character ==
  /\ Matching /\ At(glob, m) \in Letters
  /\ IF At(text, n) = NUL THEN End(FALSE)
     ELSE IF text[n] # glob[m] THEN Backtrack ELSE Go(m + 1, n + 1)

-----------------------------------------------------------------------------
(* mmatch.                                                                 *)

Covering == mode = "mask" /\ result = NULL

Asterisks ==
  LET k == Past(glob, m, {"*"})
  IN Covering /\ At(glob, m) = "*" /\ m' = k /\ ma' = k /\ na' = n /\ wild' = TRUE
     /\ UNCHANGED <<input, n, result>>

\* An asterisk, perhaps with question marks behind it, ends the old mask (but
\* the first character is not looked at).
EndsWild ==
  LET k == Max({0} \cup {i \in 1..Len(glob) : glob[i] # "?"}) IN k > 1 /\ glob[k] = "*"

Fail == IF wild THEN Resume ELSE End(FALSE)

\* The old mask is at its end, the new one is not.
OldEnds ==
  /\ Covering /\ At(glob, m) = NUL
  /\ IF At(text, n) = NUL \/ EndsWild THEN End(TRUE) ELSE Fail

NewEnds ==
  /\ Covering /\ At(glob, m) \notin {NUL, "*"} /\ At(text, n) = NUL /\ End(FALSE)

Covers(o, c) == o = c \/ (o = "?" /\ c # "*")

Characters ==
  /\ Covering /\ At(glob, m) \notin {NUL, "*"} /\ At(text, n) # NUL
  /\ IF Covers(glob[m], text[n]) THEN Go(m + 1, n + 1) ELSE Fail

Next == GlobEnds \/ Wildcards \/ Character \/ Asterisks \/ OldEnds \/ NewEnds \/ Characters

Spec == Init /\ [][Next]_vars

-----------------------------------------------------------------------------
\* What a mask means.
RECURSIVE Means(_, _)
Means(g, t) ==
  IF g = <<>> THEN t = <<>>
  ELSE IF Head(g) = "*" THEN \E k \in 1..Len(t) + 1 : Means(Tail(g), SubSeq(t, k, Len(t)))
  ELSE t # <<>> /\ Head(g) \in {"?", Head(t)} /\ Means(Tail(g), Tail(t))

\* match_ircglob finds that a text matches when it does; mmatch finds that a
\* mask is covered only if every text it matches is matched by the other, and
\* every mask covers itself.  Neither reads behind the end.
GlobsExact ==
  /\ m \in 1..Len(glob) + 1 /\ n \in 1..Len(text) + 1
  /\ mode = "text" /\ result # NULL => result = Means(glob, text)
  /\ mode = "mask" /\ result = TRUE =>
       \A t \in Strings(Letters, MaxText) : Means(text, t) => Means(glob, t)
  /\ mode = "mask" /\ result = FALSE => glob # text
=============================================================================
