---------------------------- MODULE HelpServ_proofs ----------------------------
(***************************************************************************)
(* Proofs about HelpServ for any number of bots, users and accounts, any   *)
(* bound of ids and any options: every request is in the lists it belongs  *)
(* to and in no other, the queue is in order, requests have the people     *)
(* they should, and a restart keeps them.  First lists, numbers and        *)
(* dictionaries; then, for each handler, that it keeps the invariant.  The *)
(* loops of the handlers are gone through as the code does it, one element *)
(* at a time, with what is true after i of them.                           *)
(***************************************************************************)
EXTENDS HelpServ, FiniteSetTheorems, WellFoundedInduction, TLAPS

-----------------------------------------------------------------------------
(* Numbers and lists.                                                       *)

\* Every set of numbers that is not empty has a least member.
LEMMA LeastOf ==
  ASSUME NEW T \in SUBSET Nat, T # {}
  PROVE  \E x \in T : \A y \in T : x <= y
<1> DEFINE R == {ss \in Nat \X Nat : ss[1] < ss[2]}
<1>1. IsWellFoundedOn(R, Nat)
  BY NatLessThanWellFounded DEF OpToRel
<1> HIDE DEF R
<1>2. PICK x \in T : \A y \in T : ~ (<<y, x>> \in R)
  BY <1>1, WFMin, Zenon
<1>3. ASSUME NEW y \in T PROVE x <= y
  <2>1. ~(y < x)
    BY <1>2, Zenon DEF R
  <2> QED BY <2>1
<1> QED BY <1>3

\* Induction over 0..n: a set with 0, and with i whenever it has i - 1, has
\* every number up to n.
LEMMA Induct ==
  ASSUME NEW n \in Nat, NEW S, 0 \in S, \A i \in 1..n : i - 1 \in S => i \in S
  PROVE  \A i \in 0..n : i \in S
<1> DEFINE T == {i \in 0..n : i \notin S}
<1> SUFFICES ASSUME T # {} PROVE FALSE
  OBVIOUS
<1>0. T \in SUBSET Nat
  OBVIOUS
<1>1. PICK x \in T : \A y \in T : x <= y
  <2> HIDE DEF T
  <2> QED BY <1>0, LeastOf
<1>2. x # 0 /\ x \in 1..n /\ x - 1 \in 0..n
  BY <1>1
<1>3. x - 1 \in S
  <2>1. ~(x <= x - 1)
    BY <1>2
  <2> QED BY <1>1, <1>2, <2>1
<1> QED BY <1>1, <1>2, <1>3

\* A loop: every pass makes of what is good before it what is good after it.
Loops(n, good, s, do) ==
  /\ n \in Nat /\ s \in good[0]
  /\ \A i \in 1..n : \A t \in good[i - 1] : do[i][t] \in good[i]

\* The loops of the code, dict_foreach and the for statements over lists, run
\* to their end: the recursive function that Each and Only are written with
\* exists, and every step of it is a step of the loop.
LEMMA LoopRuns ==
  ASSUME NEW n, NEW good, NEW s, NEW do, Loops(n, good, s, do)
  PROVE  \E r : /\ r = [i \in 0..n |-> IF i = 0 THEN s ELSE do[i][r[i - 1]]]
                /\ \A i \in 1..n : r[i - 1] \in good[i - 1] /\ i \in 0..n /\ i - 1 \in 0..n /\ i # 0
<1> DEFINE Run(m, r) == /\ r = [i \in 0..m |-> IF i = 0 THEN s ELSE do[i][r[i - 1]]]
                        /\ \A i \in 0..m : r[i] \in good[i]
           S == {m \in 0..n : \E r : Run(m, r)}
<1>0. n \in Nat /\ s \in good[0] /\ \A i \in 1..n : \A t \in good[i - 1] : do[i][t] \in good[i]
  BY DEF Loops
<1>1. 0 \in S
  <2> DEFINE z == [i \in 0..0 |-> s]
  <2>1. \A i \in 0..0 : i = 0
    OBVIOUS
  <2>2. z = [i \in 0..0 |-> IF i = 0 THEN s ELSE do[i][z[i - 1]]]
    BY <2>1
  <2>3. Run(0, z)
    BY <1>0, <2>1, <2>2
  <2> HIDE DEF Run, z
  <2>4. 0 \in 0..n
    BY <1>0
  <2> QED BY <2>3, <2>4
<1>2. ASSUME NEW m \in 1..n, m - 1 \in S PROVE m \in S
  <2>1. PICK r : Run(m - 1, r)
    BY <1>2
  <2> DEFINE q == [i \in 0..m |-> IF i = m THEN do[m][r[m - 1]] ELSE r[i]]
  <2>0. m \in Nat /\ m # 0
    BY <1>0
  <2>2. r[m - 1] \in good[m - 1] /\ m - 1 \in 0..(m - 1)
    BY <2>0, <2>1
  <2>3. do[m][r[m - 1]] \in good[m]
    BY <1>0, <2>2
  <2>4. \A i \in 0..(m - 1) : q[i] = r[i] /\ i # m /\ i \in 0..m
    BY <2>0
  <2>5. q[m] = do[m][r[m - 1]] /\ q[m] = do[m][q[m - 1]]
    BY <2>0, <2>2, <2>4
  <2>6. \A i \in 0..m : q[i] \in good[i]
    <3>1. \A i \in 0..(m - 1) : q[i] \in good[i]
      BY <2>1, <2>4
    <3>2. \A i \in 0..m : i = m \/ i \in 0..(m - 1)
      BY <2>0
    <3> HIDE DEF q
    <3> QED BY <3>1, <3>2, <2>3, <2>5
  <2>8. ASSUME NEW i \in 0..m PROVE q[i] = IF i = 0 THEN s ELSE do[i][q[i - 1]]
    <3>1. CASE i = m
      BY <2>0, <2>5, <3>1
    <3>2. CASE i \in 0..(m - 1)
      <4>1. q[i] = IF i = 0 THEN s ELSE do[i][r[i - 1]]
        BY <2>1, <2>4, <3>2
      <4>2. i # 0 => q[i - 1] = r[i - 1]
        BY <2>0, <3>2
      <4> QED BY <4>1, <4>2
    <3> QED BY <2>0, <3>1, <3>2
  <2>9. q = [i \in 0..m |-> q[i]]
    OBVIOUS
  <2> HIDE DEF q
  <2>10. q = [i \in 0..m |-> IF i = 0 THEN s ELSE do[i][q[i - 1]]]
    BY <2>8, <2>9
  <2>11. Run(m, q)
    BY <2>6, <2>10
  <2>12. m \in 0..n
    BY <1>0
  <2> HIDE DEF Run
  <2> QED BY <2>11, <2>12
<1>3. n \in S
  <2> HIDE DEF S
  <2> QED BY <1>0, <1>1, <1>2, Induct
<1>4. PICK r : Run(n, r)
  BY <1>3
<1>5. \A i \in 1..n : i \in 0..n /\ i - 1 \in 0..n /\ i # 0
  BY <1>0
<1> QED BY <1>4, <1>5

-----------------------------------------------------------------------------
(* Lists that hold the members of a set, each once.                         *)

\* The list is one of requests, has each member of S once, and nothing else.
Holds(list, S) ==
  /\ list \in Seq(Nat)
  /\ \A i, j \in 1..Len(list) : list[i] = list[j] => i = j
  /\ \A i \in 1..Len(list) : list[i] \in S
  /\ \A p \in S : \E i \in 1..Len(list) : list[i] = p

\* The list is in the order of opening.
InOrder(list, rec) ==
  \A i, j \in 1..Len(list) : i < j => rec[list[i]].opened <= rec[list[j]].opened

\* The empty list holds nothing, in order, and no other list holds nothing.
LEMMA HoldsNone ==
  /\ Holds(<<>>, {}) /\ \A rec : InOrder(<<>>, rec)
  /\ \A list : Holds(list, {}) => list = <<>>
<1>1. Holds(<<>>, {}) /\ \A rec : InOrder(<<>>, rec)
  BY DEF Holds, InOrder
<1>2. ASSUME NEW list, Holds(list, {}) PROVE list = <<>>
  <2>1. list \in Seq(Nat) /\ ~\E i \in 1..Len(list) : TRUE
    BY <1>2 DEF Holds
  <2>2. Len(list) \in Nat
    BY <2>1
  <2>3. Len(list) = 0
    <3>1. Len(list) # 0 => 1 \in 1..Len(list)
      BY <2>2
    <3> QED BY <2>1, <3>1
  <2> QED BY <2>1, <2>3
<1> QED BY <1>1, <1>2

\* What a list holds determines whether it is empty, its head, and its one
\* member.
LEMMA HoldsSome ==
  ASSUME NEW list, NEW S, Holds(list, S)
  PROVE  /\ list = <<>> <=> S = {}
         /\ Len(list) \in Nat /\ list \in Seq(Nat) /\ S \subseteq Nat
         /\ Len(list) = 1 => S = {list[1]}
         /\ list # <<>> => Head(list) \in S /\ Head(list) = list[1] /\ 1 \in 1..Len(list)
<1>1. list \in Seq(Nat) /\ Len(list) \in Nat
  BY DEF Holds
<1>2. S \subseteq Nat
  <2> SUFFICES ASSUME NEW p \in S PROVE p \in Nat
    OBVIOUS
  <2>1. PICK i \in 1..Len(list) : list[i] = p
    BY DEF Holds
  <2> QED BY <1>1, <2>1
<1>3. list # <<>> => 1 \in 1..Len(list) /\ Head(list) = list[1]
  BY <1>1
<1>4. list = <<>> <=> S = {}
  <2>1. list = <<>> => S = {}
    BY DEF Holds
  <2>2. S = {} => list = <<>>
    BY HoldsNone
  <2> QED BY <2>1, <2>2
<1>5. Len(list) = 1 => S = {list[1]}
  <2> SUFFICES ASSUME Len(list) = 1 PROVE S = {list[1]}
    OBVIOUS
  <2>1. \A i \in 1..Len(list) : i = 1
    OBVIOUS
  <2>2. 1 \in 1..Len(list)
    OBVIOUS
  <2> QED BY <2>1, <2>2 DEF Holds
<1>6. list # <<>> => Head(list) \in S
  BY <1>3 DEF Holds
<1> QED BY <1>1, <1>2, <1>3, <1>4, <1>5, <1>6

\* Appending a request that is not there yet adds it to what the list holds
\* (helpserv_reqlist_append).
LEMMA HoldsAppend ==
  ASSUME NEW list, NEW S, Holds(list, S), NEW p \in Nat, p \notin S
  PROVE  Holds(Append(list, p), S \cup {p})
<1> DEFINE q == Append(list, p)
<1>1. list \in Seq(Nat) /\ Len(list) \in Nat
  BY DEF Holds
<1>2. q \in Seq(Nat) /\ Len(q) = Len(list) + 1 /\ q[Len(list) + 1] = p /\ \A i \in 1..Len(list) : q[i] = list[i]
  BY <1>1
<1>3. \A i \in 1..Len(q) : i \in 1..Len(list) \/ i = Len(list) + 1
  BY <1>1, <1>2
<1>4. \A i \in 1..Len(list) : i \in 1..Len(q)
  BY <1>1, <1>2
<1>5. Len(list) + 1 \in 1..Len(q)
  BY <1>1, <1>2
<1> HIDE DEF q
<1>6. \A i, j \in 1..Len(q) : q[i] = q[j] => i = j
  BY <1>1, <1>2, <1>3 DEF Holds
<1>7. \A i \in 1..Len(q) : q[i] \in S \cup {p}
  BY <1>2, <1>3 DEF Holds
<1>8. \A x \in S \cup {p} : \E i \in 1..Len(q) : q[i] = x
  BY <1>2, <1>4, <1>5 DEF Holds
<1>9. Holds(q, S \cup {p})
  BY <1>2, <1>6, <1>7, <1>8 DEF Holds
<1> QED BY <1>9 DEF q

\* A queue stays in the order of opening when the request at its end is the
\* latest (create_request).
LEMMA OrderAppend ==
  ASSUME NEW list \in Seq(Nat), NEW rec, InOrder(list, rec), NEW p \in Nat,
         \A i \in 1..Len(list) : rec[list[i]].opened <= rec[p].opened
  PROVE  InOrder(Append(list, p), rec)
<1> DEFINE q == Append(list, p)
<1>2. Len(list) \in Nat /\ Len(q) = Len(list) + 1 /\ q[Len(list) + 1] = p /\ \A i \in 1..Len(list) : q[i] = list[i]
  OBVIOUS
<1>3. \A i \in 1..Len(q) : i \in 1..Len(list) \/ i = Len(list) + 1
  BY <1>2
<1> HIDE DEF q
<1>4. ASSUME NEW i \in 1..Len(q), NEW j \in 1..Len(q), i < j PROVE rec[q[i]].opened <= rec[q[j]].opened
  <2>1. i \in 1..Len(list) /\ q[i] = list[i]
    BY <1>2, <1>3, <1>4
  <2>2. CASE j \in 1..Len(list)
    BY <1>2, <1>4, <2>1, <2>2 DEF InOrder
  <2>3. CASE j = Len(list) + 1
    BY <1>2, <2>1, <2>3
  <2> QED BY <1>3, <2>2, <2>3
<1>5. InOrder(q, rec)
  BY <1>4 DEF InOrder
<1> QED BY <1>5 DEF q

\* Two lists, one behind the other.
LEMMA JoinedIs ==
  ASSUME NEW a \in Seq(Nat), NEW c \in Seq(Nat)
  PROVE  /\ a \o c \in Seq(Nat) /\ Len(a \o c) = Len(a) + Len(c)
         /\ \A i \in 1..Len(a) : (a \o c)[i] = a[i]
         /\ \A i \in (Len(a) + 1)..(Len(a) + Len(c)) : (a \o c)[i] = c[i - Len(a)]
OBVIOUS

\* RemoveFirst takes out one place and shifts those behind it, where nothing
\* occurs twice (helpserv_reqlist_remove).
LEMMA RemovedIs ==
  ASSUME NEW list \in Seq(Nat), \A i, j \in 1..Len(list) : list[i] = list[j] => i = j, NEW k \in 1..Len(list)
  PROVE  /\ Len(RemoveFirst(list, list[k])) = Len(list) - 1 /\ RemoveFirst(list, list[k]) \in Seq(Nat)
         /\ \A i \in 1..(Len(list) - 1) : RemoveFirst(list, list[k])[i] = list[IF i < k THEN i ELSE i + 1]
<1> DEFINE I == {i \in 1..Len(list) : list[i] = list[k]}
<1>1. I = {k}
  OBVIOUS
<1>2. Min(I) = k
  <2>1. \A x \in I : x = k /\ x <= k
    BY <1>1
  <2>2. k \in I /\ \A y \in I : k <= y
    BY <1>1
  <2> HIDE DEF I
  <2>3. \A x \in I : (\A y \in I : x <= y) => x = k
    BY <2>1
  <2> QED BY <2>2, <2>3, Zenon DEF Min
<1>3. SelectInSeq(list, LAMBDA v : v = list[k]) = k
  BY <1>1, <1>2 DEF SelectInSeq
<1>4. RemoveFirst(list, list[k]) = RemoveAt(list, k)
  BY <1>3 DEF RemoveFirst
<1>5. RemoveAt(list, k) = SubSeq(list, 1, k - 1) \o SubSeq(list, k + 1, Len(list))
  BY DEF RemoveAt
<1> DEFINE a == SubSeq(list, 1, k - 1)
           c == SubSeq(list, k + 1, Len(list))
<1>6. a \in Seq(Nat) /\ Len(a) = k - 1 /\ \A i \in 1..(k - 1) : a[i] = list[i]
  OBVIOUS
<1>7. c \in Seq(Nat) /\ Len(c) = Len(list) - k /\ \A i \in 1..(Len(list) - k) : c[i] = list[k + i]
  OBVIOUS
<1> HIDE DEF a, c
<1>8. /\ a \o c \in Seq(Nat) /\ Len(a \o c) = Len(list) - 1
      /\ \A i \in 1..(k - 1) : (a \o c)[i] = a[i]
      /\ \A i \in k..(Len(list) - 1) : (a \o c)[i] = c[i - (k - 1)]
  <2>1. /\ a \o c \in Seq(Nat) /\ Len(a \o c) = Len(a) + Len(c)
        /\ \A i \in 1..Len(a) : (a \o c)[i] = a[i]
        /\ \A i \in (Len(a) + 1)..(Len(a) + Len(c)) : (a \o c)[i] = c[i - Len(a)]
    BY <1>6, <1>7, JoinedIs
  <2>2. Len(a) + Len(c) = Len(list) - 1 /\ Len(a) + 1 = k
    BY <1>6, <1>7
  <2> QED BY <1>6, <2>1, <2>2
<1>9. ASSUME NEW i \in 1..(Len(list) - 1) PROVE (a \o c)[i] = list[IF i < k THEN i ELSE i + 1]
  <2>1. CASE i < k
    BY <1>6, <1>8, <2>1
  <2>2. CASE ~(i < k)
    <3>1. (a \o c)[i] = c[i - (k - 1)]
      <4>1. i \in k..(Len(list) - 1)
        BY <2>2
      <4> QED BY <1>8, <4>1
    <3>2. i - (k - 1) \in 1..(Len(list) - k) /\ k + (i - (k - 1)) = i + 1
      BY <2>2
    <3> QED BY <1>7, <2>2, <3>1, <3>2
  <2> QED BY <2>1, <2>2
<1> QED BY <1>4, <1>5, <1>8, <1>9 DEF a, c

\* helpserv_reqlist_remove takes out what it is told, and leaves the others
\* in their order.
LEMMA HoldsRemove ==
  ASSUME NEW list, NEW S, Holds(list, S), NEW p
  PROVE  /\ Holds(RemoveFirst(list, p), S \ {p})
         /\ \A rec : InOrder(list, rec) => InOrder(RemoveFirst(list, p), rec)
<1>1. list \in Seq(Nat) /\ Len(list) \in Nat /\ \A i, j \in 1..Len(list) : list[i] = list[j] => i = j
  BY DEF Holds
<1>2. CASE p \notin S
  <2>1. RemoveFirst(list, p) = list
    BY <1>2 DEF RemoveFirst, Holds
  <2>2. S \ {p} = S
    BY <1>2
  <2> QED BY <2>1, <2>2
<1>3. CASE p \in S
  <2>1. PICK k \in 1..Len(list) : list[k] = p
    BY <1>3 DEF Holds
  <2> DEFINE q == RemoveFirst(list, p)
             at(i) == IF i < k THEN i ELSE i + 1
  <2>2. Len(q) = Len(list) - 1 /\ q \in Seq(Nat) /\ \A i \in 1..(Len(list) - 1) : q[i] = list[IF i < k THEN i ELSE i + 1]
    BY <1>1, <2>1, RemovedIs
  <2> HIDE DEF q
  <2>3. /\ \A i \in 1..Len(q) : at(i) \in 1..Len(list) /\ at(i) # k /\ q[i] = list[at(i)]
        /\ \A i, j \in 1..Len(q) : at(i) = at(j) => i = j
        /\ \A i, j \in 1..Len(q) : i < j => at(i) < at(j)
        /\ \A m \in 1..Len(list) : m # k => \E i \in 1..Len(q) : at(i) = m
    <3>1. \A i \in 1..Len(q) : at(i) \in 1..Len(list) /\ at(i) # k /\ q[i] = list[at(i)]
      BY <1>1, <2>1, <2>2
    <3>2. \A i, j \in 1..Len(q) : at(i) = at(j) => i = j
      BY <1>1, <2>2
    <3>3. \A i, j \in 1..Len(q) : i < j => at(i) < at(j)
      BY <1>1, <2>2
    <3>4. ASSUME NEW m \in 1..Len(list), m # k PROVE \E i \in 1..Len(q) : at(i) = m
      <4>1. CASE m < k
        <5>1. m \in 1..Len(q) /\ at(m) = m
          BY <1>1, <2>1, <2>2, <3>4, <4>1
        <5> QED BY <5>1
      <4>2. CASE m > k
        <5>1. m - 1 \in 1..Len(q) /\ at(m - 1) = m
          BY <1>1, <2>1, <2>2, <3>4, <4>2
        <5> QED BY <5>1
      <4> QED BY <3>4, <4>1, <4>2
    <3> QED BY <3>1, <3>2, <3>3, <3>4
  <2> HIDE DEF at
  <2>4. \A i, j \in 1..Len(q) : q[i] = q[j] => i = j
    BY <1>1, <2>3
  <2>5. \A i \in 1..Len(q) : q[i] \in S \ {p}
    BY <1>1, <2>1, <2>3 DEF Holds
  <2>6. ASSUME NEW x \in S \ {p} PROVE \E i \in 1..Len(q) : q[i] = x
    <3>1. PICK m \in 1..Len(list) : list[m] = x
      BY DEF Holds
    <3>2. m # k
      BY <2>1, <3>1
    <3> QED BY <2>3, <3>1, <3>2
  <2>7. Holds(q, S \ {p})
    BY <2>2, <2>4, <2>5, <2>6 DEF Holds
  <2>8. ASSUME NEW rec, InOrder(list, rec) PROVE InOrder(q, rec)
    <3>1. ASSUME NEW i \in 1..Len(q), NEW j \in 1..Len(q), i < j PROVE rec[q[i]].opened <= rec[q[j]].opened
      <4>1. at(i) \in 1..Len(list) /\ at(j) \in 1..Len(list) /\ at(i) < at(j) /\ q[i] = list[at(i)] /\ q[j] = list[at(j)]
        BY <2>3, <3>1
      <4>2. rec[list[at(i)]].opened <= rec[list[at(j)]].opened
        BY <2>8, <4>1 DEF InOrder
      <4> QED BY <4>1, <4>2
    <3> QED BY <3>1 DEF InOrder
  <2> QED BY <2>7, <2>8 DEF q
<1> QED BY <1>2, <1>3

\* InsertAt puts a request at its place and shifts those behind it.
LEMMA InsertedIs ==
  ASSUME NEW list \in Seq(Nat), NEW p \in Nat, NEW k \in 1..(Len(list) + 1)
  PROVE  /\ InsertAt(list, k, p) \in Seq(Nat) /\ Len(InsertAt(list, k, p)) = Len(list) + 1
         /\ \A i \in 1..(k - 1) : InsertAt(list, k, p)[i] = list[i]
         /\ InsertAt(list, k, p)[k] = p
         /\ \A i \in (k + 1)..(Len(list) + 1) : InsertAt(list, k, p)[i] = list[i - 1]
<1> DEFINE a == SubSeq(list, 1, k - 1)
           m == <<p>>
           c == SubSeq(list, k, Len(list))
<1>1. a \in Seq(Nat) /\ Len(a) = k - 1 /\ \A i \in 1..(k - 1) : a[i] = list[i]
  OBVIOUS
<1>2. c \in Seq(Nat) /\ Len(c) = Len(list) - k + 1 /\ \A i \in 1..(Len(list) - k + 1) : c[i] = list[k + i - 1]
  OBVIOUS
<1>3. m \in Seq(Nat) /\ Len(m) = 1 /\ m[1] = p
  OBVIOUS
<1>4. InsertAt(list, k, p) = a \o m \o c
  BY DEF InsertAt
<1> HIDE DEF a, m, c
<1> DEFINE b == a \o m
<1>5. b \in Seq(Nat) /\ Len(b) = k /\ (\A i \in 1..(k - 1) : b[i] = list[i]) /\ b[k] = p
  <2>1. /\ b \in Seq(Nat) /\ Len(b) = Len(a) + Len(m)
        /\ \A i \in 1..Len(a) : b[i] = a[i]
        /\ \A i \in (Len(a) + 1)..(Len(a) + Len(m)) : b[i] = m[i - Len(a)]
    BY <1>1, <1>3, JoinedIs
  <2> HIDE DEF b
  <2>2. k \in (Len(a) + 1)..(Len(a) + Len(m)) /\ k - Len(a) = 1
    BY <1>1, <1>3
  <2>3. b[k] = p
    BY <1>3, <2>1, <2>2
  <2> QED BY <1>1, <1>3, <2>1, <2>3
<1> HIDE DEF b
<1>6. /\ b \o c \in Seq(Nat) /\ Len(b \o c) = Len(b) + Len(c)
      /\ \A i \in 1..Len(b) : (b \o c)[i] = b[i]
      /\ \A i \in (Len(b) + 1)..(Len(b) + Len(c)) : (b \o c)[i] = c[i - Len(b)]
  BY <1>2, <1>5, JoinedIs
<1>7. Len(b \o c) = Len(list) + 1
  BY <1>2, <1>5, <1>6
<1>8. \A i \in 1..(k - 1) : i \in 1..Len(b) /\ (b \o c)[i] = list[i]
  BY <1>5, <1>6
<1>9. (b \o c)[k] = p
  <2>1. k \in 1..Len(b)
    BY <1>5
  <2> QED BY <1>5, <1>6, <2>1
<1>10. ASSUME NEW i \in (k + 1)..(Len(list) + 1) PROVE (b \o c)[i] = list[i - 1]
  <2>1. i \in (Len(b) + 1)..(Len(b) + Len(c)) /\ i - k \in 1..(Len(list) - k + 1) /\ k + (i - k) - 1 = i - 1
    BY <1>2, <1>5
  <2>2. (b \o c)[i] = c[i - k]
    BY <1>5, <1>6, <2>1
  <2> QED BY <1>2, <2>1, <2>2
<1>11. InsertAt(list, k, p) = b \o c
  BY <1>4 DEF b
<1> QED BY <1>6, <1>7, <1>8, <1>9, <1>10, <1>11

\* A request that is inserted is held with the others
\* (helpserv_page_helper_gone).
LEMMA HoldsInsert ==
  ASSUME NEW list, NEW S, Holds(list, S), NEW p \in Nat, p \notin S, NEW k \in 1..(Len(list) + 1)
  PROVE  Holds(InsertAt(list, k, p), S \cup {p})
<1> DEFINE q == InsertAt(list, k, p)
           at(i) == IF i < k THEN i ELSE i + 1
<1>1. list \in Seq(Nat) /\ Len(list) \in Nat
  BY DEF Holds
<1>2. /\ q \in Seq(Nat) /\ Len(q) = Len(list) + 1
      /\ \A i \in 1..(k - 1) : q[i] = list[i]
      /\ q[k] = p
      /\ \A i \in (k + 1)..(Len(list) + 1) : q[i] = list[i - 1]
  BY <1>1, InsertedIs, ZenonT(40)
<1> HIDE DEF q
<1>3. \A i \in 1..Len(list) : at(i) \in 1..Len(q) /\ at(i) # k /\ q[at(i)] = list[i]
  <2> SUFFICES ASSUME NEW i \in 1..Len(list) PROVE at(i) \in 1..Len(q) /\ at(i) # k /\ q[at(i)] = list[i]
    OBVIOUS
  <2>1. CASE i < k
    <3>1. i \in 1..(k - 1) /\ at(i) = i
      BY <2>1
    <3> QED BY <1>1, <1>2, <3>1
  <2>2. CASE ~(i < k)
    <3>1. i + 1 \in (k + 1)..(Len(list) + 1) /\ at(i) = i + 1 /\ (i + 1) - 1 = i
      BY <1>1, <2>2
    <3> QED BY <1>1, <1>2, <3>1
  <2> QED BY <2>1, <2>2
<1>4. \A m \in 1..Len(q) : m = k \/ \E i \in 1..Len(list) : m = at(i)
  <2> SUFFICES ASSUME NEW m \in 1..Len(q), m # k PROVE \E i \in 1..Len(list) : m = at(i)
    OBVIOUS
  <2>1. CASE m < k
    <3>1. m \in 1..Len(list) /\ at(m) = m
      BY <1>1, <1>2, <2>1
    <3> QED BY <3>1
  <2>2. CASE m > k
    <3>1. m - 1 \in 1..Len(list) /\ at(m - 1) = m
      BY <1>1, <1>2, <2>2
    <3> QED BY <3>1
  <2> QED BY <2>1, <2>2
<1>5. k \in 1..Len(q)
  BY <1>1, <1>2
<1> HIDE DEF at
<1>6. ASSUME NEW m \in 1..Len(q) PROVE q[m] \in S \cup {p}
  <2>1. CASE m # k
    <3>1. PICK i \in 1..Len(list) : m = at(i)
      BY <1>4, <2>1
    <3>2. q[m] = list[i] /\ list[i] \in S
      BY <1>3, <3>1 DEF Holds
    <3> QED BY <3>2
  <2> QED BY <1>2, <2>1
<1>7. \A x \in S \cup {p} : \E i \in 1..Len(q) : q[i] = x
  <2>1. ASSUME NEW x \in S PROVE \E i \in 1..Len(q) : q[i] = x
    <3>1. PICK i \in 1..Len(list) : list[i] = x
      BY DEF Holds
    <3> QED BY <1>3, <3>1
  <2> QED BY <1>2, <1>5, <2>1
<1>8. \A i \in 1..Len(list) : list[i] \in S /\ list[i] # p
  BY DEF Holds
<1>85. \A m \in 1..Len(q) : m # k => q[m] # p
  BY <1>3, <1>4, <1>8
<1>9. ASSUME NEW i \in 1..Len(q), NEW j \in 1..Len(q), q[i] = q[j] PROVE i = j
  <2>1. CASE i = k
    BY <1>2, <1>85, <1>9, <2>1
  <2>2. CASE j = k
    BY <1>2, <1>85, <1>9, <2>2
  <2>3. CASE i # k /\ j # k
    <3>1. PICK a \in 1..Len(list) : i = at(a)
      BY <1>4, <2>3
    <3>2. PICK c \in 1..Len(list) : j = at(c)
      BY <1>4, <2>3
    <3>3. list[a] = list[c]
      BY <1>3, <1>9, <3>1, <3>2
    <3>4. a = c
      BY <3>3 DEF Holds
    <3> QED BY <3>1, <3>2, <3>4
  <2> QED BY <2>1, <2>2, <2>3
<1>10. Holds(q, S \cup {p})
  BY <1>2, <1>6, <1>7, <1>9 DEF Holds
<1> QED BY <1>10 DEF q

\* A queue stays in the order of opening when a request is put behind the
\* earlier and before the later ones.
LEMMA OrderInsert ==
  ASSUME NEW list \in Seq(Nat), NEW rec, InOrder(list, rec), NEW p \in Nat, NEW k \in 1..(Len(list) + 1),
         \A i \in 1..(k - 1) : rec[list[i]].opened <= rec[p].opened,
         \A i \in k..Len(list) : rec[p].opened <= rec[list[i]].opened
  PROVE  InOrder(InsertAt(list, k, p), rec)
<1> DEFINE q == InsertAt(list, k, p)
<1>2. /\ q \in Seq(Nat) /\ Len(q) = Len(list) + 1
      /\ \A i \in 1..(k - 1) : q[i] = list[i]
      /\ q[k] = p
      /\ \A i \in (k + 1)..(Len(list) + 1) : q[i] = list[i - 1]
  BY InsertedIs, ZenonT(40)
<1> HIDE DEF q
<1> DEFINE t == [x \in Nat |-> rec[x].opened]
<1>0. /\ \A x \in Nat : t[x] = rec[x].opened
      /\ \A x \in 1..Len(list) : list[x] \in Nat
      /\ \A x \in 1..Len(q) : q[x] \in Nat
  <2>1. \A x \in Nat : t[x] = rec[x].opened
    OBVIOUS
  <2>2. \A x \in 1..Len(list) : list[x] \in Nat
    OBVIOUS
  <2> HIDE DEF t
  <2>3. \A x \in 1..Len(q) : q[x] \in Nat
    BY <1>2
  <2> QED BY <2>1, <2>2, <2>3
<1>00. /\ \A x, y \in 1..Len(list) : x < y => t[list[x]] <= t[list[y]]
       /\ \A x \in 1..(k - 1) : x \in 1..Len(list) /\ t[list[x]] <= t[p]
       /\ \A x \in k..Len(list) : x \in 1..Len(list) /\ t[p] <= t[list[x]]
  <2>1. \A x \in 1..(k - 1) : x \in 1..Len(list)
    OBVIOUS
  <2>2. \A x \in k..Len(list) : x \in 1..Len(list)
    OBVIOUS
  <2> QED BY <2>1, <2>2, <1>0 DEF InOrder
<1> HIDE DEF t
<1>3. ASSUME NEW i \in 1..Len(q), NEW j \in 1..Len(q), i < j PROVE t[q[i]] <= t[q[j]]
  <2>1. CASE i < k
    <3>1. i \in 1..(k - 1) /\ i \in 1..Len(list) /\ q[i] = list[i]
      BY <1>2, <2>1
    <3>2. CASE j < k
      <4>1. j \in 1..(k - 1) /\ j \in 1..Len(list) /\ q[j] = list[j]
        BY <1>2, <3>2
      <4> QED BY <1>3, <3>1, <4>1, <1>00
    <3>3. CASE j = k
      BY <1>2, <3>1, <3>3, <1>00
    <3>4. CASE j > k
      <4>1. j \in (k + 1)..(Len(list) + 1) /\ j - 1 \in 1..Len(list) /\ q[j] = list[j - 1] /\ i < j - 1
        BY <1>2, <2>1, <3>4, SMTT(30)
      <4> QED BY <3>1, <4>1, <1>00
    <3> QED BY <3>2, <3>3, <3>4
  <2>2. CASE i >= k
    <3>0. j \in (k + 1)..(Len(list) + 1)
      BY <1>2, <1>3, <2>2
    <3>1. j - 1 \in k..Len(list) /\ j - 1 \in 1..Len(list) /\ q[j] = list[j - 1]
      BY <1>2, <3>0, SMTT(30)
    <3>2. CASE i = k
      BY <1>2, <3>1, <3>2, <1>00
    <3>3. CASE i > k
      <4>0. i \in (k + 1)..(Len(list) + 1)
        BY <1>2, <1>3, <3>3
      <4>1. i - 1 \in 1..Len(list) /\ q[i] = list[i - 1]
        BY <1>2, <4>0, SMTT(30)
      <4>2. i - 1 < j - 1
        BY <1>3
      <4> QED BY <3>1, <4>1, <4>2, <1>00
    <3> QED BY <2>2, <3>2, <3>3
  <2> QED BY <2>1, <2>2
<1>4. InOrder(q, rec)
  BY <1>0, <1>3 DEF InOrder
<1> QED BY <1>4 DEF q

\* A loop whose steps keep what is good ends with something good.
LEMMA LoopStays ==
  ASSUME NEW n \in Nat, NEW good, NEW k, k[0] \in good[0],
         \A i \in 1..n : k[i - 1] \in good[i - 1] => k[i] \in good[i]
  PROVE  k[n] \in good[n]
<1> DEFINE E == {i \in 0..n : k[i] \in good[i]}
<1>1. 0 \in E
  OBVIOUS
<1>2. \A i \in 1..n : i - 1 \in E => i \in E
  <2>1. \A i \in 1..n : i \in 0..n /\ i - 1 \in 0..n
    OBVIOUS
  <2> QED BY <2>1
<1> HIDE DEF E
<1>3. n \in E
  BY <1>1, <1>2, Induct
<1> QED BY <1>3 DEF E

\* helpserv_page_helper_gone finds a place in the queue, behind the earlier
\* and before the later requests.
LEMMA PlaceIs ==
  ASSUME NEW s, NEW queue \in Seq(Nat), \A i \in 1..Len(queue) : s.rec[queue[i]].opened \in Nat,
         NEW p, s.rec[p].opened \in Nat
  PROVE  LET k == QueuePlace(s, queue, p) IN
         /\ k \in 1..(Len(queue) + 1)
         /\ k = Len(queue) + 1 \/ s.rec[queue[k]].opened >= s.rec[p].opened
         /\ \A j \in 1..(k - 1) : s.rec[queue[j]].opened < s.rec[p].opened
<1> DEFINE Late(k) == k = Len(queue) + 1 \/ s.rec[queue[k]].opened >= s.rec[p].opened
           T == {k \in 1..(Len(queue) + 1) : Late(k)}
           Place(k) == Late(k) /\ \A j \in 1..(k - 1) : s.rec[queue[j]].opened < s.rec[p].opened
<1>1. Len(queue) + 1 \in T /\ T \in SUBSET Nat
  OBVIOUS
<1>2. PICK k \in T : \A j \in T : k <= j
  <2> HIDE DEF T
  <2> QED BY <1>1, LeastOf
<1>3. ASSUME NEW j \in 1..(k - 1) PROVE s.rec[queue[j]].opened < s.rec[p].opened
  <2>1. j \in 1..Len(queue) /\ ~(k <= j)
    OBVIOUS
  <2>2. j \notin T
    BY <1>2, <2>1
  <2>3. ~(s.rec[queue[j]].opened >= s.rec[p].opened)
    BY <2>1, <2>2
  <2> QED BY <2>1, <2>3
<1>4. \E x \in 1..(Len(queue) + 1) : Place(x)
  BY <1>3
<1>5. QueuePlace(s, queue, p) = CHOOSE x \in 1..(Len(queue) + 1) : Place(x)
  BY DEF QueuePlace
<1> HIDE DEF Place
<1>6. QueuePlace(s, queue, p) \in 1..(Len(queue) + 1) /\ Place(QueuePlace(s, queue, p))
  BY <1>4, <1>5
<1> QED BY <1>6 DEF Place

\* The members of a list that are in T are held, each once, by what Only
\* leaves of it.
LEMMA HoldsOnly ==
  ASSUME NEW list, NEW S, Holds(list, S), NEW T
  PROVE  Holds(Only(list, T), S \cap T)
<1> DEFINE n == Len(list)
           Upto(i) == {list[j] : j \in 1..i}
           Put1(l, i) == IF list[i] \in T THEN Append(l, list[i]) ELSE l
           good == [i \in 0..n |-> {l \in Seq(Nat) : Holds(l, Upto(i) \cap T)}]
           do == [i \in 1..n |-> [l \in Seq(Nat) |-> Put1(l, i)]]
           Kept(f) == f = [i \in 0..n |-> IF i = 0 THEN <<>> ELSE Put1(f[i - 1], i)]
           k == CHOOSE f : Kept(f)
<1>1. n \in Nat /\ (\A i \in 1..n : list[i] \in Nat) /\ \A i, j \in 1..n : list[i] = list[j] => i = j
  BY DEF Holds
<1>2. ASSUME NEW i \in 1..n, NEW l \in good[i - 1] PROVE Put1(l, i) \in good[i]
  <2>0. i - 1 \in 0..n /\ i \in 0..n
    BY <1>1
  <2>1. l \in Seq(Nat) /\ Holds(l, Upto(i - 1) \cap T)
    BY <2>0
  <2>2. Upto(i) = Upto(i - 1) \cup {list[i]}
    <3>1. \A j \in 1..i : j \in 1..(i - 1) \/ j = i
      BY <1>1
    <3>2. \A j \in 1..(i - 1) : j \in 1..i
      BY <1>1
    <3>3. i \in 1..i
      BY <1>1
    <3> QED BY <3>1, <3>2, <3>3
  <2>3. list[i] \notin Upto(i - 1)
    <3>1. \A j \in 1..(i - 1) : j \in 1..n /\ j # i
      BY <1>1
    <3> QED BY <1>1, <3>1
  <2> HIDE DEF Upto
  <2>5. CASE list[i] \in T
    <3>1. Holds(Append(l, list[i]), (Upto(i - 1) \cap T) \cup {list[i]})
      BY <1>1, <2>1, <2>3, HoldsAppend
    <3>2. (Upto(i - 1) \cap T) \cup {list[i]} = Upto(i) \cap T
      BY <2>2, <2>5
    <3>3. Append(l, list[i]) \in Seq(Nat)
      BY <1>1, <2>1
    <3> QED BY <2>0, <2>5, <3>1, <3>2, <3>3
  <2>6. CASE list[i] \notin T
    <3>1. Upto(i - 1) \cap T = Upto(i) \cap T
      BY <2>2, <2>6
    <3> QED BY <2>0, <2>1, <2>6, <3>1
  <2> QED BY <2>5, <2>6
<1>3. <<>> \in good[0]
  <2>1. Upto(0) \cap T = {}
    OBVIOUS
  <2>2. 0 \in 0..n
    BY <1>1
  <2> HIDE DEF Upto
  <2> QED BY <2>1, <2>2, HoldsNone
<1>4. \A l \in good[n] : Holds(l, S \cap T)
  <2>1. Upto(n) = S
    BY DEF Holds
  <2>2. n \in 0..n
    BY <1>1
  <2> HIDE DEF Upto
  <2> QED BY <2>1, <2>2
<1>5. Only(list, T) = k[n]
  BY DEF Only
<1>6. \A i \in 1..n : \A l \in good[i - 1] : do[i][l] = Put1(l, i)
  BY <1>1
<1>7. n = Len(list)
  OBVIOUS
<1> HIDE DEF good, do, n, Put1, Upto
<1>8. Loops(n, good, <<>>, do)
  BY <1>1, <1>2, <1>3, <1>6 DEF Loops
<1>9. PICK r : /\ r = [i \in 0..n |-> IF i = 0 THEN <<>> ELSE do[i][r[i - 1]]]
               /\ \A i \in 1..n : r[i - 1] \in good[i - 1] /\ i \in 0..n /\ i - 1 \in 0..n /\ i # 0
  BY <1>8, LoopRuns
<1>10. Kept(r)
  <2>1. \A i \in 0..n : i = 0 \/ i \in 1..n
    BY <1>1
  <2>2. \A i \in 0..n : (IF i = 0 THEN <<>> ELSE do[i][r[i - 1]]) = IF i = 0 THEN <<>> ELSE Put1(r[i - 1], i)
    BY <1>6, <1>9, <2>1
  <2> QED BY <1>7, <1>9, <2>2
<1> HIDE DEF Kept
<1>11. Kept(k)
  BY <1>10
<1> HIDE DEF k
<1>12. k[0] \in good[0] /\ \A i \in 1..n : k[i - 1] \in good[i - 1] => k[i] \in good[i]
  <2>1. 0 \in 0..n
    BY <1>1
  <2>2. k[0] = <<>> /\ \A i \in 1..n : k[i] = Put1(k[i - 1], i)
    BY <1>7, <1>9, <1>11, <2>1 DEF Kept
  <2> QED BY <1>2, <1>3, <2>2
<1>13. k[n] \in good[n]
  BY <1>1, <1>12, LoopStays
<1> QED BY <1>4, <1>5, <1>13

-----------------------------------------------------------------------------
(* Dictionaries, and dictionaries of lists.                                 *)

\* The dictionaries with keys in K and values in V (struct dict).
Dicts(K, V) == UNION {[T -> V] : T \in SUBSET K}

\* A dictionary is a function whose keys and values are of the kinds it is
\* for.
LEMMA DictIs ==
  ASSUME NEW K, NEW V, NEW f
  PROVE  f \in Dicts(K, V) <=> /\ DOMAIN f \subseteq K /\ f = [x \in DOMAIN f |-> f[x]]
                               /\ \A x \in DOMAIN f : f[x] \in V
<1>1. ASSUME f \in Dicts(K, V)
      PROVE  DOMAIN f \subseteq K /\ f = [x \in DOMAIN f |-> f[x]] /\ \A x \in DOMAIN f : f[x] \in V
  <2>1. PICK T \in SUBSET K : f \in [T -> V]
    BY <1>1 DEF Dicts
  <2> QED BY <2>1
<1>2. ASSUME DOMAIN f \subseteq K, f = [x \in DOMAIN f |-> f[x]], \A x \in DOMAIN f : f[x] \in V
      PROVE  f \in Dicts(K, V)
  <2>1. f \in [DOMAIN f -> V]
    BY <1>2
  <2> QED BY <1>2, <2>1 DEF Dicts
<1> QED BY <1>1, <1>2

\* dict_insert keeps a dictionary a dictionary.
LEMMA PutIn ==
  ASSUME NEW K, NEW V, NEW f \in Dicts(K, V), NEW k \in K, NEW v \in V
  PROVE  Put(f, k, v) \in Dicts(K, V)
<1> DEFINE g == Put(f, k, v)
<1>1. DOMAIN f \subseteq K /\ \A x \in DOMAIN f : f[x] \in V
  BY DictIs
<1>2. g = [x \in DOMAIN g |-> g[x]]
  BY DEF Put
<1>3. DOMAIN g = DOMAIN f \cup {k} /\ g[k] = v /\ \A x \in DOMAIN f : x # k => g[x] = f[x]
  BY DEF Put
<1> HIDE DEF g
<1>5. g \in Dicts(K, V)
  <2>1. DOMAIN g \subseteq K
    BY <1>1, <1>3
  <2>2. \A x \in DOMAIN g : g[x] \in V
    BY <1>1, <1>3
  <2> QED BY <1>2, <2>1, <2>2, DictIs
<1> QED BY <1>5 DEF g

\* dict_remove keeps a dictionary a dictionary.
LEMMA DropIn ==
  ASSUME NEW K, NEW V, NEW f \in Dicts(K, V), NEW k
  PROVE  Drop(f, k) \in Dicts(K, V)
<1> DEFINE g == Drop(f, k)
<1>1. DOMAIN f \subseteq K /\ \A x \in DOMAIN f : f[x] \in V
  BY DictIs
<1>2. g = [x \in DOMAIN g |-> g[x]]
  BY DEF Drop
<1>3. DOMAIN g = DOMAIN f \ {k} /\ \A x \in DOMAIN f : x # k => g[x] = f[x]
  BY DEF Drop
<1> HIDE DEF g
<1>5. g \in Dicts(K, V)
  BY <1>1, <1>2, <1>3, DictIs
<1> QED BY <1>5 DEF g

\* Replacing the value of a key that is there is dict_insert.
LEMMA PutExcept ==
  ASSUME NEW K, NEW V, NEW f \in Dicts(K, V), NEW k \in DOMAIN f, NEW v
  PROVE  [f EXCEPT ![k] = v] = Put(f, k, v)
<1>1. f = [x \in DOMAIN f |-> f[x]]
  BY DictIs
<1> QED BY <1>1 DEF Put

\* Under every key of A, f lists what A says.
Lists(f, A) ==
  /\ f \in Dicts(DOMAIN A, Seq(Nat))
  /\ \A k \in DOMAIN A : Holds(Listed(f, k), A[k])

\* A list is replaced; FreeRequest's and the other ways to do it.
Without(f, k, p) == IF Len(f[k]) = 1 THEN Drop(f, k) ELSE Put(f, k, RemoveFirst(f[k], p))

\* When the list of a key is replaced, the index is exact for what the new
\* list holds.
LEMMA ListsPut ==
  ASSUME NEW f, NEW A, Lists(f, A), NEW k \in DOMAIN A, NEW list, NEW S, Holds(list, S)
  PROVE  Lists(Put(f, k, list), [A EXCEPT ![k] = S])
<1> DEFINE g == Put(f, k, list)
           B == [A EXCEPT ![k] = S]
<1>1. list \in Seq(Nat) /\ f \in Dicts(DOMAIN A, Seq(Nat))
  BY DEF Holds, Lists
<1>2. g \in Dicts(DOMAIN A, Seq(Nat))
  <2> DEFINE V == Seq(Nat)
  <2>1. f \in Dicts(DOMAIN A, V) /\ list \in V
    BY <1>1
  <2> HIDE DEF V
  <2>2. g \in Dicts(DOMAIN A, V)
    BY <2>1, PutIn
  <2> QED BY <2>2 DEF V
<1>20. DOMAIN g = DOMAIN f \cup {k} /\ g[k] = list /\ \A x \in DOMAIN f : x # k => g[x] = f[x]
  BY DEF Put
<1>3. DOMAIN B = DOMAIN A /\ B[k] = S /\ \A x \in DOMAIN A : x # k => B[x] = A[x]
  OBVIOUS
<1> HIDE DEF g, B
<1>4. ASSUME NEW x \in DOMAIN A PROVE Holds(Listed(g, x), B[x])
  <2>1. CASE x = k
    BY <1>20, <1>3, <2>1 DEF Listed
  <2>2. CASE x # k
    <3>1. Listed(g, x) = Listed(f, x)
      BY <1>20, <2>2 DEF Listed
    <3> QED BY <1>3, <2>2, <3>1 DEF Lists
  <2> QED BY <2>1, <2>2
<1>5. Lists(g, B)
  BY <1>2, <1>3, <1>4 DEF Lists
<1> QED BY <1>5 DEF g, B

\* When the list of a key is dropped, the index is exact for nothing under
\* that key.
LEMMA ListsDrop ==
  ASSUME NEW f, NEW A, Lists(f, A), NEW k \in DOMAIN A
  PROVE  Lists(Drop(f, k), [A EXCEPT ![k] = {}])
<1> DEFINE g == Drop(f, k)
           B == [A EXCEPT ![k] = {}]
<1>1. f \in Dicts(DOMAIN A, Seq(Nat))
  BY DEF Lists
<1>2. g \in Dicts(DOMAIN A, Seq(Nat))
  BY <1>1, DropIn
<1>20. DOMAIN g = DOMAIN f \ {k} /\ \A x \in DOMAIN f : x # k => g[x] = f[x]
  BY DEF Drop
<1>3. DOMAIN B = DOMAIN A /\ B[k] = {} /\ \A x \in DOMAIN A : x # k => B[x] = A[x]
  OBVIOUS
<1> HIDE DEF g, B
<1>4. ASSUME NEW x \in DOMAIN A PROVE Holds(Listed(g, x), B[x])
  <2>1. CASE x = k
    BY <1>20, <1>3, <2>1, HoldsNone DEF Listed
  <2>2. CASE x # k
    <3>1. Listed(g, x) = Listed(f, x)
      BY <1>20, <2>2 DEF Listed
    <3> QED BY <1>3, <2>2, <3>1 DEF Lists
  <2> QED BY <2>1, <2>2
<1>5. Lists(g, B)
  BY <1>2, <1>3, <1>4 DEF Lists
<1> QED BY <1>5 DEF g, B

\* When a request is added to the list of a key, which is made if it must be,
\* the index is exact for one more.
LEMMA ListsPush ==
  ASSUME NEW f, NEW A, Lists(f, A), NEW k \in DOMAIN A, NEW p \in Nat, p \notin A[k]
  PROVE  Lists(Push(f, k, p), [A EXCEPT ![k] = A[k] \cup {p}])
<1>1. Holds(Append(Listed(f, k), p), A[k] \cup {p})
  BY HoldsAppend DEF Lists
<1> QED BY <1>1, ListsPut DEF Push

\* When a request leaves the list of its key, and when the key goes with the
\* last one as in free_request, the index is exact for one less.
LEMMA ListsLess ==
  ASSUME NEW f, NEW A, Lists(f, A), NEW k \in DOMAIN A, NEW p \in A[k]
  PROVE  /\ k \in DOMAIN f /\ f[k] = Listed(f, k)
         /\ Lists([f EXCEPT ![k] = RemoveFirst(f[k], p)], [A EXCEPT ![k] = A[k] \ {p}])
         /\ Lists(Without(f, k, p), [A EXCEPT ![k] = A[k] \ {p}])
<1>1. Holds(Listed(f, k), A[k]) /\ f \in Dicts(DOMAIN A, Seq(Nat))
  BY DEF Lists
<1>2. k \in DOMAIN f /\ f[k] = Listed(f, k)
  <2>1. ~(A[k] = {})
    OBVIOUS
  <2>2. ~(Listed(f, k) = <<>>)
    BY <1>1, <2>1, HoldsSome
  <2> QED BY <2>2 DEF Listed
<1>3. Holds(RemoveFirst(f[k], p), A[k] \ {p})
  BY <1>1, <1>2, HoldsRemove
<1>4. Lists(Put(f, k, RemoveFirst(f[k], p)), [A EXCEPT ![k] = A[k] \ {p}])
  BY <1>3, ListsPut
<1>5. [f EXCEPT ![k] = RemoveFirst(f[k], p)] = Put(f, k, RemoveFirst(f[k], p))
  BY <1>1, <1>2, PutExcept
<1>6. CASE Len(f[k]) = 1
  <2>1. A[k] \ {p} = {}
    BY <1>1, <1>2, <1>6, HoldsSome
  <2> QED BY <1>2, <1>4, <1>5, <1>6, <2>1, ListsDrop DEF Without
<1>7. CASE Len(f[k]) # 1
  BY <1>2, <1>4, <1>5, <1>7 DEF Without
<1> QED BY <1>6, <1>7

\* SetToSeq lists every member of a finite set once, in an order nothing is
\* said about.
LEMMA SetIsListed ==
  ASSUME NEW S, IsFiniteSet(S)
  PROVE  /\ SetToSeq(S) \in Seq(S) /\ Len(SetToSeq(S)) \in Nat
         /\ \A i \in 1..Len(SetToSeq(S)) : SetToSeq(S)[i] \in S
         /\ \A x \in S : \E i \in 1..Len(SetToSeq(S)) : SetToSeq(S)[i] = x
         /\ \A i, j \in 1..Len(SetToSeq(S)) : SetToSeq(S)[i] = SetToSeq(S)[j] => i = j
<1> DEFINE n == Cardinality(S)
           f == SetToSeq(S)
<1>1. n \in Nat /\ ExistsBijection(1..n, S)
  BY FS_CardinalityType
<1>2. \E g \in [1..n -> S] : IsInjective(g)
  <2>1. PICK g : g \in Bijection(1..n, S)
    BY <1>1 DEF ExistsBijection
  <2> HIDE DEF n
  <2> QED BY <2>1 DEF Bijection, Injection
<1>3. f \in [1..n -> S] /\ IsInjective(f)
  BY <1>2, Zenon DEF SetToSeq
<1> HIDE DEF n, f
<1>4. f \in Seq(S) /\ Len(f) = n
  BY <1>1, <1>3
<1>5. f \in Injection(1..n, S)
  BY <1>3 DEF Injection
<1>6. f \in Surjection(1..n, S)
  <2>1. Cardinality(1..n) = n
    BY <1>1, FS_Interval
  <2> QED BY <1>5, <2>1, FS_Injection DEF n
<1>7. \A x \in S : \E i \in 1..n : f[i] = x
  BY <1>6 DEF Surjection
<1>8. \A i, j \in 1..n : f[i] = f[j] => i = j
  BY <1>3 DEF IsInjective
<1>9. /\ f \in Seq(S) /\ Len(f) \in Nat
      /\ \A i \in 1..Len(f) : f[i] \in S
      /\ \A x \in S : \E i \in 1..Len(f) : f[i] = x
      /\ \A i, j \in 1..Len(f) : f[i] = f[j] => i = j
  BY <1>1, <1>3, <1>4, <1>7, <1>8
<1> QED BY <1>9 DEF f

\* The ids of a bot have ranks 1, 2, ... in their order, each exactly one
\* (dict_foreach).
LEMMA RanksAre ==
  ASSUME NEW ids \in SUBSET Nat, IsFiniteSet(ids)
  PROVE  LET rank(id) == Cardinality({j \in ids : j < id})
             N == Cardinality(ids) IN
         /\ N \in Nat
         /\ \A x, y \in ids : rank(x) = rank(y) => x = y
         /\ \A x \in ids : rank(x) + 1 \in 1..N
         /\ \A i \in 1..N : \E x \in ids : rank(x) = i - 1
<1> DEFINE below(id) == {j \in ids : j < id}
           rank(id) == Cardinality(below(id))
           N == Cardinality(ids)
<1>1. N \in Nat /\ \A x \in ids : IsFiniteSet(below(x)) /\ rank(x) \in Nat
  BY FS_CardinalityType, FS_Subset
<1>2. ASSUME NEW x \in ids PROVE rank(x) + 1 \in 1..N
  <2>1. rank(x) <= N /\ (rank(x) = N => below(x) = ids)
    <3>1. below(x) \in SUBSET ids
      OBVIOUS
    <3> HIDE DEF below
    <3> QED BY <3>1, FS_Subset
  <2>2. x \notin below(x)
    OBVIOUS
  <2> HIDE DEF rank, N, below
  <2> QED BY <1>1, <2>1, <2>2
<1>3. ASSUME NEW x \in ids, NEW y \in ids, x < y PROVE rank(x) < rank(y)
  <2>1. below(x) \in SUBSET below(y) /\ x \in below(y) /\ x \notin below(x)
    <3>1. \A j \in ids : j < x => j < y
      BY <1>3
    <3>2. ~ (x < x)
      OBVIOUS
    <3>3. below(x) \subseteq below(y)
      BY <3>1
    <3>4. x \notin below(x)
      BY <3>2
    <3>5. x \in below(y)
      BY <1>3
    <3> HIDE DEF below
    <3> QED BY <3>3, <3>4, <3>5
  <2>2. rank(x) <= rank(y) /\ (rank(x) = rank(y) => below(x) = below(y))
    <3> HIDE DEF below
    <3> QED BY <1>1, <2>1, FS_Subset
  <2> HIDE DEF rank, below
  <2> QED BY <1>1, <2>1, <2>2
<1>4. \A x, y \in ids : rank(x) = rank(y) => x = y
  <2> HIDE DEF rank
  <2>1. \A x, y \in ids : x < y \/ y < x \/ x = y
    OBVIOUS
  <2>2. \A x, y \in ids : x < y => rank(x) < rank(y)
    BY <1>3
  <2>3. \A x \in ids : rank(x) \in Nat
    BY <1>1
  <2> QED BY <2>1, <2>2, <2>3
<1>5. \A i \in 1..N : \E x \in ids : rank(x) = i - 1
  <2> DEFINE f == [x \in ids |-> rank(x) + 1]
  <2>1. f \in [ids -> 1..N]
    <3> HIDE DEF rank, N
    <3> QED BY <1>2
  <2>2. IsInjective(f)
    <3> HIDE DEF rank
    <3>0. \A x \in ids : rank(x) \in Nat
      BY <1>1
    <3>1. \A x, y \in ids : rank(x) + 1 = rank(y) + 1 => x = y
      BY <3>0, <1>4
    <3> QED BY <3>1 DEF IsInjective
  <2>3. Cardinality(1..N) = N /\ IsFiniteSet(1..N)
    <3> HIDE DEF N
    <3> QED BY <1>1, FS_Interval
  <2>4. f \in Surjection(ids, 1..N)
    <3>1. f \in Injection(ids, 1..N)
      BY <2>1, <2>2 DEF Injection
    <3> HIDE DEF f
    <3> QED BY <2>3, <3>1, FS_Injection
  <2>5. ASSUME NEW i \in 1..N PROVE \E x \in ids : rank(x) = i - 1
    <3>1. PICK x \in ids : f[x] = i
      <4> HIDE DEF f, N
      <4> QED BY <2>4 DEF Surjection
    <3>2. rank(x) + 1 = i
      BY <3>1
    <3>3. rank(x) \in Nat
      BY <1>1
    <3> HIDE DEF rank
    <3> QED BY <3>2, <3>3
  <2> QED BY <2>5
<1> HIDE DEF N
<1> QED BY <1>1, <1>2, <1>4, <1>5 DEF N

-----------------------------------------------------------------------------
(* What is kept about the requests.                                         *)

\* What HelpServ can see of the network and of NickServ.
Nets == [nick : [Users -> Optional(Nicks)], name : [Handles -> Optional(Names)],
         acct : [Users -> Optional(Handles)], on : [Users -> SUBSET Bots]]

\* The requests there are, by a number that is never used again.
Records == Dicts(Nat, Requests)

\* Everything HelpServ keeps, by its types.
Tables == [rec : Records, requests : [Bots -> Dicts(Nat, Nat)], unhandled : [Bots -> Seq(Nat)],
           bynick : Dicts(Nicks, Seq(Nat)), byhand : Dicts(Names, Seq(Nat)),
           staff : [Bots -> Dicts(Names, HlTrial..HlOwner)], last : [Bots -> Nat],
           opt : [Bots -> Options], empty : [Bots -> BOOLEAN], timer : [Bots -> Nat],
           up : SUBSET Bots, made : Nat, now : Nat]

\* hs->requests of b has the requests of b under their ids.
Tabled(s, b) ==
  /\ IsFiniteSet(DOMAIN s.requests[b])
  /\ \A id \in DOMAIN s.requests[b] : s.requests[b][id] \in RequestsAt(s, b) /\ s.rec[s.requests[b][id]].id = id
  /\ \A p \in RequestsAt(s, b) : s.rec[p].id \in DOMAIN s.requests[b] /\ s.requests[b][s.rec[p].id] = p

\* dict_foreach over hs->requests meets every request of the bot once.
LEMMA ByIdHolds ==
  ASSUME NEW s \in Tables, NEW b \in Bots, Tabled(s, b)
  PROVE  Holds(ById(s, b), RequestsAt(s, b))
<1> DEFINE f == s.requests[b]
           ids == DOMAIN f
           rank(id) == Cardinality({j \in ids : j < id})
           N == Cardinality(ids)
           Nth(i) == CHOOSE id \in ids : rank(id) = i - 1
           list == [i \in 1..N |-> f[Nth(i)]]
<1>1. ids \in SUBSET Nat /\ IsFiniteSet(ids) /\ RequestsAt(s, b) \subseteq Nat
  <2>1. f \in Dicts(Nat, Nat) /\ s.rec \in Dicts(Nat, Requests)
    BY DEF Tables, Records
  <2>2. DOMAIN f \subseteq Nat
    BY <2>1, DictIs
  <2>3. DOMAIN s.rec \subseteq Nat
    BY <2>1, DictIs
  <2> QED BY <2>2, <2>3 DEF Tabled, RequestsAt
<1>2. ById(s, b) = list
  BY DEF ById
<1>3. /\ N \in Nat
      /\ \A x, y \in ids : rank(x) = rank(y) => x = y
      /\ \A x \in ids : rank(x) + 1 \in 1..N
      /\ \A i \in 1..N : \E x \in ids : rank(x) = i - 1
  <2> HIDE DEF ids
  <2> QED BY <1>1, RanksAre
<1>4. \A x \in ids : rank(x) \in Nat
  BY <1>1, FS_Subset, FS_CardinalityType
<1>5. /\ \A id \in ids : f[id] \in RequestsAt(s, b) /\ s.rec[f[id]].id = id
      /\ \A p \in RequestsAt(s, b) : s.rec[p].id \in ids /\ f[s.rec[p].id] = p
  BY DEF Tabled
<1> HIDE DEF rank, N, f
<1>6. ASSUME NEW i \in 1..N PROVE Nth(i) \in ids /\ rank(Nth(i)) = i - 1
  BY <1>3
<1> HIDE DEF Nth, ids
<1>7. list \in Seq(Nat) /\ Len(list) = N /\ \A i \in 1..N : list[i] = f[Nth(i)]
  <2>1. \A i \in 1..N : f[Nth(i)] \in Nat
    BY <1>1, <1>5, <1>6
  <2> QED BY <1>3, <2>1
<1>8. \A p \in RequestsAt(s, b) : \E i \in 1..N : list[i] = p
  <2> SUFFICES ASSUME NEW p \in RequestsAt(s, b) PROVE \E i \in 1..N : list[i] = p
    OBVIOUS
  <2>1. s.rec[p].id \in ids /\ f[s.rec[p].id] = p
    BY <1>5
  <2> DEFINE id == s.rec[p].id
             i == rank(id) + 1
  <2>2. i \in 1..N /\ i - 1 = rank(id)
    BY <1>3, <1>4, <2>1
  <2>3. rank(Nth(i)) = rank(id) /\ Nth(i) \in ids
    BY <1>6, <2>2
  <2>4. Nth(i) = id
    BY <1>3, <2>1, <2>3
  <2> HIDE DEF i
  <2> QED BY <1>7, <2>1, <2>2, <2>4
<1>9. \A i, j \in 1..N : list[i] = list[j] => i = j
  <2> SUFFICES ASSUME NEW i \in 1..N, NEW j \in 1..N, list[i] = list[j] PROVE i = j
    OBVIOUS
  <2>1. f[Nth(i)] = f[Nth(j)]
    BY <1>7
  <2>2. Nth(i) = Nth(j)
    BY <1>5, <1>6, <2>1
  <2>3. i - 1 = j - 1
    BY <1>6, <2>2
  <2> QED BY <1>3, <2>3
<1> HIDE DEF list
<1>10. Holds(list, RequestsAt(s, b))
  BY <1>5, <1>6, <1>7, <1>8, <1>9 DEF Holds
<1> QED BY <1>2, <1>10

\* A list has what it holds once and nothing else.
LEMMA OccursOnce ==
  ASSUME NEW list, NEW S, Holds(list, S), NEW p
  PROVE  Occurs(list, p) = IF p \in S THEN 1 ELSE 0
<1> DEFINE I == {i \in DOMAIN list : list[i] = p}
<1>1. DOMAIN list = 1..Len(list)
  BY DEF Holds
<1>2. Occurs(list, p) = Cardinality(I)
  BY DEF Occurs
<1>3. CASE p \in S
  <2>1. PICK i \in 1..Len(list) : list[i] = p
    BY <1>3 DEF Holds
  <2>2. I = {i}
    BY <1>1, <2>1 DEF Holds
  <2> QED BY <1>2, <1>3, <2>2, FS_Singleton
<1>4. CASE p \notin S
  <2>1. I = {}
    BY <1>1, <1>4 DEF Holds
  <2> QED BY <1>2, <1>4, <2>1, FS_EmptySet
<1> QED BY <1>3, <1>4

\* smart_get_request and its siblings name a request of the list they search.
LEMMA RecentIs ==
  ASSUME NEW s, NEW list, NEW S, Holds(list, S), S # {}, s.now \in Nat,
         \A p \in S : s.rec[p].opened \in 0..s.now
  PROVE  MostRecent(s, list) \in S
<1> DEFINE o == [p \in S |-> s.rec[p].opened]
           now == s.now
           T == {d \in 0..now : \E i \in 1..Len(list) : o[list[i]] = now - d}
<1>0. /\ list # <<>> /\ Len(list) \in Nat /\ DOMAIN list = 1..Len(list) /\ 1 \in 1..Len(list)
      /\ \A i \in 1..Len(list) : list[i] \in S
  BY HoldsSome DEF Holds
<1>1. now \in Nat /\ \A p \in S : o[p] = s.rec[p].opened /\ o[p] \in 0..now
  OBVIOUS
<1> HIDE DEF o, now
<1>2. T # {} /\ T \in SUBSET Nat
  <2>1. now - o[list[1]] \in 0..now /\ o[list[1]] = now - (now - o[list[1]])
    BY <1>0, <1>1
  <2> QED BY <1>0, <2>1
<1>3. PICK d \in T : \A e \in T : d <= e
  <2> HIDE DEF T
  <2> QED BY <1>2, LeastOf
<1> DEFINE J == {i \in 1..Len(list) : o[list[i]] = now - d}
<1>4. J # {} /\ J \in SUBSET Nat
  BY <1>0, <1>3
<1>5. PICK i \in J : \A j \in J : i <= j
  <2> HIDE DEF J
  <2> QED BY <1>4, LeastOf
<1>6. ASSUME NEW j \in 1..Len(list)
      PROVE  o[list[j]] < o[list[i]] \/ (o[list[j]] = o[list[i]] /\ j >= i)
  <2>1. now - o[list[j]] \in 0..now /\ o[list[j]] = now - (now - o[list[j]])
    BY <1>0, <1>1
  <2>2. now - o[list[j]] \in T
    BY <2>1
  <2>3. d <= now - o[list[j]] /\ d \in 0..now
    BY <1>3, <2>2
  <2>4. o[list[i]] = now - d
    BY <1>5
  <2>5. o[list[j]] = now - d => j \in J
    OBVIOUS
  <2>6. o[list[j]] \in 0..now /\ i \in 1..Len(list)
    BY <1>0, <1>1
  <2> HIDE DEF J, T
  <2> QED BY <1>0, <1>1, <1>5, <2>3, <2>4, <2>5, <2>6
<1> DEFINE newer == {x \in DOMAIN list : \A j \in DOMAIN list :
                       \/ s.rec[list[j]].opened < s.rec[list[x]].opened
                       \/ s.rec[list[j]].opened = s.rec[list[x]].opened /\ j >= x}
<1>7. i \in newer
  <2>1. i \in 1..Len(list)
    OBVIOUS
  <2> HIDE DEF J
  <2> QED BY <1>0, <1>1, <1>6, <2>1
<1>8. MostRecent(s, list) = list[CHOOSE x \in newer : TRUE]
  BY <1>0 DEF MostRecent
<1>9. (CHOOSE x \in newer : TRUE) \in 1..Len(list)
  <2>1. newer \subseteq 1..Len(list)
    BY <1>0
  <2> HIDE DEF newer
  <2> QED BY <1>7, <2>1
<1> QED BY <1>0, <1>8, <1>9

\* The requests of b that nobody has taken.
Waiting(rec, b) == {p \in DOMAIN rec : rec[p].hs = b /\ rec[p].helper = NULL}
\* The queue of b has what waits, in the order of opening.
InLine(s, b) == Holds(s.unhandled[b], Waiting(s.rec, b)) /\ InOrder(s.unhandled[b], s.rec)

\* Requests are numbered and dated by now, and belong to a bot that exists.
Sane(s) ==
  \A p \in DOMAIN s.rec : p \in 1..s.made /\ s.rec[p].opened \in 0..s.now /\ s.rec[p].hs \in s.up

\* What does not depend on users and accounts, the tables of the bots in B only.
Core(s, B) ==
  /\ s \in Tables /\ Sane(s)
  /\ \A b \in Bots : InLine(s, b)
  /\ \A b \in B : Tabled(s, b)

\* The requests of a nick, and of the name of an account.
AtNick(nick, rec, k) == {p \in DOMAIN rec : rec[p].user # NULL /\ nick[rec[p].user] = k}
AtName(name, rec, k) == {p \in DOMAIN rec : rec[p].handle # NULL /\ name[rec[p].handle] = k}
ByNick(nick, rec) == [k \in Nicks |-> AtNick(nick, rec, k)]
ByName(name, rec) == [k \in Names |-> AtName(name, rec, k)]

\* The user and the account of a request exist, and it has one of the two.
Tied(n, rec) ==
  \A p \in DOMAIN rec : /\ rec[p].user # NULL => n.nick[rec[p].user] # NULL
                        /\ rec[p].handle # NULL => n.name[rec[p].handle] # NULL
                        /\ rec[p].user # NULL \/ rec[p].handle # NULL

\* Every request is where it belongs.
Filed(n, s) ==
  /\ Core(s, Bots) /\ Tied(n, s.rec)
  /\ Lists(s.bynick, ByNick(n.nick, s.rec)) /\ Lists(s.byhand, ByName(n.name, s.rec))

\* The types of the parts of what HelpServ keeps.
LEMMA TablesAre ==
  ASSUME NEW s \in Tables
  PROVE  /\ s.rec \in Records /\ DOMAIN s.rec \subseteq Nat /\ \A p \in DOMAIN s.rec : s.rec[p] \in Requests
         /\ s.made \in Nat /\ s.now \in Nat /\ s.up \subseteq Bots
         /\ s.unhandled \in [Bots -> Seq(Nat)] /\ s.requests \in [Bots -> Dicts(Nat, Nat)]
         /\ s.opt \in [Bots -> Options]
<1>1. s.rec \in Dicts(Nat, Requests)
  BY DEF Tables, Records
<1>2. DOMAIN s.rec \subseteq Nat /\ \A p \in DOMAIN s.rec : s.rec[p] \in Requests
  BY <1>1, DictIs
<1> QED BY <1>2 DEF Tables

\* The types of the fields of a request.
LEMMA RequestIs ==
  ASSUME NEW s \in Tables, NEW p \in DOMAIN s.rec
  PROVE  /\ s.rec[p] \in Requests /\ p \in Nat
         /\ s.rec[p].hs \in Bots /\ s.rec[p].id \in Nat /\ s.rec[p].opened \in Nat
         /\ s.rec[p].user \in Optional(Users) /\ s.rec[p].handle \in Optional(Handles)
         /\ s.rec[p].helper \in Optional(Handles)
BY TablesAre DEF Requests, Optional

\* The users and accounts of requests change, nothing else about them.
SameCore(s, t) ==
  /\ DOMAIN t.rec = DOMAIN s.rec
  /\ \A p \in DOMAIN s.rec : /\ t.rec[p].hs = s.rec[p].hs /\ t.rec[p].id = s.rec[p].id
                             /\ t.rec[p].helper = s.rec[p].helper /\ t.rec[p].opened = s.rec[p].opened
  /\ t.requests = s.requests /\ t.unhandled = s.unhandled
  /\ t.made = s.made /\ t.now = s.now /\ t.up = s.up

\* What changes only the users and accounts of requests keeps queues and
\* tables exact.
LEMMA CoreKept ==
  ASSUME NEW s, NEW B, Core(s, B), NEW t \in Tables, SameCore(s, t)
  PROVE  Core(t, B)
<1>1. Sane(t)
  BY DEF Core, Sane, SameCore
<1>2. ASSUME NEW b \in Bots PROVE InLine(t, b)
  <2>1. Waiting(t.rec, b) = Waiting(s.rec, b)
    BY DEF SameCore, Waiting
  <2>2. Holds(s.unhandled[b], Waiting(s.rec, b)) /\ InOrder(s.unhandled[b], s.rec) /\ t.unhandled[b] = s.unhandled[b]
    BY DEF Core, InLine, SameCore
  <2>3. InOrder(s.unhandled[b], t.rec)
    <3>1. \A i \in 1..Len(s.unhandled[b]) : s.unhandled[b][i] \in DOMAIN s.rec
      BY <2>2 DEF Holds, Waiting
    <3>2. \A i \in 1..Len(s.unhandled[b]) : t.rec[s.unhandled[b][i]].opened = s.rec[s.unhandled[b][i]].opened
      BY <3>1 DEF SameCore
    <3> QED BY <2>2, <3>2 DEF InOrder
  <2> QED BY <2>1, <2>2, <2>3 DEF InLine
<1>3. ASSUME NEW b \in B PROVE Tabled(t, b)
  <2>1. RequestsAt(t, b) = RequestsAt(s, b)
    BY DEF SameCore, RequestsAt
  <2>2. \A p \in RequestsAt(s, b) : t.rec[p].id = s.rec[p].id
    BY DEF SameCore, RequestsAt
  <2>3. t.requests[b] = s.requests[b]
    BY DEF SameCore
  <2> QED BY <2>1, <2>2, <2>3 DEF Core, Tabled
<1> QED BY <1>1, <1>2, <1>3 DEF Core

-----------------------------------------------------------------------------
(* The queue.                                                               *)

\* helpserv_page_helper_gone clears the helper and puts the request into the
\* queue of its bot.
LEMMA GoneIs ==
  ASSUME NEW s, NEW p
  PROVE  LET t == HelperGone(s, p)
             b == s.rec[p].hs IN
         s.rec[p].helper # NULL =>
         t = [s EXCEPT !.rec = [s.rec EXCEPT ![p] = [s.rec[p] EXCEPT !.helper = NULL]],
                       !.unhandled = [s.unhandled EXCEPT ![b] =
                          InsertAt(s.unhandled[b], QueuePlace(s, s.unhandled[b], p), p)]]
BY DEF HelperGone

\* Helpers and queues change, nothing else.
QueueOnly(s, t) ==
  /\ DOMAIN t.rec = DOMAIN s.rec
  /\ \A p \in DOMAIN s.rec : /\ t.rec[p].hs = s.rec[p].hs /\ t.rec[p].id = s.rec[p].id
                             /\ t.rec[p].user = s.rec[p].user /\ t.rec[p].handle = s.rec[p].handle
                             /\ t.rec[p].opened = s.rec[p].opened
  /\ t.bynick = s.bynick /\ t.byhand = s.byhand /\ t.requests = s.requests
  /\ t.staff = s.staff /\ t.opt = s.opt /\ t.up = s.up /\ t.made = s.made /\ t.now = s.now

\* No request gets a helper it did not have.
NoNewHelper(s, t) == \A p \in DOMAIN s.rec : t.rec[p].helper \in {NULL, s.rec[p].helper}

\* Two changes of queues and helpers make one.
LEMMA QueueOnlyTwice ==
  ASSUME NEW s, NEW t, NEW v, QueueOnly(s, t), QueueOnly(t, v)
  PROVE  QueueOnly(s, v) /\ (NoNewHelper(s, t) /\ NoNewHelper(t, v) => NoNewHelper(s, v))
BY DEF QueueOnly, NoNewHelper

\* When one request and its bot's queue change together, queues and tables
\* stay exact.
LEMMA CoreQueued ==
  ASSUME NEW s, NEW B, Core(s, B), NEW t \in Tables, QueueOnly(s, t),
         NEW p \in DOMAIN s.rec,
         \A q \in DOMAIN s.rec : q # p => t.rec[q].helper = s.rec[q].helper,
         \A b \in Bots : b # s.rec[p].hs => t.unhandled[b] = s.unhandled[b],
         InLine(t, s.rec[p].hs)
  PROVE  Core(t, B)
<1>1. Sane(t)
  BY DEF Core, Sane, QueueOnly
<1>2. ASSUME NEW b \in Bots, b # s.rec[p].hs PROVE InLine(t, b)
  <2>1. Waiting(t.rec, b) = Waiting(s.rec, b)
    BY <1>2 DEF QueueOnly, Waiting
  <2>2. Holds(s.unhandled[b], Waiting(s.rec, b)) /\ InOrder(s.unhandled[b], s.rec) /\ t.unhandled[b] = s.unhandled[b]
    BY <1>2 DEF Core, InLine
  <2>3. InOrder(s.unhandled[b], t.rec)
    <3>1. \A i \in 1..Len(s.unhandled[b]) : s.unhandled[b][i] \in DOMAIN s.rec
      BY <2>2 DEF Holds, Waiting
    <3>2. \A i \in 1..Len(s.unhandled[b]) : t.rec[s.unhandled[b][i]].opened = s.rec[s.unhandled[b][i]].opened
      BY <3>1 DEF QueueOnly
    <3> QED BY <2>2, <3>2 DEF InOrder
  <2> QED BY <2>1, <2>2, <2>3 DEF InLine
<1>3. ASSUME NEW b \in B PROVE Tabled(t, b)
  <2>1. RequestsAt(t, b) = RequestsAt(s, b)
    BY DEF QueueOnly, RequestsAt
  <2>2. \A q \in RequestsAt(s, b) : t.rec[q].id = s.rec[q].id
    BY DEF QueueOnly, RequestsAt
  <2>3. t.requests[b] = s.requests[b]
    BY DEF QueueOnly
  <2> QED BY <2>1, <2>2, <2>3 DEF Core, Tabled
<1> QED BY <1>1, <1>2, <1>3 DEF Core

\* helpserv_page_helper_gone keeps queues and tables exact, and the request
\* has no helper after it.
LEMMA GoneKeeps ==
  ASSUME NEW s, NEW B, Core(s, B), NEW p \in DOMAIN s.rec
  PROVE  LET t == HelperGone(s, p) IN
         /\ Core(t, B) /\ QueueOnly(s, t) /\ NoNewHelper(s, t) /\ t.rec[p].helper = NULL
<1>1. CASE s.rec[p].helper = NULL
  BY <1>1 DEF HelperGone, QueueOnly, NoNewHelper
<1>2. CASE s.rec[p].helper # NULL
  <2> DEFINE b == s.rec[p].hs
             old == s.unhandled[b]
             k == QueuePlace(s, old, p)
             queue == InsertAt(old, k, p)
             r == [s.rec[p] EXCEPT !.helper = NULL]
             t == [s EXCEPT !.rec = [s.rec EXCEPT ![p] = r], !.unhandled = [s.unhandled EXCEPT ![b] = queue]]
  <2>1. HelperGone(s, p) = t
    BY <1>2, GoneIs, Zenon
  <2>2. s \in Tables /\ s.rec[p] \in Requests /\ p \in Nat /\ b \in Bots /\ s.rec[p].opened \in Nat
    BY RequestIs DEF Core
  <2>3. Holds(old, Waiting(s.rec, b)) /\ InOrder(old, s.rec) /\ old \in Seq(Nat)
    BY <2>2 DEF Core, InLine, Holds
  <2>4. \A q \in Waiting(s.rec, b) : q \in DOMAIN s.rec /\ s.rec[q].opened \in Nat /\ q # p
    BY <1>2, <2>2, RequestIs DEF Waiting
  <2>5. \A i \in 1..Len(old) : s.rec[old[i]].opened \in Nat
    BY <2>3, <2>4 DEF Holds
  <2>6. /\ k \in 1..(Len(old) + 1)
        /\ k = Len(old) + 1 \/ s.rec[old[k]].opened >= s.rec[p].opened
        /\ \A j \in 1..(k - 1) : s.rec[old[j]].opened < s.rec[p].opened
    BY <2>2, <2>3, <2>5, PlaceIs
  <2> HIDE DEF k, old
  <2>7. Holds(queue, Waiting(s.rec, b) \cup {p})
    BY <2>2, <2>3, <2>4, <2>6, HoldsInsert
  <2>8. InOrder(queue, s.rec)
    <3>0. Len(old) \in Nat
      BY <2>3
    <3>1. \A i \in 1..(k - 1) : s.rec[old[i]].opened <= s.rec[p].opened
      <4>1. \A i \in 1..(k - 1) : i \in 1..Len(old)
        BY <2>6, <3>0
      <4> QED BY <2>2, <2>5, <2>6, <4>1
    <3>2. \A i \in k..Len(old) : s.rec[p].opened <= s.rec[old[i]].opened
      <4> SUFFICES ASSUME NEW i \in k..Len(old) PROVE s.rec[p].opened <= s.rec[old[i]].opened
        OBVIOUS
      <4>1. i \in 1..Len(old) /\ k \in 1..Len(old) /\ k # Len(old) + 1 /\ (k = i \/ k < i)
        BY <2>6, <3>0
      <4>2. s.rec[old[k]].opened >= s.rec[p].opened /\ s.rec[old[k]].opened \in Nat /\ s.rec[old[i]].opened \in Nat
        BY <2>5, <2>6, <4>1
      <4>3. s.rec[old[k]].opened <= s.rec[old[i]].opened
        BY <2>3, <4>1, <4>2 DEF InOrder
      <4> QED BY <2>2, <4>2, <4>3
    <3> QED BY <2>2, <2>3, <2>6, <3>1, <3>2, OrderInsert
  <2> HIDE DEF queue
  <2>9. queue \in Seq(Nat)
    BY <2>7 DEF Holds
  <2>10. r \in Requests /\ r.helper = NULL /\ r.hs = b /\ r.id = s.rec[p].id /\ r.user = s.rec[p].user
         /\ r.handle = s.rec[p].handle /\ r.opened = s.rec[p].opened
    BY <2>2 DEF Requests
  <2> HIDE DEF r
  <2>11. s.rec \in Records /\ s.unhandled \in [Bots -> Seq(Nat)]
    BY <2>2, TablesAre
  <2>12. [s.rec EXCEPT ![p] = r] \in Records
    <3>1. DOMAIN s.rec \subseteq Nat /\ \A q \in DOMAIN s.rec : s.rec[q] \in Requests
      BY <2>2, TablesAre
    <3> DEFINE f == [s.rec EXCEPT ![p] = r]
    <3>2. DOMAIN f \subseteq Nat /\ f = [q \in DOMAIN f |-> f[q]] /\ \A q \in DOMAIN f : f[q] \in Requests
      BY <2>10, <3>1
    <3> HIDE DEF f
    <3>3. f \in Records
      BY <3>2, DictIs DEF Records
    <3> QED BY <3>3 DEF f
  <2>13. [s.unhandled EXCEPT ![b] = queue] \in [Bots -> Seq(Nat)]
    BY <2>9, <2>11
  <2>14. /\ t.rec = [s.rec EXCEPT ![p] = r] /\ t.unhandled = [s.unhandled EXCEPT ![b] = queue]
         /\ t.bynick = s.bynick /\ t.byhand = s.byhand /\ t.requests = s.requests
         /\ t.staff = s.staff /\ t.opt = s.opt /\ t.up = s.up /\ t.made = s.made /\ t.now = s.now
    BY <2>2 DEF Tables
  <2>15. t \in Tables
    BY <2>2, <2>12, <2>13 DEF Tables
  <2> HIDE DEF t, b
  <2>16. /\ DOMAIN t.rec = DOMAIN s.rec /\ t.rec[p] = r /\ \A q \in DOMAIN s.rec : q # p => t.rec[q] = s.rec[q]
    BY <2>14
  <2>17. QueueOnly(s, t) /\ NoNewHelper(s, t) /\ t.rec[p].helper = NULL
    BY <2>10, <2>14, <2>16 DEF QueueOnly, NoNewHelper, b
  <2>18. InLine(t, b)
    <3>1. Waiting(t.rec, b) = Waiting(s.rec, b) \cup {p}
      BY <2>10, <2>16, <2>4 DEF Waiting
    <3>2. t.unhandled[b] = queue
      BY <2>2, <2>11, <2>14
    <3>3. InOrder(queue, t.rec)
      <4>1. \A i \in 1..Len(queue) : queue[i] \in DOMAIN s.rec
        BY <2>4, <2>7 DEF Holds
      <4>2. \A i \in 1..Len(queue) : t.rec[queue[i]].opened = s.rec[queue[i]].opened
        BY <4>1, <2>17 DEF QueueOnly
      <4> QED BY <2>8, <4>2 DEF InOrder
    <3> QED BY <2>7, <3>1, <3>2, <3>3 DEF InLine
  <2>19. Core(t, B)
    <3>1. \A q \in DOMAIN s.rec : q # p => t.rec[q].helper = s.rec[q].helper
      BY <2>16
    <3>2. \A c \in Bots : c # s.rec[p].hs => t.unhandled[c] = s.unhandled[c]
      BY <2>11, <2>14 DEF b
    <3> QED BY <2>15, <2>17, <2>18, <3>1, <3>2, CoreQueued DEF b
  <2> QED BY <2>1, <2>17, <2>19 DEF t
<1> QED BY <1>1, <1>2

\* helpserv_page_helper_gone for every request of a bot that h helps with
\* keeps queues and tables exact, and leaves h none of them.
LEMMA UnassignKeeps ==
  ASSUME NEW s, NEW B, Core(s, B), NEW b \in B, NEW h, h # NULL, B \subseteq Bots
  PROVE  LET t == Unassign(s, b, h) IN
         /\ Core(t, B) /\ QueueOnly(s, t) /\ NoNewHelper(s, t)
         /\ \A p \in RequestsAt(s, b) : t.rec[p].helper # h
<1> DEFINE list == ById(s, b)
           n == Len(list)
           Do(t, p) == IF t.rec[p].helper = h THEN HelperGone(t, p) ELSE t
           Good(i, t) == /\ Core(t, B) /\ QueueOnly(s, t) /\ NoNewHelper(s, t)
                         /\ \A j \in 1..i : t.rec[list[j]].helper # h
           good == [i \in 0..n |-> {t \in Tables : Good(i, t)}]
           do == [i \in 1..n |-> [t \in good[i - 1] |-> Do(t, list[i])]]
           Run(f) == f = [i \in 0..Len(list) |-> IF i = 0 THEN s ELSE Do(f[i - 1], list[i])]
           k == CHOOSE f : Run(f)
<1>1. Holds(list, RequestsAt(s, b)) /\ n \in Nat /\ \A i \in 1..n : list[i] \in DOMAIN s.rec
  <2>1. Holds(list, RequestsAt(s, b))
    BY ByIdHolds DEF Core
  <2> HIDE DEF list
  <2> QED BY <2>1 DEF Holds, RequestsAt
<1>2. ASSUME NEW i \in 1..n, NEW t \in good[i - 1] PROVE Do(t, list[i]) \in good[i]
  <2>0. i - 1 \in 0..n /\ i \in 0..n /\ list[i] \in DOMAIN s.rec /\ \A j \in 1..i : j \in 1..(i - 1) \/ j = i
    BY <1>1
  <2>1. Good(i - 1, t)
    BY <2>0
  <2> DEFINE v == Do(t, list[i])
             p == list[i]
  <2>2. list[i] \in DOMAIN t.rec
    BY <2>0, <2>1 DEF QueueOnly
  <2> HIDE DEF list, n
  <2>3. Core(v, B) /\ QueueOnly(t, v) /\ NoNewHelper(t, v) /\ v.rec[list[i]].helper # h
    <3>1. CASE t.rec[list[i]].helper = h
      <4>1. v = HelperGone(t, list[i])
        BY <3>1
      <4> QED BY <2>1, <2>2, <4>1, GoneKeeps
    <3>2. CASE t.rec[list[i]].helper # h
      <4>1. v = t
        BY <3>2
      <4> QED BY <2>1, <3>2, <4>1 DEF QueueOnly, NoNewHelper
    <3> QED BY <3>1, <3>2
  <2> HIDE DEF v
  <2>4. QueueOnly(s, v) /\ NoNewHelper(s, v)
    BY <2>1, <2>3, QueueOnlyTwice
  <2>5. ASSUME NEW j \in 1..i PROVE v.rec[list[j]].helper # h
    <3>1. CASE j = i
      BY <2>3, <3>1
    <3>2. CASE j \in 1..(i - 1)
      <4>1. t.rec[list[j]].helper # h
        BY <2>1, <3>2
      <4>2. j \in 1..n
        BY <1>1, <2>0, <3>2
      <4>3. list[j] \in DOMAIN t.rec
        BY <1>1, <2>1, <4>2 DEF QueueOnly
      <4> QED BY <2>3, <4>1, <4>3 DEF NoNewHelper
    <3> QED BY <2>0, <3>1, <3>2
  <2>6. v \in Tables
    BY <2>3 DEF Core
  <2>7. v \in good[i]
    BY <2>0, <2>3, <2>4, <2>5, <2>6
  <2> QED BY <2>7 DEF v
<1>3. s \in good[0]
  <2>1. s \in Tables /\ QueueOnly(s, s) /\ NoNewHelper(s, s)
    BY DEF Core, QueueOnly, NoNewHelper
  <2>2. 0 \in 0..n /\ \A j \in 1..0 : FALSE
    BY <1>1
  <2> HIDE DEF n
  <2> QED BY <2>1, <2>2
<1>4. \A t \in good[n] : Good(n, t)
  <2>1. n \in 0..n
    BY <1>1
  <2> HIDE DEF n, Good
  <2> QED BY <2>1
<1>5. Unassign(s, b, h) = k[n]
  BY DEF Unassign, Each
<1>6. \A i \in 1..n : \A t \in good[i - 1] : do[i][t] = Do(t, list[i])
  <2> HIDE DEF good, n, Do
  <2> QED OBVIOUS
<1>7. n = Len(list)
  OBVIOUS
<1> HIDE DEF good, do, n, Do, list
<1>8. Loops(n, good, s, do)
  BY <1>1, <1>2, <1>3, <1>6 DEF Loops
<1>9. PICK r : /\ r = [i \in 0..n |-> IF i = 0 THEN s ELSE do[i][r[i - 1]]]
               /\ \A i \in 1..n : r[i - 1] \in good[i - 1] /\ i \in 0..n /\ i - 1 \in 0..n /\ i # 0
  BY <1>8, LoopRuns
<1>10. Run(r)
  <2>1. \A i \in 0..n : i = 0 \/ i \in 1..n
    BY <1>1
  <2>2. \A i \in 0..n : (IF i = 0 THEN s ELSE do[i][r[i - 1]]) = IF i = 0 THEN s ELSE Do(r[i - 1], list[i])
    BY <1>6, <1>9, <2>1
  <2> QED BY <1>7, <1>9, <2>2
<1> HIDE DEF Run
<1>11. Run(k)
  BY <1>10
<1> HIDE DEF k
<1>12. k[0] \in good[0] /\ \A i \in 1..n : k[i - 1] \in good[i - 1] => k[i] \in good[i]
  <2>1. 0 \in 0..n
    BY <1>1
  <2>2. k[0] = s /\ \A i \in 1..n : k[i] = Do(k[i - 1], list[i])
    BY <1>7, <1>9, <1>11, <2>1 DEF Run
  <2> QED BY <1>2, <1>3, <2>2
<1>13. k[n] \in good[n]
  BY <1>1, <1>12, LoopStays
<1>14. Good(n, Unassign(s, b, h))
  BY <1>4, <1>5, <1>13
<1>15. ASSUME NEW p \in RequestsAt(s, b) PROVE Unassign(s, b, h).rec[p].helper # h
  <2>1. PICK i \in 1..n : list[i] = p
    BY <1>1, <1>7 DEF Holds
  <2> QED BY <1>14, <2>1
<1> QED BY <1>14, <1>15

\* Requests belong to the account of their user; their helpers are staff.
Followed(n, rec) == \A p \in DOMAIN rec : rec[p].user # NULL => rec[p].handle = n.acct[rec[p].user]
\* The helper of a request is on the staff of its bot.
Staffed(n, s) == \A p \in DOMAIN s.rec : s.rec[p].helper # NULL => Level(n, s, s.rec[p].hs, s.rec[p].helper) > 0

\* Nicks and names are unique; who has an account is online, and the account exists.
NetOk(n) ==
  /\ n \in Nets
  /\ \A u, v \in Users : n.nick[u] # NULL /\ n.nick[u] = n.nick[v] => u = v
  /\ \A g, h \in Handles : n.name[g] # NULL /\ n.name[g] = n.name[h] => g = h
  /\ \A u \in Users : n.acct[u] # NULL => n.nick[u] # NULL /\ n.name[n.acct[u]] # NULL

\* The invariant of the requests, of the people too.
Kept(n, s) == Filed(n, s) /\ Followed(n, s.rec) /\ Staffed(n, s)

\* A change of queues and helpers leaves users and accounts of the requests
\* as they are.
LEMMA PeopleSame ==
  ASSUME NEW n, NEW s, NEW t, QueueOnly(s, t)
  PROVE  /\ ByNick(n.nick, t.rec) = ByNick(n.nick, s.rec) /\ ByName(n.name, t.rec) = ByName(n.name, s.rec)
         /\ Tied(n, s.rec) => Tied(n, t.rec)
         /\ Followed(n, s.rec) => Followed(n, t.rec)
         /\ Staffed(n, s) /\ NoNewHelper(s, t) => Staffed(n, t)
<1>1. ASSUME NEW k PROVE AtNick(n.nick, t.rec, k) = AtNick(n.nick, s.rec, k) /\ AtName(n.name, t.rec, k) = AtName(n.name, s.rec, k)
  BY DEF QueueOnly, AtNick, AtName
<1>2. ByNick(n.nick, t.rec) = ByNick(n.nick, s.rec) /\ ByName(n.name, t.rec) = ByName(n.name, s.rec)
  BY <1>1 DEF ByNick, ByName
<1>3. Tied(n, s.rec) => Tied(n, t.rec)
  BY DEF Tied, QueueOnly
<1>4. Followed(n, s.rec) => Followed(n, t.rec)
  BY DEF Followed, QueueOnly
<1>5. ASSUME Staffed(n, s), NoNewHelper(s, t) PROVE Staffed(n, t)
  <2> SUFFICES ASSUME NEW p \in DOMAIN s.rec, t.rec[p].helper # NULL
               PROVE  Level(n, t, t.rec[p].hs, t.rec[p].helper) > 0
    BY DEF Staffed, QueueOnly
  <2>1. s.rec[p].helper # NULL /\ t.rec[p].helper = s.rec[p].helper
    BY <1>5 DEF NoNewHelper
  <2>2. t.staff = s.staff /\ t.rec[p].hs = s.rec[p].hs
    BY DEF QueueOnly
  <2>3. Level(n, s, s.rec[p].hs, s.rec[p].helper) > 0
    BY <1>5, <2>1 DEF Staffed
  <2> QED BY <2>1, <2>2, <2>3 DEF Level
<1> QED BY <1>2, <1>3, <1>4, <1>5

\* A change of queues and helpers that gives no request a new helper keeps
\* the invariant.
LEMMA QueueKeeps ==
  ASSUME NEW n, NEW s, Kept(n, s), NEW t, Core(t, Bots), QueueOnly(s, t), NoNewHelper(s, t)
  PROVE  Kept(n, t)
<1>1. t.bynick = s.bynick /\ t.byhand = s.byhand
  BY DEF QueueOnly
<1> QED BY <1>1, PeopleSame DEF Kept, Filed

\* Nothing about the requests changes: timers, flags, options.
SameRequests(s, t) ==
  /\ t.rec = s.rec /\ t.requests = s.requests /\ t.unhandled = s.unhandled
  /\ t.bynick = s.bynick /\ t.byhand = s.byhand
  /\ t.staff = s.staff /\ t.made = s.made /\ t.now = s.now /\ t.up = s.up

\* A change of timers, flags and options keeps the invariant.
LEMMA SameKeeps ==
  ASSUME NEW n, NEW s, Kept(n, s), NEW t \in Tables, SameRequests(s, t)
  PROVE  Kept(n, t)
<1>1. Core(t, Bots)
  <2>1. SameCore(s, t)
    BY DEF SameRequests, SameCore
  <2> QED BY <2>1, CoreKept DEF Kept, Filed
<1>2. Filed(n, t) /\ Followed(n, t.rec)
  BY <1>1 DEF Kept, Filed, SameRequests
<1>3. Staffed(n, t)
  BY DEF Kept, Staffed, SameRequests, Level
<1> QED BY <1>2, <1>3 DEF Kept

\* When one key of the sets by nick changes, the others are as they were.
LEMMA NickChanges ==
  ASSUME NEW nick, NEW rec, NEW rec2, NEW k \in Nicks, NEW S, AtNick(nick, rec2, k) = S,
         \A x \in Nicks : x # k => AtNick(nick, rec2, x) = AtNick(nick, rec, x)
  PROVE  ByNick(nick, rec2) = [ByNick(nick, rec) EXCEPT ![k] = S]
BY DEF ByNick

\* When one key of the sets by name changes, the others are as they were.
LEMMA NameChanges ==
  ASSUME NEW name, NEW rec, NEW rec2, NEW k \in Names, NEW S, AtName(name, rec2, k) = S,
         \A x \in Names : x # k => AtName(name, rec2, x) = AtName(name, rec, x)
  PROVE  ByName(name, rec2) = [ByName(name, rec) EXCEPT ![k] = S]
BY DEF ByName

-----------------------------------------------------------------------------
(* Opening and freeing.                                                     *)

\* t is what free_request leaves of s.
FreedFrom(n, s, p, t) ==
  LET r == s.rec[p] IN
  /\ t.rec = Drop(s.rec, p)
  /\ t.unhandled = [s.unhandled EXCEPT ![r.hs] = RemoveFirst(s.unhandled[r.hs], p)]
  /\ t.bynick = IF r.user = NULL THEN s.bynick ELSE Without(s.bynick, n.nick[r.user], p)
  /\ t.byhand = IF r.handle = NULL THEN s.byhand ELSE Without(s.byhand, n.name[r.handle], p)
  /\ t.requests = s.requests /\ t.staff = s.staff /\ t.opt = s.opt /\ t.up = s.up
  /\ t.made = s.made /\ t.now = s.now /\ t.last = s.last
  /\ (t.rec \in Records /\ t.unhandled \in [Bots -> Seq(Nat)]
      /\ t.bynick \in Dicts(Nicks, Seq(Nat)) /\ t.byhand \in Dicts(Names, Seq(Nat))) => t \in Tables

\* What free_request does to each table.
LEMMA FreeIs ==
  ASSUME NEW n, NEW s \in Tables, NEW p
  PROVE  FreedFrom(n, s, p, FreeRequest(n, s, p))
<1> DEFINE r == s.rec[p]
           e == Drop(s.rec, p)
           w == [s.unhandled EXCEPT ![r.hs] = RemoveFirst(s.unhandled[r.hs], p)]
           k == IF r.user = NULL THEN s.bynick ELSE Without(s.bynick, n.nick[r.user], p)
           d == IF r.handle = NULL THEN s.byhand ELSE Without(s.byhand, n.name[r.handle], p)
           t == FreeRequest(n, s, p)
<1>1. t = [s EXCEPT !.rec = e, !.unhandled = w, !.bynick = k, !.byhand = d]
  BY Zenon DEF FreeRequest, Without
<1> HIDE DEF e, w, k, d, t
<1>2. /\ t.rec = e /\ t.unhandled = w /\ t.bynick = k /\ t.byhand = d
      /\ t.requests = s.requests /\ t.staff = s.staff /\ t.opt = s.opt /\ t.up = s.up
      /\ t.made = s.made /\ t.now = s.now /\ t.last = s.last
  BY <1>1 DEF Tables
<1>3. e \in Records /\ w \in [Bots -> Seq(Nat)] /\ k \in Dicts(Nicks, Seq(Nat)) /\ d \in Dicts(Names, Seq(Nat))
      => t \in Tables
  BY <1>1 DEF Tables
<1> QED BY <1>2, <1>3, Zenon DEF e, w, k, d, t, FreedFrom

\* The list of a nick loses a request that is freed, or that loses its user,
\* and no other list does (free_request, handle_quit).
LEMMA NickLoses ==
  ASSUME NEW f, NEW nick, NEW rec, Lists(f, ByNick(nick, rec)), NEW p \in DOMAIN rec,
         rec[p].user # NULL => nick[rec[p].user] \in Nicks,
         NEW rec2, DOMAIN rec2 \ {p} = DOMAIN rec \ {p}, \A q \in DOMAIN rec \ {p} : rec2[q].user = rec[q].user,
         p \in DOMAIN rec2 => rec2[p].user = NULL
  PROVE  /\ Lists(IF rec[p].user = NULL THEN f ELSE Without(f, nick[rec[p].user], p), ByNick(nick, rec2))
         /\ rec[p].user # NULL =>
              Lists([f EXCEPT ![nick[rec[p].user]] = RemoveFirst(f[nick[rec[p].user]], p)], ByNick(nick, rec2))
<1>1. \A q \in DOMAIN rec2 : q # p => q \in DOMAIN rec
  OBVIOUS
<1>10. \A q \in DOMAIN rec : q # p => q \in DOMAIN rec2
  OBVIOUS
<1>2. CASE rec[p].user = NULL
  <2>1. ASSUME NEW k PROVE AtNick(nick, rec2, k) = AtNick(nick, rec, k)
    BY <1>1, <1>10, <1>2 DEF AtNick
  <2>2. ByNick(nick, rec2) = ByNick(nick, rec)
    BY <2>1 DEF ByNick
  <2> QED BY <1>2, <2>2
<1>3. CASE rec[p].user # NULL
  <2> DEFINE k == nick[rec[p].user]
             A == ByNick(nick, rec)
  <2>1. k \in Nicks /\ p \in A[k] /\ DOMAIN A = Nicks /\ A[k] = AtNick(nick, rec, k)
    BY <1>3 DEF ByNick, AtNick
  <2>2. /\ Lists(Without(f, k, p), [A EXCEPT ![k] = A[k] \ {p}])
        /\ Lists([f EXCEPT ![k] = RemoveFirst(f[k], p)], [A EXCEPT ![k] = A[k] \ {p}])
    <3> HIDE DEF A, k
    <3>1. Lists(f, A)
      BY DEF A
    <3> QED BY <2>1, <3>1, ListsLess
  <2>3. AtNick(nick, rec2, k) = A[k] \ {p}
    BY <1>1, <1>10, <2>1 DEF AtNick
  <2>4. \A x \in Nicks : x # k => AtNick(nick, rec2, x) = AtNick(nick, rec, x)
    BY <1>1, <1>10 DEF AtNick
  <2>5. ByNick(nick, rec2) = [A EXCEPT ![k] = A[k] \ {p}]
    <3> DEFINE S == A[k] \ {p}
    <3> HIDE DEF k, S
    <3>1. AtNick(nick, rec2, k) = S
      BY <2>3 DEF S
    <3>2. ByNick(nick, rec2) = [A EXCEPT ![k] = S]
      BY <2>1, <2>4, <3>1, NickChanges
    <3> QED BY <3>2 DEF S
  <2> QED BY <1>3, <2>2, <2>5
<1> QED BY <1>2, <1>3

\* The list of a nick gains a request that is opened or gets a user, and no
\* other list does (create_request, associate_requests_bybot).
LEMMA NickGains ==
  ASSUME NEW f, NEW nick, NEW rec, Lists(f, ByNick(nick, rec)), NEW p \in Nat, NEW rec2,
         DOMAIN rec2 = DOMAIN rec \cup {p}, \A q \in DOMAIN rec : q # p => rec2[q].user = rec[q].user,
         p \in DOMAIN rec => rec[p].user = NULL,
         rec2[p].user # NULL, nick[rec2[p].user] \in Nicks
  PROVE  Lists(Push(f, nick[rec2[p].user], p), ByNick(nick, rec2))
<1> DEFINE k == nick[rec2[p].user]
           A == ByNick(nick, rec)
<1>1. k \in Nicks /\ p \notin A[k] /\ DOMAIN A = Nicks /\ A[k] = AtNick(nick, rec, k)
  BY DEF ByNick, AtNick
<1>2. Lists(Push(f, k, p), [A EXCEPT ![k] = A[k] \cup {p}])
  <2> HIDE DEF A, k
  <2>1. Lists(f, A)
    BY DEF A
  <2> QED BY <1>1, <2>1, ListsPush
<1>3. AtNick(nick, rec2, k) = A[k] \cup {p}
  BY <1>1 DEF AtNick
<1>4. \A x \in Nicks : x # k => AtNick(nick, rec2, x) = AtNick(nick, rec, x)
  BY DEF AtNick
<1>5. ByNick(nick, rec2) = [A EXCEPT ![k] = A[k] \cup {p}]
  <2> DEFINE S == A[k] \cup {p}
  <2> HIDE DEF k, S
  <2>1. AtNick(nick, rec2, k) = S
    BY <1>3 DEF S
  <2>2. ByNick(nick, rec2) = [A EXCEPT ![k] = S]
    BY <1>1, <1>4, <2>1, NickChanges
  <2> QED BY <2>2 DEF S
<1> QED BY <1>2, <1>5

\* What does not change the users of requests keeps the sets by nick.
LEMMA NickSame ==
  ASSUME NEW nick, NEW rec, NEW rec2, DOMAIN rec2 = DOMAIN rec, \A q \in DOMAIN rec : rec2[q].user = rec[q].user
  PROVE  ByNick(nick, rec2) = ByNick(nick, rec)
<1>1. ASSUME NEW k PROVE AtNick(nick, rec2, k) = AtNick(nick, rec, k)
  BY DEF AtNick
<1> QED BY <1>1 DEF ByNick

\* The list of an account loses a request that is freed or loses its account,
\* and no other list does.
LEMMA NameLoses ==
  ASSUME NEW f, NEW name, NEW rec, Lists(f, ByName(name, rec)), NEW p \in DOMAIN rec,
         rec[p].handle # NULL => name[rec[p].handle] \in Names,
         NEW rec2, DOMAIN rec2 \ {p} = DOMAIN rec \ {p}, \A q \in DOMAIN rec \ {p} : rec2[q].handle = rec[q].handle,
         p \in DOMAIN rec2 => rec2[p].handle = NULL
  PROVE  /\ Lists(IF rec[p].handle = NULL THEN f ELSE Without(f, name[rec[p].handle], p), ByName(name, rec2))
         /\ rec[p].handle # NULL =>
              Lists([f EXCEPT ![name[rec[p].handle]] = RemoveFirst(f[name[rec[p].handle]], p)], ByName(name, rec2))
<1>1. \A q \in DOMAIN rec2 : q # p => q \in DOMAIN rec
  OBVIOUS
<1>10. \A q \in DOMAIN rec : q # p => q \in DOMAIN rec2
  OBVIOUS
<1>2. CASE rec[p].handle = NULL
  <2>1. ASSUME NEW k PROVE AtName(name, rec2, k) = AtName(name, rec, k)
    BY <1>1, <1>10, <1>2 DEF AtName
  <2>2. ByName(name, rec2) = ByName(name, rec)
    BY <2>1 DEF ByName
  <2> QED BY <1>2, <2>2
<1>3. CASE rec[p].handle # NULL
  <2> DEFINE k == name[rec[p].handle]
             A == ByName(name, rec)
  <2>1. k \in Names /\ p \in A[k] /\ DOMAIN A = Names /\ A[k] = AtName(name, rec, k)
    BY <1>3 DEF ByName, AtName
  <2>2. /\ Lists(Without(f, k, p), [A EXCEPT ![k] = A[k] \ {p}])
        /\ Lists([f EXCEPT ![k] = RemoveFirst(f[k], p)], [A EXCEPT ![k] = A[k] \ {p}])
    <3> HIDE DEF A, k
    <3>1. Lists(f, A)
      BY DEF A
    <3> QED BY <2>1, <3>1, ListsLess
  <2>3. AtName(name, rec2, k) = A[k] \ {p}
    BY <1>1, <1>10, <2>1 DEF AtName
  <2>4. \A x \in Names : x # k => AtName(name, rec2, x) = AtName(name, rec, x)
    BY <1>1, <1>10 DEF AtName
  <2>5. ByName(name, rec2) = [A EXCEPT ![k] = A[k] \ {p}]
    <3> DEFINE S == A[k] \ {p}
    <3> HIDE DEF k, S
    <3>1. AtName(name, rec2, k) = S
      BY <2>3 DEF S
    <3>2. ByName(name, rec2) = [A EXCEPT ![k] = S]
      BY <2>1, <2>4, <3>1, NameChanges
    <3> QED BY <3>2 DEF S
  <2> QED BY <1>3, <2>2, <2>5
<1> QED BY <1>2, <1>3

\* The list of an account gains a request that is opened or moves to the
\* account, and no other list does.
LEMMA NameGains ==
  ASSUME NEW f, NEW name, NEW rec, Lists(f, ByName(name, rec)), NEW p \in Nat, NEW rec2,
         DOMAIN rec2 = DOMAIN rec \cup {p}, \A q \in DOMAIN rec : q # p => rec2[q].handle = rec[q].handle,
         p \in DOMAIN rec => rec[p].handle = NULL,
         rec2[p].handle # NULL, name[rec2[p].handle] \in Names
  PROVE  Lists(Push(f, name[rec2[p].handle], p), ByName(name, rec2))
<1> DEFINE k == name[rec2[p].handle]
           A == ByName(name, rec)
<1>1. k \in Names /\ p \notin A[k] /\ DOMAIN A = Names /\ A[k] = AtName(name, rec, k)
  BY DEF ByName, AtName
<1>2. Lists(Push(f, k, p), [A EXCEPT ![k] = A[k] \cup {p}])
  <2> HIDE DEF A, k
  <2>1. Lists(f, A)
    BY DEF A
  <2> QED BY <1>1, <2>1, ListsPush
<1>3. AtName(name, rec2, k) = A[k] \cup {p}
  BY <1>1 DEF AtName
<1>4. \A x \in Names : x # k => AtName(name, rec2, x) = AtName(name, rec, x)
  BY DEF AtName
<1>5. ByName(name, rec2) = [A EXCEPT ![k] = A[k] \cup {p}]
  <2> DEFINE S == A[k] \cup {p}
  <2> HIDE DEF k, S
  <2>1. AtName(name, rec2, k) = S
    BY <1>3 DEF S
  <2>2. ByName(name, rec2) = [A EXCEPT ![k] = S]
    BY <1>1, <1>4, <2>1, NameChanges
  <2> QED BY <2>2 DEF S
<1> QED BY <1>2, <1>5

\* What does not change the accounts of requests keeps the sets by name.
LEMMA NameSame ==
  ASSUME NEW name, NEW rec, NEW rec2, DOMAIN rec2 = DOMAIN rec, \A q \in DOMAIN rec : rec2[q].handle = rec[q].handle
  PROVE  ByName(name, rec2) = ByName(name, rec)
<1>1. ASSUME NEW k PROVE AtName(name, rec2, k) = AtName(name, rec, k)
  BY DEF AtName
<1> QED BY <1>1 DEF ByName

\* The indexes by nick and by name are dictionaries of lists.
LEMMA ListsAre ==
  /\ \A f, nick, rec : Lists(f, ByNick(nick, rec)) => f \in Dicts(Nicks, Seq(Nat))
  /\ \A f, name, rec : Lists(f, ByName(name, rec)) => f \in Dicts(Names, Seq(Nat))
<1>1. \A nick, rec : DOMAIN ByNick(nick, rec) = Nicks
  BY DEF ByNick
<1>2. \A name, rec : DOMAIN ByName(name, rec) = Names
  BY DEF ByName
<1> QED BY <1>1, <1>2, Zenon DEF Lists

\* The lists by nick and by name are exact.
Listing(n, s) ==
  /\ Lists(s.bynick, ByNick(n.nick, s.rec)) /\ Lists(s.byhand, ByName(n.name, s.rec))

\* The user and the account of p can be found by nick and by name.
Known(n, r) ==
  /\ r.user # NULL => n.nick[r.user] \in Nicks
  /\ r.handle # NULL => n.name[r.handle] \in Names

\* The user and the account of a request can be found under their nick and
\* name, which free_request relies on.
LEMMA TiedKnown ==
  ASSUME NEW n \in Nets, NEW s \in Tables, Tied(n, s.rec), NEW p \in DOMAIN s.rec
  PROVE  Known(n, s.rec[p])
<1>1. s.rec[p].user \in Optional(Users) /\ s.rec[p].handle \in Optional(Handles)
  BY RequestIs
<1> QED BY <1>1 DEF Nets, Optional, Tied, Known

\* free_request keeps queues and indexes exact, and every bot's table but
\* that of the bot, which still has the id.
LEMMA FreeKeeps ==
  ASSUME NEW n, NEW s, NEW B, Core(s, B), B \subseteq Bots, NEW p \in DOMAIN s.rec,
         Listing(n, s), Known(n, s.rec[p])
  PROVE  Core(FreeRequest(n, s, p), B \ {s.rec[p].hs}) /\ Listing(n, FreeRequest(n, s, p))
<1> DEFINE t == FreeRequest(n, s, p)
           r == s.rec[p]
           h == s.rec[p].hs
<1>1. s \in Tables /\ h \in Bots /\ p \in Nat
  BY RequestIs DEF Core
<1>0. FreedFrom(n, s, p, t)
  BY <1>1, FreeIs
<1> HIDE DEF t
<1>2. /\ t.rec = Drop(s.rec, p)
      /\ t.unhandled = [s.unhandled EXCEPT ![h] = RemoveFirst(s.unhandled[h], p)]
      /\ t.bynick = IF r.user = NULL THEN s.bynick ELSE Without(s.bynick, n.nick[r.user], p)
      /\ t.byhand = IF r.handle = NULL THEN s.byhand ELSE Without(s.byhand, n.name[r.handle], p)
      /\ t.requests = s.requests /\ t.up = s.up /\ t.made = s.made /\ t.now = s.now
  BY <1>0, Zenon DEF FreedFrom
<1>3. t.rec \in Records /\ t.unhandled \in [Bots -> Seq(Nat)]
      /\ t.bynick \in Dicts(Nicks, Seq(Nat)) /\ t.byhand \in Dicts(Names, Seq(Nat)) => t \in Tables
  BY <1>0, Zenon DEF FreedFrom
<1>4. DOMAIN t.rec = DOMAIN s.rec \ {p} /\ \A q \in DOMAIN s.rec : q # p => t.rec[q] = s.rec[q]
  BY <1>2 DEF Drop
<1>5. Listing(n, t)
  <2>1. DOMAIN t.rec \ {p} = DOMAIN s.rec \ {p} /\ p \notin DOMAIN t.rec
    BY <1>4
  <2>2. \A q \in DOMAIN s.rec \ {p} : t.rec[q].user = s.rec[q].user /\ t.rec[q].handle = s.rec[q].handle
    BY <1>4
  <2>3. Lists(t.bynick, ByNick(n.nick, t.rec))
    <3>1. r.user # NULL => n.nick[r.user] \in Nicks
      BY DEF Known
    <3>2. Lists(s.bynick, ByNick(n.nick, s.rec))
      BY DEF Listing
    <3>3. Lists(IF r.user = NULL THEN s.bynick ELSE Without(s.bynick, n.nick[r.user], p), ByNick(n.nick, t.rec))
      BY <2>1, <2>2, <3>1, <3>2, NickLoses, Zenon
    <3> QED BY <1>2, <3>3
  <2>4. Lists(t.byhand, ByName(n.name, t.rec))
    <3>1. r.handle # NULL => n.name[r.handle] \in Names
      BY DEF Known
    <3>2. Lists(s.byhand, ByName(n.name, s.rec))
      BY DEF Listing
    <3>3. Lists(IF r.handle = NULL THEN s.byhand ELSE Without(s.byhand, n.name[r.handle], p), ByName(n.name, t.rec))
      BY <2>1, <2>2, <3>1, <3>2, NameLoses, Zenon
    <3> QED BY <1>2, <3>3
  <2> QED BY <2>3, <2>4 DEF Listing
<1>6. ASSUME NEW b \in Bots PROVE InLine(t, b)
  <2>1. Holds(s.unhandled[b], Waiting(s.rec, b)) /\ InOrder(s.unhandled[b], s.rec)
    BY DEF Core, InLine
  <2>2. Holds(t.unhandled[b], Waiting(s.rec, b) \ {p}) /\ InOrder(t.unhandled[b], s.rec)
    <3>1. s.unhandled \in [Bots -> Seq(Nat)]
      BY <1>1, TablesAre
    <3>2. CASE b = h
      <4>1. t.unhandled[b] = RemoveFirst(s.unhandled[b], p)
        BY <1>1, <1>2, <3>1, <3>2
      <4> QED BY <2>1, <4>1, HoldsRemove
    <3>3. CASE b # h
      <4>1. t.unhandled[b] = s.unhandled[b]
        BY <1>2, <3>1, <3>3
      <4>2. Waiting(s.rec, b) \ {p} = Waiting(s.rec, b)
        BY <3>3 DEF Waiting
      <4> QED BY <2>1, <4>1, <4>2
    <3> QED BY <3>2, <3>3
  <2>3. Waiting(t.rec, b) = Waiting(s.rec, b) \ {p}
    BY <1>4 DEF Waiting
  <2>4. InOrder(t.unhandled[b], t.rec)
    <3>1. \A i \in 1..Len(t.unhandled[b]) : t.unhandled[b][i] \in DOMAIN s.rec /\ t.unhandled[b][i] # p
      BY <2>2 DEF Holds, Waiting
    <3>2. \A i \in 1..Len(t.unhandled[b]) : t.rec[t.unhandled[b][i]] = s.rec[t.unhandled[b][i]]
      BY <1>4, <3>1
    <3> QED BY <2>2, <3>2 DEF InOrder
  <2> QED BY <2>2, <2>3, <2>4 DEF InLine
<1>7. ASSUME NEW b \in B \ {h} PROVE Tabled(t, b)
  <2>1. RequestsAt(t, b) = RequestsAt(s, b)
    BY <1>4 DEF RequestsAt
  <2>2. \A q \in RequestsAt(s, b) : t.rec[q].id = s.rec[q].id
    BY <1>4 DEF RequestsAt
  <2> QED BY <1>2, <2>1, <2>2 DEF Core, Tabled
<1>8. Sane(t)
  BY <1>2, <1>4 DEF Core, Sane
<1>9. t \in Tables
  <2>1. t.rec \in Records
    <3>1. s.rec \in Records
      BY <1>1, TablesAre
    <3> QED BY <1>2, <3>1, DropIn DEF Records
  <2>2. t.unhandled \in [Bots -> Seq(Nat)]
    <3>1. s.unhandled \in [Bots -> Seq(Nat)]
      BY <1>1, TablesAre
    <3>2. Holds(t.unhandled[h], Waiting(t.rec, h))
      BY <1>1, <1>6 DEF InLine
    <3>3. t.unhandled[h] = RemoveFirst(s.unhandled[h], p)
      BY <1>1, <1>2, <3>1
    <3>4. RemoveFirst(s.unhandled[h], p) \in Seq(Nat)
      BY <3>2, <3>3 DEF Holds
    <3> QED BY <1>2, <3>1, <3>4
  <2>3. t.bynick \in Dicts(Nicks, Seq(Nat)) /\ t.byhand \in Dicts(Names, Seq(Nat))
    BY <1>5, ListsAre, Zenon DEF Listing
  <2> QED BY <1>1, <1>3, <2>1, <2>2, <2>3 DEF Tables
<1>10. Core(t, B \ {h})
  BY <1>6, <1>7, <1>8, <1>9 DEF Core
<1> QED BY <1>5, <1>10 DEF t

\* Requests are taken away; those that stay are as they were.
Fewer(s, t) ==
  /\ DOMAIN t.rec \subseteq DOMAIN s.rec /\ \A q \in DOMAIN t.rec : t.rec[q] = s.rec[q]
  /\ t.staff = s.staff

\* What takes requests away, and changes none of the others, keeps who has
\* them as it is.
LEMMA FewerKeeps ==
  ASSUME NEW n, NEW s, NEW t, Fewer(s, t)
  PROVE  /\ Tied(n, s.rec) => Tied(n, t.rec)
         /\ Followed(n, s.rec) => Followed(n, t.rec)
         /\ Staffed(n, s) => Staffed(n, t)
<1>1. Tied(n, s.rec) => Tied(n, t.rec)
  BY DEF Fewer, Tied
<1>2. Followed(n, s.rec) => Followed(n, t.rec)
  BY DEF Fewer, Followed
<1>3. Staffed(n, s) => Staffed(n, t)
  BY DEF Fewer, Staffed, Level
<1> QED BY <1>1, <1>2, <1>3

\* What dict_remove, and free_request with it, leave of s.
RemovedFrom(s, p, t) ==
  /\ t.rec = Drop(s.rec, p) /\ Fewer(s, t) /\ DOMAIN t.rec = DOMAIN s.rec \ {p}
  /\ t.opt = s.opt /\ t.up = s.up /\ t.made = s.made /\ t.now = s.now
  /\ t.requests = [s.requests EXCEPT ![s.rec[p].hs] = Drop(s.requests[s.rec[p].hs], s.rec[p].id)]

\* dict_remove with free_request keeps queues, tables and indexes exact, for
\* one request less.
LEMMA RemoveKeeps ==
  ASSUME NEW n, NEW s, NEW B, Core(s, B), B \subseteq Bots, NEW p \in DOMAIN s.rec, s.rec[p].hs \in B,
         Listing(n, s), Known(n, s.rec[p])
  PROVE  LET t == RemoveRequest(n, s, p) IN
         Core(t, B) /\ Listing(n, t) /\ RemovedFrom(s, p, t)
<1> DEFINE b == s.rec[p].hs
           id == s.rec[p].id
           table == [s.requests EXCEPT ![b] = Drop(s.requests[b], id)]
           s1 == [s EXCEPT !.requests = table]
           t == FreeRequest(n, s1, p)
<1>1. RemoveRequest(n, s, p) = t
  BY Zenon DEF RemoveRequest
<1>2. s \in Tables /\ b \in Bots /\ id \in Nat /\ s.requests \in [Bots -> Dicts(Nat, Nat)]
  BY RequestIs, TablesAre DEF Core
<1>3. table \in [Bots -> Dicts(Nat, Nat)]
  <2>1. Drop(s.requests[b], id) \in Dicts(Nat, Nat)
    BY <1>2, DropIn
  <2> QED BY <1>2, <2>1
<1>4. table[b] = Drop(s.requests[b], id) /\ \A c \in Bots : c # b => table[c] = s.requests[c]
  BY <1>2
<1> HIDE DEF table
<1>5. /\ s1 \in Tables /\ s1.rec = s.rec /\ s1.requests = table /\ s1.unhandled = s.unhandled
      /\ s1.bynick = s.bynick /\ s1.byhand = s.byhand /\ s1.staff = s.staff /\ s1.opt = s.opt
      /\ s1.up = s.up /\ s1.made = s.made /\ s1.now = s.now
  BY <1>2, <1>3 DEF Tables
<1> HIDE DEF s1
<1>6. Core(s1, B \ {b})
  <2>1. Sane(s1) /\ \A c \in Bots : InLine(s1, c)
    BY <1>5 DEF Core, Sane, InLine
  <2>2. ASSUME NEW c \in B \ {b} PROVE Tabled(s1, c)
    <3>1. RequestsAt(s1, c) = RequestsAt(s, c) /\ s1.requests[c] = s.requests[c]
      BY <1>4, <1>5 DEF RequestsAt
    <3>2. Tabled(s, c)
      BY DEF Core
    <3> QED BY <1>5, <3>1, <3>2 DEF Tabled
  <2> QED BY <1>5, <2>1, <2>2 DEF Core
<1>7. Listing(n, s1)
  BY <1>5 DEF Listing
<1>8. Core(t, (B \ {b}) \ {b}) /\ Listing(n, t)
  <2>1. p \in DOMAIN s1.rec /\ Known(n, s1.rec[p]) /\ s1.rec[p].hs = b /\ B \ {b} \subseteq Bots
    BY <1>5
  <2> HIDE DEF t, b
  <2>2. Core(FreeRequest(n, s1, p), (B \ {b}) \ {s1.rec[p].hs}) /\ Listing(n, FreeRequest(n, s1, p))
    BY <1>6, <1>7, <2>1, FreeKeeps
  <2> QED BY <2>1, <2>2 DEF t
<1>9. FreedFrom(n, s1, p, t)
  BY <1>5, FreeIs
<1> HIDE DEF t
<1>10. /\ t.rec = Drop(s.rec, p) /\ t.requests = table /\ t.staff = s.staff /\ t.opt = s.opt
       /\ t.up = s.up /\ t.made = s.made /\ t.now = s.now
  BY <1>5, <1>9, Zenon DEF FreedFrom
<1>11. DOMAIN t.rec = DOMAIN s.rec \ {p} /\ \A q \in DOMAIN s.rec : q # p => t.rec[q] = s.rec[q]
  BY <1>10 DEF Drop
<1>12. RemovedFrom(s, p, t)
  BY <1>10, <1>11 DEF RemovedFrom, Fewer, table
<1>13. Tabled(t, b)
  <2>1. DOMAIN t.requests[b] = DOMAIN s.requests[b] \ {id}
        /\ \A x \in DOMAIN s.requests[b] : x # id => t.requests[b][x] = s.requests[b][x]
    BY <1>4, <1>10 DEF Drop
  <2>2. Tabled(s, b)
    BY DEF Core
  <2>3. IsFiniteSet(DOMAIN t.requests[b])
    <3>1. IsFiniteSet(DOMAIN s.requests[b])
      BY <2>2 DEF Tabled
    <3>2. DOMAIN t.requests[b] \in SUBSET DOMAIN s.requests[b]
      BY <2>1
    <3> QED BY <3>1, <3>2, FS_Subset, Zenon
  <2>4. p \in RequestsAt(s, b)
    BY DEF RequestsAt
  <2>6. \A q \in RequestsAt(s, b) \ {p} : t.rec[q] = s.rec[q] /\ s.rec[q].id # id
    BY <1>11, <2>2, <2>4 DEF Tabled, RequestsAt
  <2>7. \A x \in DOMAIN s.requests[b] : x # id => s.requests[b][x] # p
    BY <2>2 DEF Tabled
  <2> HIDE DEF b, id
  <2>5. RequestsAt(t, b) = RequestsAt(s, b) \ {p}
    BY <1>11, SMTT(30) DEF RequestsAt
  <2>8. ASSUME NEW x \in DOMAIN t.requests[b]
        PROVE  t.requests[b][x] \in RequestsAt(t, b) /\ t.rec[t.requests[b][x]].id = x
    <3> DEFINE q == s.requests[b][x]
    <3>1. x \in DOMAIN s.requests[b] /\ x # id /\ t.requests[b][x] = q
      BY <2>1, SMTT(30)
    <3>2. q \in RequestsAt(s, b) /\ s.rec[q].id = x /\ q # p
      BY <2>2, <2>7, <3>1 DEF Tabled
    <3> HIDE DEF q
    <3> QED BY <2>5, <2>6, <3>1, <3>2
  <2>9. \A q \in RequestsAt(t, b) : t.rec[q].id \in DOMAIN t.requests[b] /\ t.requests[b][t.rec[q].id] = q
    BY <2>1, <2>2, <2>5, <2>6 DEF Tabled
  <2> QED BY <2>3, <2>8, <2>9, Zenon DEF Tabled
<1>14. Core(t, B)
  <2>1. \A c \in B : c = b \/ c \in (B \ {b}) \ {b}
    OBVIOUS
  <2> HIDE DEF b
  <2> QED BY <1>8, <1>13, <2>1 DEF Core
<1> QED BY <1>1, <1>8, <1>12, <1>14

\* Closing a request keeps the invariant (helpserv_close through
\* dict_remove).
LEMMA RemoveStaysKept ==
  ASSUME NEW n \in Nets, NEW s, Kept(n, s), NEW p \in DOMAIN s.rec
  PROVE  LET t == RemoveRequest(n, s, p) IN Kept(n, t) /\ RemovedFrom(s, p, t)
<1> DEFINE t == RemoveRequest(n, s, p)
<1>1. Core(s, Bots) /\ Listing(n, s) /\ Tied(n, s.rec) /\ s \in Tables /\ Followed(n, s.rec) /\ Staffed(n, s)
  BY DEF Kept, Filed, Listing, Core
<1>2. s.rec[p].hs \in Bots /\ Known(n, s.rec[p])
  BY <1>1, RequestIs, TiedKnown
<1>3. Core(t, Bots) /\ Listing(n, t) /\ RemovedFrom(s, p, t)
  BY <1>1, <1>2, RemoveKeeps
<1> HIDE DEF t
<1>4. Tied(n, t.rec) /\ Followed(n, t.rec) /\ Staffed(n, t)
  BY <1>1, <1>3, FewerKeeps DEF RemovedFrom
<1>5. Kept(n, t) /\ RemovedFrom(s, p, t)
  BY <1>3, <1>4 DEF Kept, Filed, Listing
<1> QED BY <1>5 DEF t

\* The search for the next free id ends with a number, whatever ids are
\* taken.
LEMMA LastIdIs ==
  ASSUME NEW taken, NEW id \in Nat, id > 0
  PROVE  LastId(taken, id) \in Nat
<1> DEFINE Free(from) == {i \in from..(IdWrap - 1) : i \notin taken}
           First(I) == CHOOSE i \in I : \A j \in I : i <= j
           higher == IF id < IdWrap /\ Free(id) # {} THEN First(Free(id)) - 1 ELSE id
<1>1. LastId(taken, id) = IF IdWrap = 0 THEN id
                          ELSE IF higher >= IdWrap /\ Free(1) # {} THEN First(Free(1)) - 1 ELSE higher
  BY DEF LastId
<1>2. ASSUME NEW x \in Nat, x > 0, Free(x) # {} PROVE First(Free(x)) - 1 \in Nat
  <2>1. Free(x) \in SUBSET Nat /\ \A i \in Free(x) : i >= x
    BY <1>2, HelpServAssumption
  <2> DEFINE I == Free(x)
  <2> HIDE DEF Free
  <2>2. \E i \in I : \A j \in I : i <= j
    <3> HIDE DEF I
    <3>1. I \in SUBSET Nat /\ I # {}
      BY <1>2, <2>1 DEF I
    <3> QED BY <3>1, LeastOf
  <2>3. First(I) \in I
    BY <2>2
  <2>4. First(I) \in Nat /\ First(I) >= x
    BY <2>1, <2>3
  <2> HIDE DEF First, I
  <2>5. First(I) - 1 \in Nat
    BY <1>2, <2>4
  <2> QED BY <2>5 DEF I
<1> HIDE DEF Free, First
<1>3. higher \in Nat
  BY <1>2
<1> HIDE DEF higher
<1>4. Free(1) # {} => First(Free(1)) - 1 \in Nat
  BY <1>2
<1> QED BY <1>1, <1>3, <1>4

\* The bot's table but for the id that is used next.
NearlyTabled(s, b, id) ==
  /\ IsFiniteSet(DOMAIN s.requests[b])
  /\ \A x \in DOMAIN s.requests[b] :
       x # id => s.requests[b][x] \in RequestsAt(s, b) /\ s.rec[s.requests[b][x]].id = x
  /\ \A p \in RequestsAt(s, b) : s.rec[p].id # id /\ s.rec[p].id \in DOMAIN s.requests[b] /\ s.requests[b][s.rec[p].id] = p

\* The request that has an id is freed before another gets it.
Reused(n, s, b, id) == IF id \in DOMAIN s.requests[b] THEN FreeRequest(n, s, s.requests[b][id]) ELSE s

\* dict_insert frees the request whose id is used again; after that the bot's
\* table is exact but for that id.
LEMMA ReuseKeeps ==
  ASSUME NEW n \in Nets, NEW s, Core(s, Bots), Listing(n, s), Tied(n, s.rec), NEW b \in Bots, NEW id
  PROVE  LET t == Reused(n, s, b, id) IN
         /\ Core(t, Bots \ {b}) /\ NearlyTabled(t, b, id) /\ Listing(n, t) /\ Fewer(s, t)
         /\ t.made = s.made /\ t.now = s.now /\ t.up = s.up /\ t.requests = s.requests /\ t.opt = s.opt /\ t.last = s.last
<1>1. s \in Tables /\ Tabled(s, b)
  BY DEF Core
<1>2. CASE id \notin DOMAIN s.requests[b]
  <2>1. Reused(n, s, b, id) = s
    BY <1>2 DEF Reused
  <2>2. Core(s, Bots \ {b}) /\ Fewer(s, s)
    BY DEF Core, Fewer
  <2>3. NearlyTabled(s, b, id)
    BY <1>1, <1>2 DEF Tabled, NearlyTabled
  <2> QED BY <2>1, <2>2, <2>3
<1>3. CASE id \in DOMAIN s.requests[b]
  <2> DEFINE p == s.requests[b][id]
             t == FreeRequest(n, s, p)
  <2>1. Reused(n, s, b, id) = t
    BY <1>3 DEF Reused
  <2>2. p \in RequestsAt(s, b) /\ s.rec[p].id = id /\ p \in DOMAIN s.rec /\ s.rec[p].hs = b
    BY <1>1, <1>3 DEF Tabled, RequestsAt
  <2> HIDE DEF p
  <2>3. Known(n, s.rec[p])
    BY <1>1, <2>2, TiedKnown
  <2>4. Core(t, Bots \ {b}) /\ Listing(n, t)
    <3>1. Core(FreeRequest(n, s, p), Bots \ {s.rec[p].hs}) /\ Listing(n, FreeRequest(n, s, p))
      BY <2>2, <2>3, FreeKeeps
    <3> QED BY <2>2, <3>1
  <2>5. FreedFrom(n, s, p, t)
    BY <1>1, FreeIs
  <2> HIDE DEF t
  <2>6. /\ t.rec = Drop(s.rec, p) /\ t.requests = s.requests /\ t.staff = s.staff /\ t.opt = s.opt
        /\ t.up = s.up /\ t.made = s.made /\ t.now = s.now /\ t.last = s.last
    BY <2>5, Zenon DEF FreedFrom
  <2>7. DOMAIN t.rec = DOMAIN s.rec \ {p} /\ \A q \in DOMAIN s.rec : q # p => t.rec[q] = s.rec[q]
    BY <2>6 DEF Drop
  <2>8. Fewer(s, t)
    BY <2>6, <2>7 DEF Fewer
  <2>9. NearlyTabled(t, b, id)
    <3>1. RequestsAt(t, b) = RequestsAt(s, b) \ {p}
      BY <2>7 DEF RequestsAt
    <3>2. \A q \in RequestsAt(s, b) : q # p => t.rec[q] = s.rec[q]
      BY <2>7 DEF RequestsAt
    <3>3. ASSUME NEW x \in DOMAIN t.requests[b], x # id
          PROVE  t.requests[b][x] \in RequestsAt(t, b) /\ t.rec[t.requests[b][x]].id = x
      <4> DEFINE q == s.requests[b][x]
      <4>1. q \in RequestsAt(s, b) /\ s.rec[q].id = x /\ t.requests[b][x] = q
        BY <1>1, <2>6 DEF Tabled
      <4>2. q # p
        BY <2>2, <3>3, <4>1
      <4> HIDE DEF q
      <4> QED BY <3>1, <3>2, <4>1, <4>2
    <3>4. ASSUME NEW q \in RequestsAt(t, b)
          PROVE  t.rec[q].id # id /\ t.rec[q].id \in DOMAIN t.requests[b] /\ t.requests[b][t.rec[q].id] = q
      <4>1. q \in RequestsAt(s, b) /\ q # p /\ t.rec[q] = s.rec[q]
        BY <3>1, <3>2
      <4>2. s.rec[q].id \in DOMAIN s.requests[b] /\ s.requests[b][s.rec[q].id] = q
        BY <1>1, <4>1 DEF Tabled
      <4>3. s.requests[b][s.rec[p].id] = p
        BY <1>1, <2>2 DEF Tabled
      <4> QED BY <2>2, <2>6, <4>1, <4>2, <4>3
    <3>5. IsFiniteSet(DOMAIN t.requests[b])
      BY <1>1, <2>6 DEF Tabled
    <3> QED BY <3>3, <3>4, <3>5, Zenon DEF NearlyTabled
  <2> QED BY <2>1, <2>4, <2>6, <2>8, <2>9
<1> QED BY <1>2, <1>3

\* What create_request fills in.
NewRequest(n, u, b, id, when) ==
  [hs |-> b, id |-> id, user |-> u, handle |-> n.acct[u], helper |-> NULL, opened |-> when]

\* The tables after that, when nothing has the id.
Opened(n, s, p, u, b, id, when) ==
  [s EXCEPT !.rec = Put(s.rec, p, NewRequest(n, u, b, id, when)), !.made = p, !.now = when,
            !.requests[b] = Put(s.requests[b], id, p),
            !.last[b] = LastId(DOMAIN s.requests[b] \cup {id}, id),
            !.unhandled[b] = Append(s.unhandled[b], p),
            !.bynick = Push(s.bynick, n.nick[u], p),
            !.byhand = IF n.acct[u] = NULL THEN s.byhand ELSE Push(s.byhand, n.name[n.acct[u]], p)]

\* The same, table by table.
OpenedFrom(n, s, p, u, b, id, when, t) ==
  /\ t.rec = Put(s.rec, p, NewRequest(n, u, b, id, when)) /\ t.made = p /\ t.now = when
  /\ t.requests = [s.requests EXCEPT ![b] = Put(s.requests[b], id, p)]
  /\ t.unhandled = [s.unhandled EXCEPT ![b] = Append(s.unhandled[b], p)]
  /\ t.bynick = Push(s.bynick, n.nick[u], p)
  /\ t.byhand = IF n.acct[u] = NULL THEN s.byhand ELSE Push(s.byhand, n.name[n.acct[u]], p)
  /\ t.staff = s.staff /\ t.up = s.up /\ t.opt = s.opt
  /\ (t.rec \in Records /\ t.requests \in [Bots -> Dicts(Nat, Nat)] /\ t.unhandled \in [Bots -> Seq(Nat)]
      /\ t.bynick \in Dicts(Nicks, Seq(Nat)) /\ t.byhand \in Dicts(Names, Seq(Nat))) => t \in Tables

\* What create_request does to each table.
LEMMA OpenedIs ==
  ASSUME NEW n, NEW s \in Tables, NEW p \in Nat, NEW u, NEW b \in Bots, NEW id \in Nat, id > 0, NEW when \in Nat
  PROVE  OpenedFrom(n, s, p, u, b, id, when, Opened(n, s, p, u, b, id, when))
<1> DEFINE e == Put(s.rec, p, NewRequest(n, u, b, id, when))
           i == [s.requests EXCEPT ![b] = Put(s.requests[b], id, p)]
           m == LastId(DOMAIN s.requests[b] \cup {id}, id)
           l == [s.last EXCEPT ![b] = m]
           w == [s.unhandled EXCEPT ![b] = Append(s.unhandled[b], p)]
           k == Push(s.bynick, n.nick[u], p)
           d == IF n.acct[u] = NULL THEN s.byhand ELSE Push(s.byhand, n.name[n.acct[u]], p)
           t == Opened(n, s, p, u, b, id, when)
<1>1. t = [s EXCEPT !.rec = e, !.made = p, !.now = when, !.requests = i, !.last = l, !.unhandled = w,
                    !.bynick = k, !.byhand = d]
  BY Zenon DEF Opened
<1>2. m \in Nat
  BY LastIdIs
<1> HIDE DEF m
<1>3. l \in [Bots -> Nat]
  BY <1>2 DEF Tables
<1> HIDE DEF e, i, l, w, k, d, t
<1>4. /\ t.rec = e /\ t.made = p /\ t.now = when /\ t.requests = i /\ t.unhandled = w /\ t.bynick = k /\ t.byhand = d
      /\ t.staff = s.staff /\ t.opt = s.opt /\ t.up = s.up
  BY <1>1 DEF Tables
<1>5. e \in Records /\ i \in [Bots -> Dicts(Nat, Nat)] /\ w \in [Bots -> Seq(Nat)]
      /\ k \in Dicts(Nicks, Seq(Nat)) /\ d \in Dicts(Names, Seq(Nat)) => t \in Tables
  BY <1>1, <1>3 DEF Tables
<1> QED BY <1>4, <1>5, Zenon DEF e, i, w, k, d, t, OpenedFrom

\* A request that create_request fills in is in every list it belongs to, and
\* in none twice.
LEMMA OpenKeeps ==
  ASSUME NEW n, NetOk(n), NEW s, NEW b \in s.up, NEW id \in Nat, id > 0, NEW when \in {s.now, s.now + 1},
         Core(s, Bots \ {b}), NearlyTabled(s, b, id), Listing(n, s), Tied(n, s.rec), Followed(n, s.rec), Staffed(n, s),
         NEW u \in Users, n.nick[u] # NULL
  PROVE  Kept(n, Opened(n, s, s.made + 1, u, b, id, when))
<1> DEFINE p == s.made + 1
           t == Opened(n, s, p, u, b, id, when)
           r == NewRequest(n, u, b, id, when)
<1>1. s \in Tables /\ p \in Nat /\ when \in Nat /\ b \in Bots /\ n \in Nets /\ s.now \in Nat /\ s.made \in Nat
  BY TablesAre DEF Core, NetOk
<1>2. OpenedFrom(n, s, p, u, b, id, when, t)
  BY <1>1, OpenedIs
<1> HIDE DEF t
<1>3. /\ t.rec = Put(s.rec, p, r) /\ t.made = p /\ t.now = when
      /\ t.requests = [s.requests EXCEPT ![b] = Put(s.requests[b], id, p)]
      /\ t.unhandled = [s.unhandled EXCEPT ![b] = Append(s.unhandled[b], p)]
      /\ t.bynick = Push(s.bynick, n.nick[u], p)
      /\ t.byhand = IF n.acct[u] = NULL THEN s.byhand ELSE Push(s.byhand, n.name[n.acct[u]], p)
      /\ t.staff = s.staff /\ t.up = s.up
  BY <1>2, Zenon DEF OpenedFrom
<1>4. t.rec \in Records /\ t.requests \in [Bots -> Dicts(Nat, Nat)] /\ t.unhandled \in [Bots -> Seq(Nat)]
      /\ t.bynick \in Dicts(Nicks, Seq(Nat)) /\ t.byhand \in Dicts(Names, Seq(Nat)) => t \in Tables
  BY <1>2, Zenon DEF OpenedFrom
<1>5. /\ n.nick[u] \in Nicks /\ n.acct[u] \in Optional(Handles)
      /\ n.acct[u] # NULL => n.name[n.acct[u]] \in Names /\ n.name[n.acct[u]] # NULL
  BY DEF NetOk, Nets, Optional
<1>6. /\ r \in Requests /\ r.hs = b /\ r.id = id /\ r.user = u /\ r.handle = n.acct[u] /\ r.helper = NULL
      /\ r.opened = when /\ u # NULL
  BY <1>1, <1>5, HelpServAssumption DEF NewRequest, Requests, Optional
<1>7. p \notin DOMAIN s.rec
  <2>1. \A q \in DOMAIN s.rec : q \in 1..s.made
    BY DEF Core, Sane
  <2> QED BY <1>1, <2>1
<1>8. DOMAIN t.rec = DOMAIN s.rec \cup {p} /\ t.rec[p] = r /\ \A q \in DOMAIN s.rec : q # p /\ t.rec[q] = s.rec[q]
  BY <1>3, <1>7 DEF Put
<1> HIDE DEF r
<1>9. Sane(t)
  <2>1. \A q \in DOMAIN s.rec : q \in 1..p /\ s.rec[q].opened \in 0..when /\ s.rec[q].hs \in s.up
    BY <1>1 DEF Core, Sane
  <2>2. p \in 1..p /\ when \in 0..when
    BY <1>1
  <2> HIDE DEF p
  <2> QED BY <1>3, <1>6, <1>8, <2>1, <2>2 DEF Sane
<1>10. Listing(n, t)
  <2>1. Lists(t.bynick, ByNick(n.nick, t.rec))
    <3>1. Lists(s.bynick, ByNick(n.nick, s.rec))
      BY DEF Listing
    <3>2. \A q \in DOMAIN s.rec : q # p => t.rec[q].user = s.rec[q].user
      BY <1>8
    <3>3. t.rec[p].user = u
      BY <1>6, <1>8
    <3> HIDE DEF p
    <3>4. Lists(Push(s.bynick, n.nick[t.rec[p].user], p), ByNick(n.nick, t.rec))
      BY <1>1, <1>5, <1>6, <1>7, <1>8, <3>1, <3>2, <3>3, NickGains
    <3> QED BY <1>3, <3>3, <3>4
  <2>2. Lists(t.byhand, ByName(n.name, t.rec))
    <3>1. Lists(s.byhand, ByName(n.name, s.rec))
      BY DEF Listing
    <3>2. \A q \in DOMAIN s.rec : q # p => t.rec[q].handle = s.rec[q].handle
      BY <1>8
    <3>3. t.rec[p].handle = n.acct[u]
      BY <1>6, <1>8
    <3> HIDE DEF p
    <3>4. CASE n.acct[u] # NULL
      <4>1. Lists(Push(s.byhand, n.name[t.rec[p].handle], p), ByName(n.name, t.rec))
        BY <1>1, <1>5, <1>7, <1>8, <3>1, <3>2, <3>3, <3>4, NameGains
      <4> QED BY <1>3, <3>3, <3>4, <4>1
    <3>5. CASE n.acct[u] = NULL
      <4>1. ASSUME NEW k PROVE AtName(n.name, t.rec, k) = AtName(n.name, s.rec, k)
        BY <1>8, <3>2, <3>3, <3>5 DEF AtName
      <4>2. ByName(n.name, t.rec) = ByName(n.name, s.rec)
        BY <4>1 DEF ByName
      <4> QED BY <1>3, <3>1, <3>5, <4>2
    <3> QED BY <3>4, <3>5
  <2> QED BY <2>1, <2>2 DEF Listing
<1>11. ASSUME NEW c \in Bots PROVE InLine(t, c)
  <2> DEFINE old == s.unhandled[c]
  <2>1. Holds(old, Waiting(s.rec, c)) /\ InOrder(old, s.rec) /\ old \in Seq(Nat)
    BY DEF Core, InLine, Holds
  <2>2. \A i \in 1..Len(old) : old[i] \in DOMAIN s.rec
    BY <2>1 DEF Holds, Waiting
  <2>3. InOrder(old, t.rec)
    BY <1>8, <2>1, <2>2 DEF InOrder
  <2>4. s.unhandled \in [Bots -> Seq(Nat)]
    BY <1>1, TablesAre
  <2>5. CASE c = b
    <3>1. t.unhandled[c] = Append(old, p)
      BY <1>1, <1>3, <2>4, <2>5
    <3>2. Waiting(t.rec, c) = Waiting(s.rec, c) \cup {p} /\ p \notin Waiting(s.rec, c)
      BY <1>6, <1>7, <1>8, <2>5 DEF Waiting
    <3>3. \A i \in 1..Len(old) : t.rec[old[i]].opened <= t.rec[p].opened
      <4>1. \A q \in DOMAIN s.rec : s.rec[q].opened \in 0..s.now
        BY DEF Core, Sane
      <4>2. \A q \in DOMAIN s.rec : s.rec[q].opened <= when
        BY <1>1, <4>1
      <4> QED BY <1>6, <1>8, <2>2, <4>2
    <3> HIDE DEF p, old
    <3>4. Holds(Append(old, p), Waiting(t.rec, c))
      BY <1>1, <2>1, <3>2, HoldsAppend
    <3>5. InOrder(Append(old, p), t.rec)
      BY <1>1, <2>1, <2>3, <3>3, OrderAppend
    <3> QED BY <3>1, <3>4, <3>5 DEF InLine
  <2>6. CASE c # b
    <3>1. t.unhandled[c] = old
      BY <1>3, <2>4, <2>6
    <3>2. Waiting(t.rec, c) = Waiting(s.rec, c)
      BY <1>6, <1>8, <2>6 DEF Waiting
    <3> QED BY <2>1, <2>3, <3>1, <3>2 DEF InLine
  <2> QED BY <2>5, <2>6
<1>12. ASSUME NEW c \in Bots PROVE Tabled(t, c)
  <2>0. s.requests \in [Bots -> Dicts(Nat, Nat)]
    BY <1>1, TablesAre
  <2>1. CASE c # b
    <3>1. Tabled(s, c) /\ t.requests[c] = s.requests[c]
      BY <1>3, <2>0, <2>1 DEF Core
    <3>2. RequestsAt(t, c) = RequestsAt(s, c) /\ \A q \in RequestsAt(s, c) : t.rec[q] = s.rec[q]
      BY <1>6, <1>8, <2>1 DEF RequestsAt
    <3> QED BY <3>1, <3>2 DEF Tabled
  <2>2. CASE c = b
    <3> DEFINE f == s.requests[b]
               g == t.requests[b]
    <3>1. g = Put(f, id, p)
      BY <1>1, <1>3, <2>0
    <3>2. DOMAIN g = DOMAIN f \cup {id} /\ g[id] = p /\ \A x \in DOMAIN f : x # id => g[x] = f[x]
      <4> HIDE DEF f, g, p
      <4> QED BY <3>1 DEF Put
    <3> HIDE DEF g
    <3>3. IsFiniteSet(DOMAIN g)
      <4>1. IsFiniteSet(DOMAIN f)
        BY DEF NearlyTabled
      <4>2. IsFiniteSet(DOMAIN f \cup {id})
        BY <4>1, FS_AddElement, Zenon
      <4> QED BY <3>2, <4>2, Zenon
    <3>4. RequestsAt(t, b) = RequestsAt(s, b) \cup {p} /\ \A q \in RequestsAt(s, b) : t.rec[q] = s.rec[q]
      BY <1>6, <1>8 DEF RequestsAt
    <3>5. ASSUME NEW x \in DOMAIN g PROVE g[x] \in RequestsAt(t, b) /\ t.rec[g[x]].id = x
      <4>1. CASE x = id
        BY <1>6, <1>8, <3>2, <3>4, <4>1
      <4>2. CASE x # id
        <5>1. f[x] \in RequestsAt(s, b) /\ s.rec[f[x]].id = x /\ g[x] = f[x]
          BY <3>2, <4>2 DEF NearlyTabled
        <5> QED BY <3>4, <5>1
      <4> QED BY <4>1, <4>2
    <3>6. ASSUME NEW q \in RequestsAt(t, b) PROVE t.rec[q].id \in DOMAIN g /\ g[t.rec[q].id] = q
      <4>1. CASE q = p
        BY <1>6, <1>8, <3>2, <4>1
      <4>2. CASE q \in RequestsAt(s, b)
        <5>1. s.rec[q].id # id /\ s.rec[q].id \in DOMAIN f /\ f[s.rec[q].id] = q /\ t.rec[q] = s.rec[q]
          BY <3>4, <4>2 DEF NearlyTabled
        <5> QED BY <3>2, <5>1
      <4> QED BY <3>4, <4>1, <4>2
    <3> QED BY <2>2, <3>3, <3>5, <3>6, Zenon DEF Tabled, g
  <2> QED BY <2>1, <2>2
<1>13. t \in Tables
  <2>1. t.rec \in Records
    <3>1. s.rec \in Records
      BY <1>1, TablesAre
    <3> HIDE DEF p
    <3>2. Put(s.rec, p, r) \in Dicts(Nat, Requests)
      BY <1>1, <1>6, <3>1, PutIn DEF Records
    <3> QED BY <1>3, <3>2 DEF Records
  <2>2. t.requests \in [Bots -> Dicts(Nat, Nat)]
    <3>1. s.requests \in [Bots -> Dicts(Nat, Nat)]
      BY <1>1, TablesAre
    <3> HIDE DEF p
    <3>2. Put(s.requests[b], id, p) \in Dicts(Nat, Nat)
      BY <1>1, <3>1, PutIn
    <3> QED BY <1>3, <3>1, <3>2
  <2>3. t.unhandled \in [Bots -> Seq(Nat)]
    <3>1. s.unhandled \in [Bots -> Seq(Nat)]
      BY <1>1, TablesAre
    <3>2. Append(s.unhandled[b], p) \in Seq(Nat)
      BY <1>1, <3>1
    <3> QED BY <1>3, <3>1, <3>2
  <2>4. t.bynick \in Dicts(Nicks, Seq(Nat)) /\ t.byhand \in Dicts(Names, Seq(Nat))
    BY <1>10, ListsAre, Zenon DEF Listing
  <2> QED BY <1>4, <2>1, <2>2, <2>3, <2>4
<1>14. Core(t, Bots)
  BY <1>9, <1>11, <1>12, <1>13 DEF Core
<1>15. Tied(n, t.rec) /\ Followed(n, t.rec)
  BY <1>5, <1>6, <1>8, SMTT(30) DEF Tied, Followed
<1>16. Staffed(n, t)
  BY <1>3, <1>6, <1>8 DEF Staffed, Level
<1>17. Kept(n, t)
  BY <1>10, <1>14, <1>15, <1>16 DEF Kept, Filed, Listing
<1> QED BY <1>17 DEF t

\* run_empty_interval, and the places that start and stop the alert, change
\* no request.
LEMMA AlertIs ==
  ASSUME NEW n, NEW s \in Tables, NEW b \in Bots
  PROVE  /\ RunEmpty(n, s, b) \in Tables /\ SameRequests(s, RunEmpty(n, s, b))
         /\ HelperLeft(n, s, b) \in Tables /\ SameRequests(s, HelperLeft(n, s, b))
         /\ [s EXCEPT !.timer[b] = 0] \in Tables /\ SameRequests(s, [s EXCEPT !.timer[b] = 0])
         /\ [s EXCEPT !.empty[b] = FALSE, !.timer[b] = 0] \in Tables
         /\ SameRequests(s, [s EXCEPT !.empty[b] = FALSE, !.timer[b] = 0])
<1>1. s.timer[b] \in Nat
  BY DEF Tables
<1>2. ASSUME NEW e \in BOOLEAN
      PROVE  [s EXCEPT !.empty[b] = e] \in Tables /\ SameRequests(s, [s EXCEPT !.empty[b] = e])
  BY DEF Tables, SameRequests
<1>3. ASSUME NEW e \in BOOLEAN, NEW i \in Nat
      PROVE  [s EXCEPT !.empty[b] = e, !.timer[b] = i] \in Tables /\ SameRequests(s, [s EXCEPT !.empty[b] = e, !.timer[b] = i])
  BY DEF Tables, SameRequests
<1>4. ASSUME NEW i \in Nat
      PROVE  [s EXCEPT !.timer[b] = i] \in Tables /\ SameRequests(s, [s EXCEPT !.timer[b] = i])
  BY DEF Tables, SameRequests
<1>5. RunEmpty(n, s, b) \in {[s EXCEPT !.empty[b] = FALSE], [s EXCEPT !.empty[b] = TRUE],
                              [s EXCEPT !.empty[b] = TRUE, !.timer[b] = s.timer[b] + 1]}
  BY Zenon DEF RunEmpty
<1>6. HelperLeft(n, s, b) \in {[s EXCEPT !.empty[b] = FALSE], [s EXCEPT !.empty[b] = TRUE],
                                [s EXCEPT !.empty[b] = TRUE, !.timer[b] = 1]}
  BY Zenon DEF HelperLeft
<1>7. s.timer[b] + 1 \in Nat /\ 1 \in Nat /\ 0 \in Nat
  BY <1>1
<1>8. RunEmpty(n, s, b) \in Tables /\ SameRequests(s, RunEmpty(n, s, b))
  BY <1>2, <1>3, <1>5, <1>7, Zenon
<1>9. HelperLeft(n, s, b) \in Tables /\ SameRequests(s, HelperLeft(n, s, b))
  BY <1>2, <1>3, <1>6, <1>7, Zenon
<1> QED BY <1>3, <1>4, <1>7, <1>8, <1>9, Zenon

\* create_request is the reuse of the id, the new request, and perhaps the
\* start of the alert.
LEMMA CreateIs ==
  ASSUME NEW n, NEW s, NEW u, NEW b, NEW when
  PROVE  LET id == s.last[b] + 1
             t == Opened(n, Reused(n, s, b, id), s.made + 1, u, b, id, when) IN
         CreateRequest(n, s, u, b, when) \in {t, RunEmpty(n, [t EXCEPT !.timer[b] = 0], b)}
<1> DEFINE id == s.last[b] + 1
           t == Opened(n, Reused(n, s, b, id), s.made + 1, u, b, id, when)
           c == t.opt[b].on_join /\ t.unhandled[b] = <<s.made + 1>> /\ t.empty[b]
<1>1. CreateRequest(n, s, u, b, when) = IF c THEN RunEmpty(n, [t EXCEPT !.timer[b] = 0], b) ELSE t
  BY Zenon DEF CreateRequest, Opened, Reused, NewRequest
<1> HIDE DEF t, c
<1>2. CreateRequest(n, s, u, b, when) \in {t, RunEmpty(n, [t EXCEPT !.timer[b] = 0], b)}
  BY <1>1
<1> QED BY <1>2 DEF t

\* create_request keeps the invariant.
LEMMA CreateKeeps ==
  ASSUME NEW n, NetOk(n), NEW s, Kept(n, s), NEW b \in s.up, NEW u \in Users, n.nick[u] # NULL
  PROVE  \A t \in Opens(n, s, u, b) : Kept(n, t)
<1> SUFFICES ASSUME NEW when \in {s.now, s.now + 1} PROVE Kept(n, CreateRequest(n, s, u, b, when))
  BY DEF Opens
<1> DEFINE id == s.last[b] + 1
           old == Reused(n, s, b, id)
           t == Opened(n, old, s.made + 1, u, b, id, when)
<1>1. Core(s, Bots) /\ Listing(n, s) /\ Tied(n, s.rec) /\ s \in Tables /\ Followed(n, s.rec) /\ Staffed(n, s)
  BY DEF Kept, Filed, Listing, Core
<1>2. b \in Bots /\ id \in Nat /\ id > 0 /\ n \in Nets
  BY <1>1, TablesAre DEF Tables, NetOk
<1> HIDE DEF id
<1>3. /\ Core(old, Bots \ {b}) /\ NearlyTabled(old, b, id) /\ Listing(n, old) /\ Fewer(s, old)
      /\ old.made = s.made /\ old.now = s.now /\ old.up = s.up
  BY <1>1, <1>2, ReuseKeeps
<1> HIDE DEF old
<1>4. Tied(n, old.rec) /\ Followed(n, old.rec) /\ Staffed(n, old)
  BY <1>1, <1>3, FewerKeeps
<1>5. Kept(n, t)
  <2>1. when \in {old.now, old.now + 1} /\ b \in old.up
    BY <1>3
  <2>2. Kept(n, Opened(n, old, old.made + 1, u, b, id, when))
    BY <1>2, <1>3, <1>4, <2>1, OpenKeeps
  <2> QED BY <1>3, <2>2
<1>6. CreateRequest(n, s, u, b, when) \in {t, RunEmpty(n, [t EXCEPT !.timer[b] = 0], b)}
  BY CreateIs DEF id, old
<1> HIDE DEF t
<1>7. t \in Tables
  BY <1>5 DEF Kept, Filed, Core
<1> DEFINE v == [t EXCEPT !.timer[b] = 0]
<1>8. v \in Tables /\ SameRequests(t, v)
  BY <1>2, <1>7, AlertIs
<1> HIDE DEF v
<1>9. Kept(n, v)
  BY <1>5, <1>8, SameKeeps
<1>10. Kept(n, RunEmpty(n, v, b))
  BY <1>2, <1>8, <1>9, AlertIs, SameKeeps
<1> QED BY <1>5, <1>6, <1>10 DEF v

-----------------------------------------------------------------------------
(* The user or the account of one request changes.                          *)

\* The requests, with another user or another account of p.
WithUser(rec, p, u) == [rec EXCEPT ![p] = [rec[p] EXCEPT !.user = u]]
WithHandle(rec, p, h) == [rec EXCEPT ![p] = [rec[p] EXCEPT !.handle = h]]

\* rec2 is rec with another user, or another account, of p.
UserSet(rec, p, u, rec2) ==
  /\ rec2 \in Records /\ DOMAIN rec2 = DOMAIN rec /\ \A q \in DOMAIN rec : q # p => rec2[q] = rec[q]
  /\ rec2[p].user = u /\ rec2[p].handle = rec[p].handle
  /\ \A q \in DOMAIN rec : rec2[q].hs = rec[q].hs /\ rec2[q].id = rec[q].id
                           /\ rec2[q].helper = rec[q].helper /\ rec2[q].opened = rec[q].opened
HandleSet(rec, p, h, rec2) ==
  /\ rec2 \in Records /\ DOMAIN rec2 = DOMAIN rec /\ \A q \in DOMAIN rec : q # p => rec2[q] = rec[q]
  /\ rec2[p].user = rec[p].user /\ rec2[p].handle = h
  /\ \A q \in DOMAIN rec : rec2[q].hs = rec[q].hs /\ rec2[q].id = rec[q].id
                           /\ rec2[q].helper = rec[q].helper /\ rec2[q].opened = rec[q].opened

\* Replacing a request by another keeps the table of requests one.
LEMMA RecordSet ==
  ASSUME NEW rec \in Records, NEW p \in DOMAIN rec, NEW r \in Requests
  PROVE  [rec EXCEPT ![p] = r] \in Records
<1>1. DOMAIN rec \subseteq Nat /\ \A q \in DOMAIN rec : rec[q] \in Requests
  BY DictIs DEF Records
<1> DEFINE f == [rec EXCEPT ![p] = r]
<1>2. DOMAIN f \subseteq Nat /\ f = [q \in DOMAIN f |-> f[q]] /\ \A q \in DOMAIN f : f[q] \in Requests
  BY <1>1
<1> HIDE DEF f
<1>3. f \in Records
  BY <1>2, DictIs DEF Records
<1> QED BY <1>3 DEF f

\* A request whose user, or account, is assigned is the same otherwise.
LEMMA SetsAre ==
  ASSUME NEW rec \in Records, NEW p \in DOMAIN rec
  PROVE  /\ \A u \in Optional(Users) : UserSet(rec, p, u, WithUser(rec, p, u))
         /\ \A h \in Optional(Handles) : HandleSet(rec, p, h, WithHandle(rec, p, h))
<1>1. rec[p] \in Requests
  BY DictIs DEF Records
<1>2. ASSUME NEW u \in Optional(Users) PROVE UserSet(rec, p, u, WithUser(rec, p, u))
  <2> DEFINE r == [rec[p] EXCEPT !.user = u]
             f == [rec EXCEPT ![p] = r]
  <2>1. r \in Requests /\ r.user = u /\ r.handle = rec[p].handle /\ r.hs = rec[p].hs /\ r.id = rec[p].id
        /\ r.helper = rec[p].helper /\ r.opened = rec[p].opened
    BY <1>1 DEF Requests, Optional
  <2> HIDE DEF r
  <2>2. f \in Records
    BY <2>1, RecordSet
  <2>3. DOMAIN f = DOMAIN rec /\ f[p] = r /\ \A q \in DOMAIN rec : q # p => f[q] = rec[q]
    OBVIOUS
  <2> HIDE DEF f
  <2>4. UserSet(rec, p, u, f)
    BY <2>1, <2>2, <2>3 DEF UserSet
  <2>5. WithUser(rec, p, u) = f
    BY Zenon DEF WithUser, f, r
  <2> QED BY <2>4, <2>5
<1>3. ASSUME NEW h \in Optional(Handles) PROVE HandleSet(rec, p, h, WithHandle(rec, p, h))
  <2> DEFINE r == [rec[p] EXCEPT !.handle = h]
             f == [rec EXCEPT ![p] = r]
  <2>1. r \in Requests /\ r.handle = h /\ r.user = rec[p].user /\ r.hs = rec[p].hs /\ r.id = rec[p].id
        /\ r.helper = rec[p].helper /\ r.opened = rec[p].opened
    BY <1>1 DEF Requests, Optional
  <2> HIDE DEF r
  <2>2. f \in Records
    BY <2>1, RecordSet
  <2>3. DOMAIN f = DOMAIN rec /\ f[p] = r /\ \A q \in DOMAIN rec : q # p => f[q] = rec[q]
    OBVIOUS
  <2> HIDE DEF f
  <2>4. HandleSet(rec, p, h, f)
    BY <2>1, <2>2, <2>3 DEF HandleSet
  <2>5. WithHandle(rec, p, h) = f
    BY Zenon DEF WithHandle, f, r
  <2> QED BY <2>4, <2>5
<1> QED BY <1>2, <1>3

\* t is s with other requests, lists of nicks and lists of accounts.
EditedTo(s, e, k, d, t) ==
  /\ t.rec = e /\ t.bynick = k /\ t.byhand = d
  /\ t.requests = s.requests /\ t.unhandled = s.unhandled /\ t.staff = s.staff /\ t.opt = s.opt
  /\ t.up = s.up /\ t.made = s.made /\ t.now = s.now
  /\ (e \in Records /\ k \in Dicts(Nicks, Seq(Nat)) /\ d \in Dicts(Names, Seq(Nat))) => t \in Tables

\* A change of users, accounts and indexes, in the forms it is written in,
\* changes nothing else.
LEMMA EditedIs ==
  ASSUME NEW s \in Tables, NEW e, NEW k, NEW d
  PROVE  /\ EditedTo(s, e, k, s.byhand, [s EXCEPT !.rec = e, !.bynick = k])
         /\ EditedTo(s, e, s.bynick, d, [s EXCEPT !.rec = e, !.byhand = d])
         /\ EditedTo(s, e, s.bynick, s.byhand, [s EXCEPT !.rec = e])
         /\ EditedTo(s, s.rec, k, s.byhand, [s EXCEPT !.bynick = k])
         /\ EditedTo(s, s.rec, s.bynick, d, [s EXCEPT !.byhand = d])
<1>1. EditedTo(s, e, k, s.byhand, [s EXCEPT !.rec = e, !.bynick = k])
  BY DEF Tables, EditedTo
<1>2. EditedTo(s, e, s.bynick, d, [s EXCEPT !.rec = e, !.byhand = d])
  BY DEF Tables, EditedTo
<1>3. EditedTo(s, e, s.bynick, s.byhand, [s EXCEPT !.rec = e])
  BY DEF Tables, EditedTo
<1>4. EditedTo(s, s.rec, k, s.byhand, [s EXCEPT !.bynick = k])
  BY DEF Tables, EditedTo
<1>5. EditedTo(s, s.rec, s.bynick, d, [s EXCEPT !.byhand = d])
  BY DEF Tables, EditedTo
<1> QED BY <1>1, <1>2, <1>3, <1>4, <1>5

\* associate_requests_bybot's step, and the assignments of the other
\* handlers, are such changes.
LEMMA EditsAre ==
  ASSUME NEW n, NEW s \in Tables, NEW p, NEW u
  PROVE  /\ EditedTo(s, WithUser(s.rec, p, u), Push(s.bynick, n.nick[u], p), s.byhand, Adopt(n, s, p, u))
         /\ EditedTo(s, WithUser(s.rec, p, NULL), s.bynick, s.byhand, [s EXCEPT !.rec[p].user = NULL])
         /\ \A h, d : EditedTo(s, WithHandle(s.rec, p, h), s.bynick, d, [s EXCEPT !.rec[p].handle = h, !.byhand = d])
<1>1. EditedTo(s, WithUser(s.rec, p, u), Push(s.bynick, n.nick[u], p), s.byhand, Adopt(n, s, p, u))
  <2> DEFINE e == WithUser(s.rec, p, u)
             k == Push(s.bynick, n.nick[u], p)
  <2>1. Adopt(n, s, p, u) = [s EXCEPT !.rec = e, !.bynick = k]
    BY Zenon DEF Adopt, WithUser
  <2> HIDE DEF e, k
  <2>2. EditedTo(s, e, k, s.byhand, [s EXCEPT !.rec = e, !.bynick = k])
    BY EditedIs, Zenon
  <2> QED BY <2>1, <2>2, Zenon DEF e, k
<1>2. EditedTo(s, WithUser(s.rec, p, NULL), s.bynick, s.byhand, [s EXCEPT !.rec[p].user = NULL])
  <2> DEFINE e == WithUser(s.rec, p, NULL)
  <2>1. [s EXCEPT !.rec[p].user = NULL] = [s EXCEPT !.rec = e]
    BY Zenon DEF WithUser
  <2> HIDE DEF e
  <2>2. EditedTo(s, e, s.bynick, s.byhand, [s EXCEPT !.rec = e])
    BY EditedIs, Zenon
  <2> QED BY <2>1, <2>2, Zenon DEF e
<1>3. ASSUME NEW h, NEW d
      PROVE  EditedTo(s, WithHandle(s.rec, p, h), s.bynick, d, [s EXCEPT !.rec[p].handle = h, !.byhand = d])
  <2> DEFINE e == WithHandle(s.rec, p, h)
  <2>1. [s EXCEPT !.rec[p].handle = h, !.byhand = d] = [s EXCEPT !.rec = e, !.byhand = d]
    BY Zenon DEF WithHandle
  <2> HIDE DEF e
  <2>2. EditedTo(s, e, s.bynick, d, [s EXCEPT !.rec = e, !.byhand = d])
    BY EditedIs, Zenon
  <2> QED BY <2>1, <2>2, Zenon DEF e
<1> QED BY <1>1, <1>2, <1>3, Zenon

\* A change of users, accounts and indexes keeps queues, tables and helpers
\* exact.
LEMMA EditKeepsCore ==
  ASSUME NEW s, NEW B, Core(s, B), NEW e, NEW k, NEW d, NEW t, EditedTo(s, e, k, d, t), t \in Tables,
         DOMAIN e = DOMAIN s.rec,
         \A q \in DOMAIN s.rec : e[q].hs = s.rec[q].hs /\ e[q].id = s.rec[q].id
                                 /\ e[q].helper = s.rec[q].helper /\ e[q].opened = s.rec[q].opened
  PROVE  /\ Core(t, B) /\ \A n : Staffed(n, s) => Staffed(n, t)
<1>1. /\ t.rec = e /\ t.requests = s.requests /\ t.unhandled = s.unhandled /\ t.staff = s.staff /\ t.up = s.up
      /\ t.made = s.made /\ t.now = s.now
  BY DEF EditedTo
<1>2. SameCore(s, t)
  BY <1>1 DEF SameCore
<1>3. Core(t, B)
  BY <1>2, CoreKept
<1>4. ASSUME NEW n, Staffed(n, s) PROVE Staffed(n, t)
  BY <1>1, <1>4 DEF Staffed, Level
<1> QED BY <1>3, <1>4

\* A request that has no user gets one: it is added to the list of the nick
\* and to nothing else.
LEMMA AdoptLists ==
  ASSUME NEW n, NEW s, Core(s, Bots), Listing(n, s), NEW p \in DOMAIN s.rec, s.rec[p].user = NULL,
         NEW u \in Users, n.nick[u] \in Nicks
  PROVE  LET t == Adopt(n, s, p, u) IN
         Core(t, Bots) /\ Listing(n, t) /\ UserSet(s.rec, p, u, t.rec) /\ t.up = s.up /\ t.staff = s.staff
<1> DEFINE t == Adopt(n, s, p, u)
           e == WithUser(s.rec, p, u)
           d == Push(s.bynick, n.nick[u], p)
<1>1. s \in Tables /\ s.rec \in Records /\ p \in Nat /\ u # NULL
  BY RequestIs, TablesAre, HelpServAssumption DEF Core
<1>2. EditedTo(s, e, d, s.byhand, t)
  BY <1>1, EditsAre
<1>3. UserSet(s.rec, p, u, e)
  BY <1>1, SetsAre DEF Optional
<1> HIDE DEF t, e, d
<1>4. /\ t.rec = e /\ t.bynick = d /\ t.byhand = s.byhand /\ t.up = s.up /\ t.staff = s.staff
      /\ (e \in Records /\ d \in Dicts(Nicks, Seq(Nat)) /\ s.byhand \in Dicts(Names, Seq(Nat))) => t \in Tables
  BY <1>2, Zenon DEF EditedTo
<1>5. /\ e \in Records /\ DOMAIN e = DOMAIN s.rec /\ e[p].user = u /\ e[p].handle = s.rec[p].handle
      /\ \A q \in DOMAIN s.rec : q # p => e[q] = s.rec[q]
      /\ \A q \in DOMAIN s.rec : e[q].hs = s.rec[q].hs /\ e[q].id = s.rec[q].id
                                 /\ e[q].helper = s.rec[q].helper /\ e[q].opened = s.rec[q].opened
  BY <1>3 DEF UserSet
<1>6. Lists(d, ByNick(n.nick, e))
  <2>1. Lists(s.bynick, ByNick(n.nick, s.rec))
    BY DEF Listing
  <2>2. DOMAIN e = DOMAIN s.rec \cup {p} /\ \A q \in DOMAIN s.rec : q # p => e[q].user = s.rec[q].user
    BY <1>5
  <2>3. e[p].user # NULL /\ n.nick[e[p].user] \in Nicks
    BY <1>1, <1>5
  <2>4. Lists(Push(s.bynick, n.nick[e[p].user], p), ByNick(n.nick, e))
    BY <1>1, <2>1, <2>2, <2>3, NickGains
  <2> QED BY <1>5, <2>4 DEF d
<1>7. Lists(s.byhand, ByName(n.name, e))
  <2>1. Lists(s.byhand, ByName(n.name, s.rec))
    BY DEF Listing
  <2>2. \A q \in DOMAIN s.rec : e[q].handle = s.rec[q].handle
    BY <1>5
  <2>3. ByName(n.name, e) = ByName(n.name, s.rec)
    BY <1>5, <2>2, NameSame
  <2> QED BY <2>1, <2>3
<1>8. t \in Tables
  BY <1>4, <1>5, <1>6, <1>7, ListsAre
<1>9. Core(t, Bots)
  BY <1>2, <1>5, <1>8, EditKeepsCore
<1>10. Listing(n, t)
  BY <1>4, <1>6, <1>7 DEF Listing
<1> QED BY <1>3, <1>4, <1>9, <1>10 DEF t

\* A request nobody brought back becomes one of a connection of its account,
\* and the invariant is kept.
LEMMA AdoptKeeps ==
  ASSUME NEW n, NetOk(n), NEW s, Kept(n, s), NEW p \in DOMAIN s.rec, s.rec[p].user = NULL,
         NEW u \in Users, n.nick[u] # NULL, s.rec[p].handle = n.acct[u]
  PROVE  LET t == Adopt(n, s, p, u) IN
         /\ Kept(n, t) /\ t.up = s.up /\ UserSet(s.rec, p, u, t.rec)
<1> DEFINE t == Adopt(n, s, p, u)
<1>1. Core(s, Bots) /\ Listing(n, s) /\ n.nick[u] \in Nicks
  BY DEF Kept, Filed, Listing, NetOk, Nets, Optional
<1>2. Core(t, Bots) /\ Listing(n, t) /\ UserSet(s.rec, p, u, t.rec) /\ t.up = s.up /\ t.staff = s.staff
  BY <1>1, AdoptLists, SMTT(30)
<1> HIDE DEF t
<1>3. Tied(n, t.rec) /\ Followed(n, t.rec) /\ Staffed(n, t)
  <2>1. Tied(n, s.rec) /\ Followed(n, s.rec) /\ Staffed(n, s)
    BY DEF Kept, Filed
  <2>2. \A q \in DOMAIN s.rec : q = p \/ t.rec[q] = s.rec[q]
    BY <1>2 DEF UserSet
  <2> QED BY <1>2, <2>1, <2>2 DEF UserSet, Tied, Followed, Staffed, Level
<1>4. Kept(n, t)
  BY <1>2, <1>3 DEF Kept, Filed, Listing
<1> QED BY <1>2, <1>4 DEF t

\* The requests in S of the account of u that nobody brought back.
Mine(n, s, u) == IF n.acct[u] = NULL THEN <<>> ELSE Listed(s.byhand, n.name[n.acct[u]])
Stray(n, s, u, S) == Only(Mine(n, s, u), S \cap RequestsOf(s, NULL))

\* What associate_requests_bybot goes over are requests of the account of the
\* user that have no user.
LEMMA StrayIs ==
  ASSUME NEW n, NetOk(n), NEW s, Kept(n, s), NEW u \in Users, NEW S
  PROVE  \E T : /\ Holds(Stray(n, s, u, S), T)
                /\ \A p \in T : /\ p \in DOMAIN s.rec /\ p \in S /\ s.rec[p].user = NULL
                                /\ s.rec[p].handle = n.acct[u] /\ n.acct[u] # NULL
<1> DEFINE mine == Mine(n, s, u)
           M == IF n.acct[u] = NULL THEN {} ELSE AtName(n.name, s.rec, n.name[n.acct[u]])
           U == S \cap RequestsOf(s, NULL)
           list == Only(mine, U)
<1>1. Holds(mine, M)
  <2>1. CASE n.acct[u] = NULL
    BY <2>1, HoldsNone DEF Mine
  <2>2. CASE n.acct[u] # NULL
    <3> DEFINE k == n.name[n.acct[u]]
               A == ByName(n.name, s.rec)
    <3>1. k \in Names
      BY <2>2 DEF NetOk, Nets, Optional
    <3>2. Lists(s.byhand, A) /\ DOMAIN A = Names /\ A[k] = AtName(n.name, s.rec, k)
      BY <3>1 DEF Kept, Filed, ByName
    <3> HIDE DEF A, k
    <3>3. Holds(Listed(s.byhand, k), AtName(n.name, s.rec, k))
      BY <3>1, <3>2 DEF Lists
    <3> QED BY <2>2, <3>3 DEF k, Mine
  <2> QED BY <2>1, <2>2
<1> HIDE DEF mine
<1>2. Holds(list, M \cap U)
  BY <1>1, HoldsOnly
<1>3. ASSUME NEW p \in M \cap U
      PROVE  p \in DOMAIN s.rec /\ p \in S /\ s.rec[p].user = NULL /\ s.rec[p].handle = n.acct[u] /\ n.acct[u] # NULL
  <2>1. n.acct[u] # NULL /\ p \in AtName(n.name, s.rec, n.name[n.acct[u]]) /\ p \in S /\ s.rec[p].user = NULL
    BY DEF RequestsOf
  <2>2. p \in DOMAIN s.rec /\ s.rec[p].handle # NULL /\ n.name[s.rec[p].handle] = n.name[n.acct[u]]
    BY <2>1 DEF AtName
  <2>3. s.rec[p].handle \in Handles /\ n.acct[u] \in Handles /\ n.name[n.acct[u]] # NULL
    BY <2>1, <2>2, RequestIs DEF Kept, Filed, Core, NetOk, Nets, Optional
  <2> QED BY <2>1, <2>2, <2>3 DEF NetOk
<1> HIDE DEF list, M, U
<1>4. \E T : /\ Holds(list, T)
             /\ \A p \in T : /\ p \in DOMAIN s.rec /\ p \in S /\ s.rec[p].user = NULL
                             /\ s.rec[p].handle = n.acct[u] /\ n.acct[u] # NULL
  BY <1>2, <1>3
<1> QED BY <1>4 DEF list, mine, U, Stray

\* associate_requests_bybot keeps the invariant.
LEMMA AssociateKeeps ==
  ASSUME NEW m, NetOk(m), NEW s, Kept(m, s), NEW u \in Users, m.nick[u] # NULL, NEW b
  PROVE  Kept(m, Associate(m, s, u, b)) /\ Associate(m, s, u, b).up = s.up
<1> DEFINE first == s
           list == Stray(m, s, u, RequestsAt(s, b))
           Do(t, p) == Adopt(m, t, p, u)
           Good(i, t) == /\ Kept(m, t) /\ t.up = s.up
                         /\ \A j \in (i + 1)..Len(list) :
                              list[j] \in DOMAIN t.rec /\ t.rec[list[j]].user = NULL /\ t.rec[list[j]].handle = m.acct[u]
           n == Len(list)
           good == [i \in 0..n |-> {t \in Tables : Good(i, t)}]
           do == [i \in 1..n |-> [t \in good[i - 1] |-> Do(t, list[i])]]
           Run(f) == f = [i \in 0..Len(list) |-> IF i = 0 THEN first ELSE Do(f[i - 1], list[i])]
           k == CHOOSE f : Run(f)
<1>0. PICK T : /\ Holds(list, T)
               /\ \A p \in T : p \in DOMAIN s.rec /\ s.rec[p].user = NULL /\ s.rec[p].handle = m.acct[u]
  BY StrayIs
<1>1. /\ n \in Nat
      /\ \A j \in 1..n : list[j] \in DOMAIN s.rec /\ s.rec[list[j]].user = NULL /\ s.rec[list[j]].handle = m.acct[u]
      /\ \A i, j \in 1..n : list[i] = list[j] => i = j
  <2> HIDE DEF list
  <2> QED BY <1>0 DEF Holds
<1>2. ASSUME NEW i \in 1..n, NEW t \in good[i - 1] PROVE Do(t, list[i]) \in good[i]
  <2> HIDE DEF list, do, k, Run
  <2>0. i - 1 \in 0..n /\ i \in 0..n /\ i \in (i - 1 + 1)..n
    BY <1>1
  <2>1. Good(i - 1, t)
    BY <2>0
  <2>2. \A j \in (i + 1)..n : j \in (i - 1 + 1)..n /\ j \in 1..n /\ j # i
    BY <1>1
  <2> DEFINE v == Do(t, list[i])
             p == list[i]
  <2> HIDE DEF n
  <2>3. p \in DOMAIN t.rec /\ t.rec[p].user = NULL /\ t.rec[p].handle = m.acct[u]
    BY <2>0, <2>1 DEF n
  <2>4. Kept(m, v) /\ v.up = t.up /\ UserSet(t.rec, p, u, v.rec)
    BY <2>1, <2>3, AdoptKeeps
  <2> HIDE DEF v
  <2>5. ASSUME NEW j \in (i + 1)..n
        PROVE  list[j] \in DOMAIN v.rec /\ v.rec[list[j]].user = NULL /\ v.rec[list[j]].handle = m.acct[u]
    <3>1. list[j] \in DOMAIN t.rec /\ t.rec[list[j]].user = NULL /\ t.rec[list[j]].handle = m.acct[u]
      BY <2>1, <2>2 DEF n
    <3>2. list[j] # p
      BY <1>1, <2>2
    <3> QED BY <2>4, <3>1, <3>2 DEF UserSet
  <2>6. v \in Tables
    BY <2>4 DEF Kept, Filed, Core
  <2>7. Good(i, v)
    BY <2>1, <2>4, <2>5 DEF n
  <2> HIDE DEF Good
  <2>8. v \in good[i]
    BY <2>0, <2>6, <2>7
  <2> QED BY <2>8 DEF v
<1>3. first \in good[0]
  <2>1. s \in Tables /\ Kept(m, s) /\ 0 \in 0..n
    BY <1>1 DEF Kept, Filed, Core
  <2>2. \A j \in (0 + 1)..n : j \in 1..n
    BY <1>1
  <2> HIDE DEF list, n
  <2>3. Good(0, s)
    BY <1>1, <2>1, <2>2 DEF n
  <2> HIDE DEF Good
  <2> QED BY <2>1, <2>3
<1>4. \A t \in good[n] : Good(n, t)
  <2>1. n \in 0..n
    BY <1>1
  <2> HIDE DEF n, Good
  <2> QED BY <2>1
<1>5. Associate(m, s, u, b) = k[n]
  BY DEF Associate, Stray, Mine, Each
<1>6. \A i \in 1..n : \A t \in good[i - 1] : do[i][t] = Do(t, list[i])
  <2> HIDE DEF good, n, Do
  <2> QED OBVIOUS
<1>7. n = Len(list)
  OBVIOUS
<1> HIDE DEF good, do, n, Do, list
<1>8. Loops(n, good, first, do)
  BY <1>1, <1>2, <1>3, <1>6 DEF Loops
<1>9. PICK r : /\ r = [i \in 0..n |-> IF i = 0 THEN first ELSE do[i][r[i - 1]]]
               /\ \A i \in 1..n : r[i - 1] \in good[i - 1] /\ i \in 0..n /\ i - 1 \in 0..n /\ i # 0
  BY <1>8, LoopRuns
<1>10. Run(r)
  <2>1. \A i \in 0..n : i = 0 \/ i \in 1..n
    BY <1>1
  <2>2. \A i \in 0..n : (IF i = 0 THEN first ELSE do[i][r[i - 1]]) = IF i = 0 THEN first ELSE Do(r[i - 1], list[i])
    BY <1>6, <1>9, <2>1
  <2> QED BY <1>7, <1>9, <2>2
<1> HIDE DEF Run
<1>11. Run(k)
  BY <1>10
<1> HIDE DEF k
<1>12. k[0] \in good[0] /\ \A i \in 1..n : k[i - 1] \in good[i - 1] => k[i] \in good[i]
  <2>1. 0 \in 0..n
    BY <1>1
  <2>2. k[0] = first /\ \A i \in 1..n : k[i] = Do(k[i - 1], list[i])
    BY <1>7, <1>9, <1>11, <2>1 DEF Run
  <2> QED BY <1>2, <1>3, <2>2
<1>13. k[n] \in good[n]
  BY <1>1, <1>12, LoopStays
<1>14. Good(n, Associate(m, s, u, b))
  BY <1>4, <1>5, <1>13
<1> QED BY <1>14

\* associate_requests_bychan, for every channel of the user, keeps the
\* invariant.
LEMMA AssociateAllKeeps ==
  ASSUME NEW m, NetOk(m), NEW s, Kept(m, s), NEW u \in Users, m.nick[u] # NULL
  PROVE  Kept(m, AssociateAll(m, s, u)) /\ AssociateAll(m, s, u).up = s.up
<1> DEFINE first == s
           list == SetToSeq(m.on[u])
           Do(t, b) == Associate(m, t, u, b)
           Good(i, t) == Kept(m, t) /\ t.up = s.up
           n == Len(list)
           good == [i \in 0..n |-> {t \in Tables : Good(i, t)}]
           do == [i \in 1..n |-> [t \in good[i - 1] |-> Do(t, list[i])]]
           Run(f) == f = [i \in 0..Len(list) |-> IF i = 0 THEN first ELSE Do(f[i - 1], list[i])]
           k == CHOOSE f : Run(f)
<1>1. n \in Nat
  <2>1. m.on[u] \in SUBSET Bots
    BY DEF NetOk, Nets
  <2>2. IsFiniteSet(m.on[u])
    BY <2>1, HelpServAssumption, FS_Subset
  <2> QED BY <2>2, SetIsListed
<1>2. ASSUME NEW i \in 1..n, NEW t \in good[i - 1] PROVE Do(t, list[i]) \in good[i]
  <2>0. i - 1 \in 0..n /\ i \in 0..n
    BY <1>1
  <2>1. Good(i - 1, t)
    BY <2>0
  <2> DEFINE v == Do(t, list[i])
  <2>2. Kept(m, v) /\ v.up = t.up
    BY <2>1, AssociateKeeps
  <2> HIDE DEF v, list, n
  <2>3. v \in Tables
    BY <2>2 DEF Kept, Filed, Core
  <2>4. v \in good[i]
    BY <2>0, <2>1, <2>2, <2>3
  <2> QED BY <2>4 DEF v
<1>3. first \in good[0]
  <2>1. s \in Tables /\ 0 \in 0..n
    BY <1>1 DEF Kept, Filed, Core
  <2> QED BY <2>1
<1>4. \A t \in good[n] : Good(n, t)
  <2>1. n \in 0..n
    BY <1>1
  <2> HIDE DEF n, Good
  <2> QED BY <2>1
<1>5. AssociateAll(m, s, u) = k[n]
  BY DEF AssociateAll, Each
<1>6. \A i \in 1..n : \A t \in good[i - 1] : do[i][t] = Do(t, list[i])
  <2> HIDE DEF good, n, Do
  <2> QED OBVIOUS
<1>7. n = Len(list)
  OBVIOUS
<1> HIDE DEF good, do, n, Do, list
<1>8. Loops(n, good, first, do)
  BY <1>1, <1>2, <1>3, <1>6 DEF Loops
<1>9. PICK r : /\ r = [i \in 0..n |-> IF i = 0 THEN first ELSE do[i][r[i - 1]]]
               /\ \A i \in 1..n : r[i - 1] \in good[i - 1] /\ i \in 0..n /\ i - 1 \in 0..n /\ i # 0
  BY <1>8, LoopRuns
<1>10. Run(r)
  <2>1. \A i \in 0..n : i = 0 \/ i \in 1..n
    BY <1>1
  <2>2. \A i \in 0..n : (IF i = 0 THEN first ELSE do[i][r[i - 1]]) = IF i = 0 THEN first ELSE Do(r[i - 1], list[i])
    BY <1>6, <1>9, <2>1
  <2> QED BY <1>7, <1>9, <2>2
<1> HIDE DEF Run
<1>11. Run(k)
  BY <1>10
<1> HIDE DEF k
<1>12. k[0] \in good[0] /\ \A i \in 1..n : k[i - 1] \in good[i - 1] => k[i] \in good[i]
  <2>1. 0 \in 0..n
    BY <1>1
  <2>2. k[0] = first /\ \A i \in 1..n : k[i] = Do(k[i - 1], list[i])
    BY <1>7, <1>9, <1>11, <2>1 DEF Run
  <2> QED BY <1>2, <1>3, <2>2
<1>13. k[n] \in good[n]
  BY <1>1, <1>12, LoopStays
<1>14. Good(n, AssociateAll(m, s, u))
  BY <1>4, <1>5, <1>13
<1> QED BY <1>14

\* Tables and nets are unaffected by who is on which channel.
SameNet(n, m) == m.nick = n.nick /\ m.name = n.name /\ m.acct = n.acct

\* The invariant does not depend on who is on which channel.
LEMMA NetSame ==
  ASSUME NEW n, NEW m, SameNet(n, m), NEW s, Kept(n, s)
  PROVE  Kept(m, s)
BY DEF SameNet, Kept, Filed, Tied, Followed, Staffed, Level

\* A join or part changes neither nicks nor accounts.
LEMMA OnChanges ==
  ASSUME NEW n, NetOk(n), NEW u \in Users, NEW C \in SUBSET Bots
  PROVE  LET m == [n EXCEPT !.on[u] = C] IN NetOk(m) /\ SameNet(n, m)
<1> DEFINE m == [n EXCEPT !.on[u] = C]
<1>1. m \in Nets /\ m.nick = n.nick /\ m.name = n.name /\ m.acct = n.acct
  BY DEF NetOk, Nets
<1> HIDE DEF m
<1>2. NetOk(m) /\ SameNet(n, m)
  BY <1>1 DEF NetOk, SameNet
<1> QED BY <1>2 DEF m

\* What the invariant says about tables, times and lists, in one place.
LEMMA KeptIs ==
  ASSUME NEW n, NEW s, Kept(n, s)
  PROVE  /\ s \in Tables /\ s.up \subseteq Bots /\ s.now \in Nat /\ s.made \in Nat
         /\ \A p \in DOMAIN s.rec : s.rec[p].opened \in 0..s.now
         /\ \A b \in Bots : Tabled(s, b) /\ Holds(ById(s, b), RequestsAt(s, b))
                            /\ Holds(s.unhandled[b], Waiting(s.rec, b))
<1>1. s \in Tables /\ Sane(s) /\ \A b \in Bots : Tabled(s, b) /\ InLine(s, b)
  BY DEF Kept, Filed, Core
<1>2. \A b \in Bots : Holds(ById(s, b), RequestsAt(s, b))
  BY <1>1, ByIdHolds
<1> QED BY <1>1, <1>2, TablesAre DEF Sane, InLine

\* helpserv_usermsg keeps the invariant, whichever request the message goes
\* to.
LEMMA UserMsgKeeps ==
  ASSUME NEW n, NetOk(n), NEW s, Kept(n, s), NEW b \in s.up, NEW u \in Users, n.nick[u] # NULL
  PROVE  \A t \in UserMsg(n, s, u, b) : Kept(n, t)
<1> DEFINE list == Stray(n, s, u, RequestsAt(s, b))
           other == MostRecent(s, Only(Listed(s.byhand, n.name[n.acct[u]]), RequestsAt(s, b) \cap RequestsOf(s, NULL)))
<1> SUFFICES ASSUME NEW t \in UserMsg(n, s, u, b) PROVE Kept(n, t)
  OBVIOUS
<1>1. t = s \/ (n.acct[u] # NULL /\ other # NULL /\ t = Adopt(n, s, other, u)) \/ t \in Opens(n, s, u, b)
  <2> DEFINE known == MostRecent(s, Only(Listed(s.bynick, n.nick[u]), RequestsAt(s, b)))
             kept == IF n.acct[u] = NULL THEN NULL ELSE other
             away == s.opt[b].req = "part" /\ b \notin n.on[u]
  <2>1. UserMsg(n, s, u, b) = IF known # NULL THEN {s}
                               ELSE IF kept # NULL THEN {Adopt(n, s, kept, u)}
                               ELSE IF away THEN {s} ELSE Opens(n, s, u, b)
    BY Zenon DEF UserMsg
  <2> HIDE DEF known, other, away
  <2>2. t \in {s} \/ (kept # NULL /\ t \in {Adopt(n, s, kept, u)}) \/ t \in Opens(n, s, u, b)
    <3> HIDE DEF kept
    <3> QED BY <2>1
  <2>3. n.acct[u] = NULL => kept = NULL
    BY Zenon
  <2>4. n.acct[u] # NULL => kept = other
    BY Zenon
  <2> HIDE DEF kept
  <2> QED BY <2>2, <2>3, <2>4
<1>2. n.acct[u] # NULL => other = MostRecent(s, list)
  BY DEF Stray, Mine
<1> HIDE DEF list, other
<1>3. ASSUME n.acct[u] # NULL, other # NULL PROVE Kept(n, Adopt(n, s, other, u))
  <2>1. PICK T : Holds(list, T) /\ \A p \in T : p \in DOMAIN s.rec /\ s.rec[p].user = NULL /\ s.rec[p].handle = n.acct[u]
    BY StrayIs DEF list
  <2>2. T # {}
    <3> SUFFICES ASSUME T = {} PROVE FALSE
      OBVIOUS
    <3>1. list = <<>>
      BY <2>1, HoldsNone
    <3>2. MostRecent(s, list) = NULL
      BY <3>1 DEF MostRecent
    <3> QED BY <1>2, <1>3, <3>2
  <2>3. s.now \in Nat /\ \A p \in T : s.rec[p].opened \in 0..s.now
    BY <2>1, KeptIs
  <2>4. MostRecent(s, list) \in T
    BY <2>1, <2>2, <2>3, RecentIs
  <2>5. other \in DOMAIN s.rec /\ s.rec[other].user = NULL /\ s.rec[other].handle = n.acct[u]
    BY <1>2, <1>3, <2>1, <2>4
  <2> QED BY <2>5, AdoptKeeps
<1> QED BY <1>1, <1>3, CreateKeeps

\* handle_join keeps the invariant.
LEMMA JoinKeeps ==
  ASSUME NEW n, NetOk(n), NEW s, Kept(n, s), NEW b \in s.up, NEW u \in Users, n.nick[u] # NULL
  PROVE  \A t \in HandleJoin(n, s, u, b) : Kept(n, t)
<1> DEFINE met == Associate(n, s, u, b)
           quiet == [s EXCEPT !.empty[b] = FALSE, !.timer[b] = 0]
<1>1. HandleJoin(n, s, u, b) \in {{quiet}, {s}, Opens(n, met, u, b), {met}}
  BY Zenon DEF HandleJoin
<1>2. Kept(n, met) /\ met.up = s.up
  BY AssociateKeeps
<1>3. s \in Tables /\ b \in Bots
  BY KeptIs
<1>4. Kept(n, quiet)
  <2>1. quiet \in Tables /\ SameRequests(s, quiet)
    BY <1>3, AlertIs
  <2> HIDE DEF quiet
  <2> QED BY <2>1, SameKeeps
<1> HIDE DEF quiet, met
<1>5. \A t \in Opens(n, met, u, b) : Kept(n, t)
  <2>1. b \in met.up
    BY <1>2
  <2> QED BY <1>2, <2>1, CreateKeeps
<1> QED BY <1>1, <1>2, <1>4, <1>5

\* Giving back the requests of b that h helps with keeps the invariant, and
\* leaves h none of them.
LEMMA UnassignStays ==
  ASSUME NEW n, NEW s, Kept(n, s), NEW b \in Bots, NEW h, h # NULL
  PROVE  LET t == Unassign(s, b, h) IN
         /\ Kept(n, t) /\ QueueOnly(s, t) /\ NoNewHelper(s, t) /\ t \in Tables
         /\ \A p \in RequestsAt(s, b) : t.rec[p].helper # h
<1>1. Core(s, Bots)
  BY DEF Kept, Filed
<1> DEFINE t == Unassign(s, b, h)
<1>2. Core(t, Bots) /\ QueueOnly(s, t) /\ NoNewHelper(s, t) /\ \A p \in RequestsAt(s, b) : t.rec[p].helper # h
  BY <1>1, UnassignKeeps
<1> HIDE DEF t
<1>3. Kept(n, t) /\ t \in Tables
  BY <1>2, QueueKeeps DEF Core
<1> QED BY <1>2, <1>3 DEF t

\* handle_part keeps the invariant: the request that is dropped, the helper's
\* requests that are given back, the alert.
LEMMA PartKeeps ==
  ASSUME NEW n, NetOk(n), NEW s, Kept(n, s), NEW b \in Bots, NEW u \in Users
  PROVE  Kept(n, HandlePart(n, s, u, b))
<1> DEFINE mine == Only(ById(s, b), RequestsOf(s, u))
           less == RemoveRequest(n, s, Head(mine))
           dropped == IF s.opt[b].req = "part" /\ mine # <<>> THEN less ELSE s
           h == n.acct[u]
           back == Unassign(dropped, b, h)
           freed == IF s.opt[b].helper = "part" THEN back ELSE dropped
<1>1. HandlePart(n, s, u, b) \in {dropped, freed, HelperLeft(n, freed, b)}
      /\ (Level(n, s, b, h) = 0 => HandlePart(n, s, u, b) = dropped)
  BY Zenon DEF HandlePart
<1>2. Kept(n, dropped)
  <2>1. CASE s.opt[b].req = "part" /\ mine # <<>>
    <3>1. Holds(mine, RequestsAt(s, b) \cap RequestsOf(s, u))
      BY KeptIs, HoldsOnly
    <3> HIDE DEF mine
    <3>2. Head(mine) \in DOMAIN s.rec
      BY <2>1, <3>1, HoldsSome DEF RequestsAt
    <3>3. Kept(n, less)
      BY <3>2, RemoveStaysKept DEF NetOk
    <3> HIDE DEF less
    <3> QED BY <2>1, <3>3
  <2>2. CASE ~(s.opt[b].req = "part" /\ mine # <<>>)
    BY <2>2
  <2> QED BY <2>1, <2>2
<1> HIDE DEF dropped, less, mine
<1>3. CASE Level(n, s, b, h) = 0
  BY <1>1, <1>2, <1>3
<1>4. CASE Level(n, s, b, h) # 0
  <2>1. h # NULL
    BY <1>4 DEF Level
  <2>2. Kept(n, back)
    BY <1>2, <2>1, UnassignStays
  <2> HIDE DEF back
  <2>3. Kept(n, freed)
    BY <1>2, <2>2
  <2> HIDE DEF freed
  <2>4. freed \in Tables
    BY <2>3, KeptIs
  <2>5. Kept(n, HelperLeft(n, freed, b))
    BY <2>3, <2>4, AlertIs, SameKeeps
  <2> QED BY <1>1, <1>2, <2>3, <2>5
<1> QED BY <1>3, <1>4

\* DelChannelUser keeps the invariant.
LEMMA LeavesKeeps ==
  ASSUME NEW n, NetOk(n), NEW s, Kept(n, s), NEW b \in Bots, NEW u \in Users
  PROVE  LET l == Leaves(n, s, u, b) IN
         NetOk(l.n) /\ SameNet(n, l.n) /\ Kept(l.n, l.s) /\ l \in [n : Nets, s : Tables]
<1> DEFINE after == [n EXCEPT !.on[u] = n.on[u] \ {b}]
           v == IF b \in s.up THEN HandlePart(after, s, u, b) ELSE s
           l == Leaves(n, s, u, b)
<1>1. NetOk(after) /\ SameNet(n, after)
  <2>1. n.on[u] \ {b} \in SUBSET Bots
    BY DEF NetOk, Nets
  <2> QED BY <2>1, OnChanges
<1>2. l = [n |-> after, s |-> v]
  BY Zenon DEF Leaves
<1> HIDE DEF after, l
<1>3. Kept(after, v)
  <2>1. Kept(after, s)
    BY <1>1, NetSame
  <2>2. Kept(after, HandlePart(after, s, u, b))
    BY <1>1, <2>1, PartKeeps
  <2> QED BY <2>1, <2>2
<1> HIDE DEF v
<1>4. l.n = after /\ l.s = v /\ v \in Tables /\ after \in Nets
  BY <1>1, <1>2, <1>3, KeptIs DEF NetOk
<1>5. NetOk(l.n) /\ SameNet(n, l.n) /\ Kept(l.n, l.s) /\ l \in [n : Nets, s : Tables]
  BY <1>1, <1>2, <1>3, <1>4
<1> QED BY <1>5 DEF l

\* DelUser takes the user out of every channel.
LeaveAll(n, s, u) ==
  Each(LAMBDA x, b : Leaves(x.n, x.s, u, b), [n |-> n, s |-> s], SetToSeq(n.on[u]))

\* DelUser keeps the invariant while it takes the user out of every channel.
LEMMA LeaveAllKeeps ==
  ASSUME NEW m, NetOk(m), NEW s, Kept(m, s), NEW u \in Users
  PROVE  LET l == LeaveAll(m, s, u) IN NetOk(l.n) /\ SameNet(m, l.n) /\ Kept(l.n, l.s)
<1> DEFINE first == [n |-> m, s |-> s]
           list == SetToSeq(m.on[u])
           Do(x, b) == Leaves(x.n, x.s, u, b)
           Good(i, x) == NetOk(x.n) /\ SameNet(m, x.n) /\ Kept(x.n, x.s)
           n == Len(list)
           good == [i \in 0..n |-> {t \in [n : Nets, s : Tables] : Good(i, t)}]
           do == [i \in 1..n |-> [t \in good[i - 1] |-> Do(t, list[i])]]
           Run(f) == f = [i \in 0..Len(list) |-> IF i = 0 THEN first ELSE Do(f[i - 1], list[i])]
           k == CHOOSE f : Run(f)
<1>1. n \in Nat /\ \A i \in 1..n : list[i] \in Bots
  <2>1. m.on[u] \in SUBSET Bots
    BY DEF NetOk, Nets
  <2>2. IsFiniteSet(m.on[u])
    BY <2>1, HelpServAssumption, FS_Subset
  <2>3. n \in Nat /\ \A i \in 1..n : list[i] \in m.on[u]
    BY <2>2, SetIsListed
  <2> HIDE DEF list, n
  <2> QED BY <2>1, <2>3
<1>2. ASSUME NEW i \in 1..n, NEW t \in good[i - 1] PROVE Do(t, list[i]) \in good[i]
  <2> HIDE DEF list, do, k, Run
  <2>0. i - 1 \in 0..n /\ i \in 0..n /\ list[i] \in Bots
    BY <1>1
  <2>1. Good(i - 1, t)
    BY <2>0
  <2> DEFINE v == Do(t, list[i])
  <2>2. NetOk(v.n) /\ SameNet(t.n, v.n) /\ Kept(v.n, v.s) /\ v \in [n : Nets, s : Tables]
    BY <2>0, <2>1, LeavesKeeps
  <2> HIDE DEF v, n
  <2>3. SameNet(m, v.n)
    BY <2>1, <2>2 DEF SameNet
  <2>4. v \in good[i]
    BY <2>0, <2>2, <2>3
  <2> QED BY <2>4 DEF v
<1>3. first \in good[0]
  <2> HIDE DEF list, do, k, Run
  <2>1. s \in Tables /\ m \in Nets /\ SameNet(m, m) /\ 0 \in 0..n
    BY <1>1, KeptIs DEF NetOk, SameNet
  <2>2. first \in [n : Nets, s : Tables] /\ first.n = m /\ first.s = s
    BY <2>1
  <2> HIDE DEF first, n
  <2> QED BY <2>1, <2>2
<1>4. \A t \in good[n] : Good(n, t)
  <2>1. n \in 0..n
    BY <1>1
  <2> HIDE DEF n, Good
  <2> QED BY <2>1
<1>5. LeaveAll(m, s, u) = k[n]
  BY DEF LeaveAll, Each
<1>6. \A i \in 1..n : \A t \in good[i - 1] : do[i][t] = Do(t, list[i])
  <2> HIDE DEF good, n, Do
  <2> QED OBVIOUS
<1>7. n = Len(list)
  OBVIOUS
<1> HIDE DEF good, do, n, Do, list, first
<1>8. Loops(n, good, first, do)
  BY <1>1, <1>2, <1>3, <1>6 DEF Loops
<1>9. PICK r : /\ r = [i \in 0..n |-> IF i = 0 THEN first ELSE do[i][r[i - 1]]]
               /\ \A i \in 1..n : r[i - 1] \in good[i - 1] /\ i \in 0..n /\ i - 1 \in 0..n /\ i # 0
  BY <1>8, LoopRuns
<1>10. Run(r)
  <2>1. \A i \in 0..n : i = 0 \/ i \in 1..n
    BY <1>1
  <2>2. \A i \in 0..n : (IF i = 0 THEN first ELSE do[i][r[i - 1]]) = IF i = 0 THEN first ELSE Do(r[i - 1], list[i])
    BY <1>6, <1>9, <2>1
  <2> QED BY <1>7, <1>9, <2>2
<1> HIDE DEF Run
<1>11. Run(k)
  BY <1>10
<1> HIDE DEF k
<1>12. k[0] \in good[0] /\ \A i \in 1..n : k[i - 1] \in good[i - 1] => k[i] \in good[i]
  <2>1. 0 \in 0..n
    BY <1>1
  <2>2. k[0] = first /\ \A i \in 1..n : k[i] = Do(k[i - 1], list[i])
    BY <1>7, <1>9, <1>11, <2>1 DEF Run
  <2> QED BY <1>2, <1>3, <2>2
<1>13. k[n] \in good[n]
  BY <1>1, <1>12, LoopStays
<1>14. Good(n, LeaveAll(m, s, u))
  BY <1>4, <1>5, <1>13
<1> QED BY <1>14

\* Request p is gone or has no user any more; the others are as they were.
Fades(s, p, t) ==
  /\ DOMAIN t.rec \subseteq DOMAIN s.rec
  /\ \A q \in DOMAIN s.rec : q # p => q \in DOMAIN t.rec /\ t.rec[q] = s.rec[q]
  /\ p \in DOMAIN t.rec => t.rec[p].user = NULL

\* A request of a user who disconnects is dropped, or kept for the account
\* without its user; the others are as they were.
LEMMA GoneKept ==
  ASSUME NEW n, NetOk(n), NEW s, Kept(n, s), NEW p \in DOMAIN s.rec, s.rec[p].user # NULL
  PROVE  Kept(n, UserGone(n, s, p)) /\ Fades(s, p, UserGone(n, s, p))
<1> DEFINE r == s.rec[p]
           drops == s.opt[r.hs].req = "quit" \/ r.handle = NULL
           less == RemoveRequest(n, s, p)
           e == WithUser(s.rec, p, NULL)
           nick == n.nick[r.user]
           d == [s.bynick EXCEPT ![nick] = RemoveFirst(s.bynick[nick], p)]
           t == [s EXCEPT !.rec = e, !.bynick = d]
<1>1. UserGone(n, s, p) = IF drops THEN less ELSE t
  BY Zenon DEF UserGone, WithUser
<1>2. Kept(n, less) /\ Fades(s, p, less)
  <2>1. Kept(n, less) /\ RemovedFrom(s, p, less)
    BY RemoveStaysKept DEF NetOk
  <2> HIDE DEF less
  <2>2. Fades(s, p, less)
    BY <2>1 DEF RemovedFrom, Fewer, Fades
  <2> QED BY <2>1, <2>2
<1>3. ASSUME ~drops PROVE Kept(n, t) /\ Fades(s, p, t)
  <2>1. s \in Tables /\ s.rec \in Records /\ Core(s, Bots) /\ p \in Nat /\ s.rec[p].handle # NULL
    BY <1>3, RequestIs, TablesAre DEF Kept, Filed, Core
  <2>2. EditedTo(s, e, d, s.byhand, t)
    <3> HIDE DEF e, d
    <3> QED BY <2>1, EditedIs, Zenon
  <2>3. UserSet(s.rec, p, NULL, e)
    BY <2>1, SetsAre DEF Optional
  <2> HIDE DEF e, t
  <2>5. /\ e \in Records /\ DOMAIN e = DOMAIN s.rec /\ e[p].user = NULL /\ e[p].handle = s.rec[p].handle
        /\ \A q \in DOMAIN s.rec : q # p => e[q] = s.rec[q]
        /\ \A q \in DOMAIN s.rec : e[q].hs = s.rec[q].hs /\ e[q].id = s.rec[q].id
                                   /\ e[q].helper = s.rec[q].helper /\ e[q].opened = s.rec[q].opened
    BY <2>3 DEF UserSet
  <2>6. Lists(d, ByNick(n.nick, e))
    <3>1. Lists(s.bynick, ByNick(n.nick, s.rec)) /\ Known(n, s.rec[p])
      BY <2>1, TiedKnown DEF Kept, Filed, NetOk
    <3>2. DOMAIN e \ {p} = DOMAIN s.rec \ {p} /\ \A q \in DOMAIN s.rec \ {p} : e[q].user = s.rec[q].user
      BY <2>5
    <3>3. n.nick[s.rec[p].user] \in Nicks
      BY <3>1 DEF Known
    <3>4. Lists([s.bynick EXCEPT ![n.nick[s.rec[p].user]] = RemoveFirst(s.bynick[n.nick[s.rec[p].user]], p)],
                ByNick(n.nick, e))
      BY <2>5, <3>1, <3>2, <3>3, NickLoses, Zenon
    <3> QED BY <3>4 DEF d
  <2> HIDE DEF d
  <2>7. Lists(s.byhand, ByName(n.name, e))
    <3>1. Lists(s.byhand, ByName(n.name, s.rec))
      BY DEF Kept, Filed
    <3>2. \A q \in DOMAIN s.rec : e[q].handle = s.rec[q].handle
      BY <2>5
    <3>3. ByName(n.name, e) = ByName(n.name, s.rec)
      BY <2>5, <3>2, NameSame
    <3> QED BY <3>1, <3>3
  <2>4. /\ t.rec = e /\ t.bynick = d /\ t.byhand = s.byhand
        /\ (e \in Records /\ d \in Dicts(Nicks, Seq(Nat)) /\ s.byhand \in Dicts(Names, Seq(Nat))) => t \in Tables
    BY <2>2, Zenon DEF EditedTo
  <2>8. t \in Tables
    BY <2>4, <2>5, <2>6, <2>7, ListsAre
  <2>9. Core(t, Bots) /\ Staffed(n, t)
    BY <2>1, <2>2, <2>5, <2>8, EditKeepsCore DEF Kept
  <2>10. Tied(n, t.rec) /\ Followed(n, t.rec)
    <3>1. Tied(n, s.rec) /\ Followed(n, s.rec)
      BY DEF Kept, Filed
    <3>2. \A q \in DOMAIN s.rec : q = p \/ t.rec[q] = s.rec[q]
      BY <2>4, <2>5
    <3> QED BY <2>1, <2>4, <2>5, <3>1, <3>2 DEF Tied, Followed
  <2>11. Kept(n, t)
    BY <2>4, <2>6, <2>7, <2>9, <2>10 DEF Kept, Filed
  <2>12. Fades(s, p, t)
    BY <2>4, <2>5 DEF Fades
  <2> QED BY <2>11, <2>12
<1> HIDE DEF drops, less, t
<1> QED BY <1>1, <1>2, <1>3

\* The requests under the nick of a connection are those of the connection.
LEMMA NickHolds ==
  ASSUME NEW n, NetOk(n), NEW s, Kept(n, s), NEW u \in Users, n.nick[u] # NULL
  PROVE  /\ n.nick[u] \in Nicks
         /\ Holds(Listed(s.bynick, n.nick[u]), AtNick(n.nick, s.rec, n.nick[u]))
         /\ AtNick(n.nick, s.rec, n.nick[u]) = RequestsOf(s, u)
<1>1. n.nick[u] \in Nicks /\ u # NULL
  BY HelpServAssumption DEF NetOk, Nets, Optional
<1>2. Holds(Listed(s.bynick, n.nick[u]), AtNick(n.nick, s.rec, n.nick[u]))
  <2>1. Lists(s.bynick, ByNick(n.nick, s.rec)) /\ DOMAIN ByNick(n.nick, s.rec) = Nicks
    BY DEF Kept, Filed, ByNick
  <2>2. ByNick(n.nick, s.rec)[n.nick[u]] = AtNick(n.nick, s.rec, n.nick[u])
    BY <1>1 DEF ByNick
  <2> QED BY <1>1, <2>1, <2>2 DEF Lists
<1>3. ASSUME NEW p \in DOMAIN s.rec
      PROVE  s.rec[p].user # NULL /\ n.nick[s.rec[p].user] = n.nick[u] <=> s.rec[p].user = u
  <2>1. s.rec[p].user \in Optional(Users)
    BY RequestIs, KeptIs
  <2> QED BY <1>1, <2>1 DEF NetOk, Optional
<1>4. AtNick(n.nick, s.rec, n.nick[u]) = RequestsOf(s, u)
  BY <1>3 DEF AtNick, RequestsOf
<1> QED BY <1>1, <1>2, <1>4

\* What remains of a list after i of its members.
Rest(list, i) == {list[j] : j \in (i + 1)..Len(list)}

\* A list of requests is worked off one by one until nothing is left.
LEMMA RestIs ==
  ASSUME NEW list, NEW S, Holds(list, S)
  PROVE  /\ Rest(list, 0) = S /\ Rest(list, Len(list)) = {}
         /\ \A i \in 1..Len(list) : list[i] \in Rest(list, i - 1) /\ Rest(list, i) = Rest(list, i - 1) \ {list[i]}
<1>1. Len(list) \in Nat /\ \A i, j \in 1..Len(list) : list[i] = list[j] => i = j
  BY DEF Holds
<1>2. Rest(list, 0) = S
  <2>1. S = {list[j] : j \in 1..Len(list)}
    BY DEF Holds
  <2>2. (0 + 1)..Len(list) = 1..Len(list)
    BY <1>1
  <2> QED BY <2>1, <2>2 DEF Rest
<1>3. Rest(list, Len(list)) = {}
  <2>1. (Len(list) + 1)..Len(list) = {}
    BY <1>1
  <2> QED BY <2>1 DEF Rest
<1>4. ASSUME NEW i \in 1..Len(list)
      PROVE  list[i] \in Rest(list, i - 1) /\ Rest(list, i) = Rest(list, i - 1) \ {list[i]}
  <2>1. \A j : j \in (i - 1 + 1)..Len(list) <=> j = i \/ j \in (i + 1)..Len(list)
    BY <1>1
  <2>2. \A j \in (i + 1)..Len(list) : j \in 1..Len(list) /\ j # i
    BY <1>1
  <2>3. \A j \in (i + 1)..Len(list) : list[j] # list[i]
    BY <1>1, <2>2
  <2> QED BY <2>1, <2>3 DEF Rest
<1> QED BY <1>2, <1>3, <1>4

\* UserGone for every request of the nick.
GoneAll(n, s, u) == Each(LAMBDA t, p : UserGone(n, t, p), s, Listed(s.bynick, n.nick[u]))

\* After handle_quit has gone over the list of the nick no request has the
\* user any more.
LEMMA GoneAllKeeps ==
  ASSUME NEW m, NetOk(m), NEW s, Kept(m, s), NEW u \in Users, m.nick[u] # NULL
  PROVE  LET t == GoneAll(m, s, u) IN Kept(m, t) /\ RequestsOf(t, u) = {}
<1> DEFINE first == s
           list == Listed(s.bynick, m.nick[u])
           Do(t, p) == UserGone(m, t, p)
           Good(i, t) == Kept(m, t) /\ RequestsOf(t, u) = Rest(list, i)
           n == Len(list)
           good == [i \in 0..n |-> {t \in Tables : Good(i, t)}]
           do == [i \in 1..n |-> [t \in good[i - 1] |-> Do(t, list[i])]]
           Run(f) == f = [i \in 0..Len(list) |-> IF i = 0 THEN first ELSE Do(f[i - 1], list[i])]
           k == CHOOSE f : Run(f)
<1>0. Holds(list, RequestsOf(s, u))
  <2> HIDE DEF list
  <2> QED BY NickHolds DEF list
<1>1. /\ n \in Nat /\ Rest(list, 0) = RequestsOf(s, u) /\ Rest(list, n) = {}
      /\ \A i \in 1..n : list[i] \in Rest(list, i - 1) /\ Rest(list, i) = Rest(list, i - 1) \ {list[i]}
  <2> HIDE DEF list
  <2>1. Len(list) \in Nat
    BY <1>0 DEF Holds
  <2>2. /\ Rest(list, 0) = RequestsOf(s, u) /\ Rest(list, Len(list)) = {}
        /\ \A i \in 1..Len(list) : list[i] \in Rest(list, i - 1) /\ Rest(list, i) = Rest(list, i - 1) \ {list[i]}
    <3> HIDE DEF n, good, do, Run, k
    <3> QED BY <1>0, RestIs
  <2> QED BY <2>1, <2>2
<1>2. ASSUME NEW i \in 1..n, NEW t \in good[i - 1] PROVE Do(t, list[i]) \in good[i]
  <2> HIDE DEF list, do, k, Run
  <2>0. i - 1 \in 0..n /\ i \in 0..n
    BY <1>1
  <2>1. Good(i - 1, t)
    BY <2>0
  <2> DEFINE v == Do(t, list[i])
             p == list[i]
  <2> HIDE DEF n
  <2>3. p \in DOMAIN t.rec /\ t.rec[p].user = u /\ u # NULL
    BY <1>1, <2>1, HelpServAssumption DEF RequestsOf
  <2>4. Kept(m, v) /\ Fades(t, p, v)
    BY <2>1, <2>3, GoneKept
  <2> HIDE DEF v
  <2>5. RequestsOf(v, u) = RequestsOf(t, u) \ {p}
    BY <2>3, <2>4 DEF RequestsOf, Fades
  <2>6. v \in Tables
    BY <2>4, KeptIs
  <2>7. Good(i, v)
    BY <1>1, <2>1, <2>4, <2>5
  <2> HIDE DEF Good
  <2>8. v \in good[i]
    BY <2>0, <2>6, <2>7
  <2> QED BY <2>8 DEF v
<1>3. first \in good[0]
  <2> HIDE DEF list, do, k, Run
  <2>1. s \in Tables /\ 0 \in 0..n
    BY <1>1, KeptIs
  <2>3. Good(0, s)
    BY <1>1
  <2> HIDE DEF Good, n
  <2> QED BY <2>1, <2>3
<1>4. \A t \in good[n] : Good(n, t)
  <2>1. n \in 0..n
    BY <1>1
  <2> HIDE DEF n, Good
  <2> QED BY <2>1
<1>5. GoneAll(m, s, u) = k[n]
  BY DEF GoneAll, Each
<1>6. \A i \in 1..n : \A t \in good[i - 1] : do[i][t] = Do(t, list[i])
  <2> HIDE DEF good, n, Do
  <2> QED OBVIOUS
<1>7. n = Len(list)
  OBVIOUS
<1> HIDE DEF good, do, n, Do, list
<1>8. Loops(n, good, first, do)
  BY <1>1, <1>2, <1>3, <1>6 DEF Loops
<1>9. PICK r : /\ r = [i \in 0..n |-> IF i = 0 THEN first ELSE do[i][r[i - 1]]]
               /\ \A i \in 1..n : r[i - 1] \in good[i - 1] /\ i \in 0..n /\ i - 1 \in 0..n /\ i # 0
  BY <1>8, LoopRuns
<1>10. Run(r)
  <2>1. \A i \in 0..n : i = 0 \/ i \in 1..n
    BY <1>1
  <2>2. \A i \in 0..n : (IF i = 0 THEN first ELSE do[i][r[i - 1]]) = IF i = 0 THEN first ELSE Do(r[i - 1], list[i])
    BY <1>6, <1>9, <2>1
  <2> QED BY <1>7, <1>9, <2>2
<1> HIDE DEF Run
<1>11. Run(k)
  BY <1>10
<1> HIDE DEF k
<1>12. k[0] \in good[0] /\ \A i \in 1..n : k[i - 1] \in good[i - 1] => k[i] \in good[i]
  <2>1. 0 \in 0..n
    BY <1>1
  <2>2. k[0] = first /\ \A i \in 1..n : k[i] = Do(k[i - 1], list[i])
    BY <1>7, <1>9, <1>11, <2>1 DEF Run
  <2> QED BY <1>2, <1>3, <2>2
<1>13. k[n] \in good[n]
  BY <1>1, <1>12, LoopStays
<1>14. Good(n, GoneAll(m, s, u))
  BY <1>4, <1>5, <1>13
<1> HIDE DEF Good
<1>15. Kept(m, GoneAll(m, s, u)) /\ RequestsOf(GoneAll(m, s, u), u) = Rest(list, n)
  BY <1>14 DEF Good
<1> QED BY <1>1, <1>15

\* The helpers of a helper who disconnects are given back, at every bot that says so.
ReopenAll(n, s, h) ==
  Each(LAMBDA t, b : IF t.opt[b].helper = "quit" /\ Level(n, t, b, h) > 0 THEN Unassign(t, b, h) ELSE t,
       s, SetToSeq(Bots))

\* Giving back the requests of a helper who disconnects, at every bot that
\* says so, keeps the invariant and gives the user none.
LEMMA ReopenAllKeeps ==
  ASSUME NEW m, NEW s, Kept(m, s), NEW u, RequestsOf(s, u) = {}, NEW h, h # NULL
  PROVE  LET t == ReopenAll(m, s, h) IN Kept(m, t) /\ RequestsOf(t, u) = {}
<1> DEFINE first == s
           list == SetToSeq(Bots)
           Do(t, b) == IF t.opt[b].helper = "quit" /\ Level(m, t, b, h) > 0 THEN Unassign(t, b, h) ELSE t
           Good(i, t) == Kept(m, t) /\ RequestsOf(t, u) = {}
           n == Len(list)
           good == [i \in 0..n |-> {t \in Tables : Good(i, t)}]
           do == [i \in 1..n |-> [t \in good[i - 1] |-> Do(t, list[i])]]
           Run(f) == f = [i \in 0..Len(list) |-> IF i = 0 THEN first ELSE Do(f[i - 1], list[i])]
           k == CHOOSE f : Run(f)
<1>1. n \in Nat /\ \A i \in 1..n : list[i] \in Bots
  BY HelpServAssumption, SetIsListed
<1>2. ASSUME NEW i \in 1..n, NEW t \in good[i - 1] PROVE Do(t, list[i]) \in good[i]
  <2> HIDE DEF list, do, k, Run
  <2>0. i - 1 \in 0..n /\ i \in 0..n /\ list[i] \in Bots
    BY <1>1
  <2>1. Good(i - 1, t)
    BY <2>0
  <2> DEFINE v == Do(t, list[i])
             w == Unassign(t, list[i], h)
  <2>2. Kept(m, w) /\ QueueOnly(t, w)
    BY <2>0, <2>1, UnassignStays
  <2>3. v = t \/ v = w
    BY Zenon
  <2> HIDE DEF v, w, n
  <2>4. RequestsOf(w, u) = RequestsOf(t, u)
    BY <2>2 DEF QueueOnly, RequestsOf
  <2>5. Kept(m, v) /\ RequestsOf(v, u) = {}
    BY <2>1, <2>2, <2>3, <2>4
  <2>6. v \in Tables
    BY <2>5, KeptIs
  <2>7. v \in good[i]
    BY <2>0, <2>5, <2>6
  <2> QED BY <2>7 DEF v
<1>3. first \in good[0]
  <2> HIDE DEF list, do, k, Run
  <2>1. s \in Tables /\ 0 \in 0..n
    BY <1>1, KeptIs
  <2> HIDE DEF n
  <2> QED BY <2>1
<1>4. \A t \in good[n] : Good(n, t)
  <2>1. n \in 0..n
    BY <1>1
  <2> HIDE DEF n, Good
  <2> QED BY <2>1
<1>5. ReopenAll(m, s, h) = k[n]
  BY DEF ReopenAll, Each
<1>6. \A i \in 1..n : \A t \in good[i - 1] : do[i][t] = Do(t, list[i])
  <2> HIDE DEF good, n, Do
  <2> QED OBVIOUS
<1>7. n = Len(list)
  OBVIOUS
<1> HIDE DEF good, do, n, Do, list
<1>8. Loops(n, good, first, do)
  BY <1>1, <1>2, <1>3, <1>6 DEF Loops
<1>9. PICK r : /\ r = [i \in 0..n |-> IF i = 0 THEN first ELSE do[i][r[i - 1]]]
               /\ \A i \in 1..n : r[i - 1] \in good[i - 1] /\ i \in 0..n /\ i - 1 \in 0..n /\ i # 0
  BY <1>8, LoopRuns
<1>10. Run(r)
  <2>1. \A i \in 0..n : i = 0 \/ i \in 1..n
    BY <1>1
  <2>2. \A i \in 0..n : (IF i = 0 THEN first ELSE do[i][r[i - 1]]) = IF i = 0 THEN first ELSE Do(r[i - 1], list[i])
    BY <1>6, <1>9, <2>1
  <2> QED BY <1>7, <1>9, <2>2
<1> HIDE DEF Run
<1>11. Run(k)
  BY <1>10
<1> HIDE DEF k
<1>12. k[0] \in good[0] /\ \A i \in 1..n : k[i - 1] \in good[i - 1] => k[i] \in good[i]
  <2>1. 0 \in 0..n
    BY <1>1
  <2>2. k[0] = first /\ \A i \in 1..n : k[i] = Do(k[i - 1], list[i])
    BY <1>7, <1>9, <1>11, <2>1 DEF Run
  <2> QED BY <1>2, <1>3, <2>2
<1>13. k[n] \in good[n]
  BY <1>1, <1>12, LoopStays
<1>14. Good(n, ReopenAll(m, s, h))
  BY <1>4, <1>5, <1>13
<1> QED BY <1>14

\* handle_quit keeps the invariant, with what DelUser and NickServ do after
\* it: the nick is free and the user logged out.
LEMMA QuitKeeps ==
  ASSUME NEW n, NetOk(n), NEW s, Kept(n, s), NEW u \in Users, n.nick[u] # NULL
  PROVE  LET m == [n EXCEPT !.nick[u] = NULL, !.acct[u] = NULL] IN NetOk(m) /\ Kept(m, HandleQuit(n, s, u))
<1> DEFINE m == [n EXCEPT !.nick[u] = NULL, !.acct[u] = NULL]
           left == GoneAll(n, s, u)
           d == Drop(left.bynick, n.nick[u])
           f == [left EXCEPT !.bynick = d]
           h == n.acct[u]
           t == HandleQuit(n, s, u)
<1>1. t = f \/ (h # NULL /\ t = ReopenAll(n, f, h))
  <2>1. t = IF h = NULL \/ Sessions(n, h) # {u} THEN f ELSE ReopenAll(n, f, h)
    BY Zenon DEF HandleQuit, GoneAll, ReopenAll, Each
  <2> HIDE DEF t, f, h
  <2> QED BY <2>1
<1>2. Kept(n, left) /\ RequestsOf(left, u) = {}
  BY GoneAllKeeps
<1> HIDE DEF left
<1>3. Kept(n, f) /\ RequestsOf(f, u) = {}
  <2>1. left \in Tables /\ left.rec \in Records /\ left.byhand \in Dicts(Names, Seq(Nat))
    BY <1>2, KeptIs, TablesAre DEF Tables
  <2>2. EditedTo(left, left.rec, d, left.byhand, f)
    <3> HIDE DEF d
    <3> QED BY <2>1, EditedIs, Zenon
  <2> HIDE DEF f
  <2>3. Lists(d, ByNick(n.nick, left.rec))
    <3> DEFINE A == ByNick(n.nick, left.rec)
               x == n.nick[u]
    <3>1. x \in Nicks /\ AtNick(n.nick, left.rec, x) = {}
      BY <1>2, NickHolds
    <3>2. Lists(left.bynick, A)
      BY <1>2 DEF Kept, Filed
    <3>3. DOMAIN A = Nicks /\ A[x] = {} /\ A = [A EXCEPT ![x] = {}]
      BY <3>1 DEF ByNick
    <3> HIDE DEF A, x
    <3>4. Lists(Drop(left.bynick, x), [A EXCEPT ![x] = {}])
      BY <3>1, <3>2, <3>3, ListsDrop
    <3>5. Lists(Drop(left.bynick, x), A)
      BY <3>3, <3>4
    <3> QED BY <3>5 DEF A, x
  <2> HIDE DEF d
  <2>4. /\ f.rec = left.rec /\ f.bynick = d /\ f.byhand = left.byhand
        /\ (left.rec \in Records /\ d \in Dicts(Nicks, Seq(Nat)) /\ left.byhand \in Dicts(Names, Seq(Nat))) => f \in Tables
    BY <2>2, Zenon DEF EditedTo
  <2>5. f \in Tables
    BY <2>1, <2>3, <2>4, ListsAre
  <2>6. Core(f, Bots) /\ Staffed(n, f)
    BY <1>2, <2>2, <2>5, EditKeepsCore DEF Kept, Filed
  <2> QED BY <1>2, <2>3, <2>4, <2>6 DEF Kept, Filed, RequestsOf
<1> HIDE DEF f
<1>4. Kept(n, t) /\ RequestsOf(t, u) = {}
  BY <1>1, <1>3, ReopenAllKeeps
<1> HIDE DEF t, h
<1>5. /\ m \in Nets /\ m.name = n.name /\ m.nick[u] = NULL /\ m.acct[u] = NULL
      /\ \A v \in Users : v # u => m.nick[v] = n.nick[v] /\ m.acct[v] = n.acct[v]
  BY DEF NetOk, Nets, Optional
<1> HIDE DEF m
<1>6. NetOk(m)
  BY <1>5 DEF NetOk
<1>7. \A p \in DOMAIN t.rec : t.rec[p].user # NULL => t.rec[p].user \in Users /\ t.rec[p].user # u
  BY <1>4, KeptIs, RequestIs DEF RequestsOf, Optional
<1>8. Kept(m, t)
  <2>1. \A p \in DOMAIN t.rec : t.rec[p].user # NULL => m.nick[t.rec[p].user] = n.nick[t.rec[p].user]
                                                        /\ m.acct[t.rec[p].user] = n.acct[t.rec[p].user]
    BY <1>5, <1>7
  <2>2. ASSUME NEW x PROVE AtNick(m.nick, t.rec, x) = AtNick(n.nick, t.rec, x)
    BY <2>1 DEF AtNick
  <2>3. ByNick(m.nick, t.rec) = ByNick(n.nick, t.rec)
    BY <2>2, SMTT(30) DEF ByNick
  <2>4. Tied(m, t.rec) /\ Followed(m, t.rec) /\ Staffed(m, t)
    BY <1>4, <1>5, <2>1 DEF Kept, Filed, Tied, Followed, Staffed, Level
  <2> QED BY <1>4, <1>5, <2>3, <2>4 DEF Kept, Filed
<1> QED BY <1>6, <1>8 DEF m, t

-----------------------------------------------------------------------------
(* Nicks and names.                                                         *)

\* What is under one key moves to another.
Moves(f, old, new) == IF old \in DOMAIN f THEN Put(Drop(f, old), new, f[old]) ELSE f

\* Moving what is under one key to another keeps a dictionary a dictionary
\* and the other keys in it.
LEMMA MovesIn ==
  ASSUME NEW K, NEW V, NEW f \in Dicts(K, V), NEW old, NEW new \in K
  PROVE  /\ Moves(f, old, new) \in Dicts(K, V)
         /\ old \in DOMAIN f => new \in DOMAIN Moves(f, old, new)
         /\ \A x \in DOMAIN f : x # old => x \in DOMAIN Moves(f, old, new)
<1>1. old \in DOMAIN f => f[old] \in V
  BY DictIs
<1>2. Drop(f, old) \in Dicts(K, V)
  BY DropIn
<1> DEFINE v == f[old]
           g == Drop(f, old)
<1>3. DOMAIN g = DOMAIN f \ {old}
  BY DEF Drop
<1> HIDE DEF v, g
<1>4. old \in DOMAIN f => Put(g, new, v) \in Dicts(K, V)
  BY <1>1, <1>2, PutIn DEF v, g
<1>5. DOMAIN Put(g, new, v) = DOMAIN g \cup {new}
  BY DEF Put
<1>6. Moves(f, old, new) = IF old \in DOMAIN f THEN Put(g, new, v) ELSE f
  BY DEF Moves, v, g
<1> QED BY <1>3, <1>4, <1>5, <1>6

\* Moving a list to a key that had none makes the index exact for the sets
\* with the two exchanged.
LEMMA MovesLists ==
  ASSUME NEW f, NEW A, Lists(f, A), NEW old \in DOMAIN A, NEW new \in DOMAIN A, old # new, A[new] = {},
         NEW B, DOMAIN B = DOMAIN A, B[old] = {}, B[new] = A[old],
         \A x \in DOMAIN A : x # old /\ x # new => B[x] = A[x]
  PROVE  Lists(Moves(f, old, new), B)
<1> DEFINE g == Moves(f, old, new)
<1>1. f \in Dicts(DOMAIN A, Seq(Nat)) /\ \A x \in DOMAIN A : Holds(Listed(f, x), A[x])
  BY DEF Lists
<1>2. g \in Dicts(DOMAIN A, Seq(Nat))
  <2> DEFINE V == Seq(Nat)
  <2> HIDE DEF V
  <2>1. f \in Dicts(DOMAIN A, V)
    BY <1>1 DEF V
  <2>2. g \in Dicts(DOMAIN A, V)
    BY <2>1, MovesIn
  <2> QED BY <2>2 DEF V
<1>3. ASSUME NEW x \in DOMAIN A PROVE Holds(Listed(g, x), B[x])
  <2>1. CASE old \in DOMAIN f
    <3> DEFINE v == f[old]
    <3>1. DOMAIN g = (DOMAIN f \ {old}) \cup {new}
      BY <2>1 DEF Moves, Put, Drop
    <3>2. g[new] = v /\ \A y \in DOMAIN f : y # old /\ y # new => g[y] = f[y]
      BY <2>1 DEF Moves, Put, Drop
    <3> HIDE DEF g
    <3>3. CASE x = old
      <4>1. Listed(g, x) = <<>>
        BY <3>1, <3>3 DEF Listed
      <4> QED BY <3>3, <4>1, HoldsNone
    <3>4. CASE x = new
      <4>1. Listed(g, x) = v /\ Listed(f, old) = v
        BY <2>1, <3>1, <3>2, <3>4 DEF Listed
      <4> QED BY <1>1, <3>4, <4>1
    <3>5. CASE x # old /\ x # new
      <4>1. Listed(g, x) = Listed(f, x)
        BY <3>1, <3>2, <3>5 DEF Listed
      <4> QED BY <1>1, <3>5, <4>1
    <3> QED BY <3>3, <3>4, <3>5
  <2>2. CASE old \notin DOMAIN f
    <3>1. g = f /\ Listed(f, old) = <<>>
      BY <2>2 DEF Moves, Listed
    <3>2. A[old] = {}
      BY <1>1, <3>1, HoldsSome
    <3>3. B[x] = A[x]
      BY <3>2
    <3> QED BY <1>1, <3>1, <3>3
  <2> QED BY <2>1, <2>2
<1> HIDE DEF g
<1>4. Lists(g, B)
  BY <1>2, <1>3 DEF Lists
<1> QED BY <1>4 DEF g

\* handle_nickchange keeps the invariant: the list follows the user to the
\* new nick.
LEMMA NickChangeKeeps ==
  ASSUME NEW n, NetOk(n), NEW s, Kept(n, s), NEW u \in Users, n.nick[u] # NULL, NEW new \in Nicks,
         \A v \in Users : n.nick[v] # new
  PROVE  LET m == [n EXCEPT !.nick[u] = new] IN NetOk(m) /\ Kept(m, HandleNickChange(s, n.nick[u], new))
<1> DEFINE m == [n EXCEPT !.nick[u] = new]
           old == n.nick[u]
           d == Moves(s.bynick, old, new)
           t == HandleNickChange(s, old, new)
<1>1. /\ m \in Nets /\ m.name = n.name /\ m.acct = n.acct /\ m.nick[u] = new
      /\ \A v \in Users : v # u => m.nick[v] = n.nick[v]
  BY DEF NetOk, Nets, Optional
<1>2. old \in Nicks /\ new # NULL /\ old # new
  BY HelpServAssumption DEF NetOk, Nets, Optional
<1> HIDE DEF m, old
<1>3. NetOk(m)
  BY <1>1, <1>2 DEF NetOk, old
<1>4. \A p \in DOMAIN s.rec : s.rec[p].user \in Optional(Users)
  BY RequestIs, KeptIs
<1>5. s \in Tables
  BY KeptIs
<1>6. EditedTo(s, s.rec, d, s.byhand, t)
  <2>1. t = [s EXCEPT !.bynick = d]
    <3>1. CASE old \in DOMAIN s.bynick
      BY <3>1 DEF HandleNickChange, Moves
    <3>2. CASE old \notin DOMAIN s.bynick
      BY <1>5, <3>2 DEF HandleNickChange, Moves, Tables
    <3> QED BY <3>1, <3>2
  <2> HIDE DEF d, t
  <2>2. EditedTo(s, s.rec, d, s.byhand, [s EXCEPT !.bynick = d])
    BY <1>5, EditedIs, Zenon
  <2> QED BY <2>1, <2>2
<1> HIDE DEF t
<1>7. Lists(d, ByNick(m.nick, s.rec))
  <2> DEFINE A == ByNick(n.nick, s.rec)
             B == ByNick(m.nick, s.rec)
  <2>1. Lists(s.bynick, A)
    BY DEF Kept, Filed
  <2>2. DOMAIN A = Nicks /\ DOMAIN B = Nicks /\ \A x \in Nicks : A[x] = AtNick(n.nick, s.rec, x) /\ B[x] = AtNick(m.nick, s.rec, x)
    BY DEF ByNick
  <2> HIDE DEF A, B
  <2>3. A[new] = {}
    BY <1>4, <2>2 DEF AtNick, Optional
  <2>8. \A p \in DOMAIN s.rec : s.rec[p].user # NULL =>
            /\ s.rec[p].user \in Users /\ m.nick[s.rec[p].user] # old
            /\ m.nick[s.rec[p].user] = new <=> n.nick[s.rec[p].user] = old
    <3>1. \A v \in Users : n.nick[v] = old <=> v = u
      BY <1>2 DEF NetOk, old
    <3>2. \A v \in Users : m.nick[v] # old /\ (m.nick[v] = new <=> n.nick[v] = old)
      BY <1>1, <1>2, <3>1
    <3> QED BY <1>4, <3>2 DEF Optional
  <2>9. /\ B[old] = AtNick(m.nick, s.rec, old) /\ A[old] = AtNick(n.nick, s.rec, old)
        /\ B[new] = AtNick(m.nick, s.rec, new)
    BY <1>2, <2>2
  <2>4. B[old] = {}
    <3>1. AtNick(m.nick, s.rec, old) = {}
      BY <2>8 DEF AtNick
    <3> QED BY <2>9, <3>1
  <2>5. B[new] = A[old]
    <3>1. AtNick(m.nick, s.rec, new) = AtNick(n.nick, s.rec, old)
      BY <2>8 DEF AtNick
    <3> QED BY <2>9, <3>1
  <2>6. ASSUME NEW x \in Nicks, x # old, x # new PROVE B[x] = A[x]
    <3>1. B[x] = AtNick(m.nick, s.rec, x) /\ A[x] = AtNick(n.nick, s.rec, x)
      BY <2>2
    <3>2. \A v \in Users : m.nick[v] = x <=> n.nick[v] = x
      BY <1>1, <2>6 DEF old
    <3>3. AtNick(m.nick, s.rec, x) = AtNick(n.nick, s.rec, x)
      BY <2>8, <3>2 DEF AtNick
    <3> QED BY <3>1, <3>3
  <2>7. Lists(d, B)
    BY <1>2, <2>1, <2>2, <2>3, <2>4, <2>5, <2>6, MovesLists
  <2> QED BY <2>7 DEF B
<1> HIDE DEF d
<1>8. /\ t.rec = s.rec /\ t.bynick = d /\ t.byhand = s.byhand
      /\ (s.rec \in Records /\ d \in Dicts(Nicks, Seq(Nat)) /\ s.byhand \in Dicts(Names, Seq(Nat))) => t \in Tables
  BY <1>6, Zenon DEF EditedTo
<1>9. t \in Tables
  BY <1>5, <1>7, <1>8, ListsAre DEF Tables
<1>10. Core(t, Bots) /\ Staffed(n, t)
  BY <1>6, <1>9, EditKeepsCore DEF Kept, Filed
<1>11. Tied(m, t.rec) /\ Followed(m, t.rec) /\ Staffed(m, t)
  <2>1. Tied(m, t.rec)
    BY <1>1, <1>2, <1>4, <1>8 DEF Kept, Filed, Tied, Optional
  <2>2. Followed(m, t.rec)
    BY <1>1, <1>8 DEF Kept, Followed
  <2>3. Staffed(m, t)
    BY <1>1, <1>10 DEF Staffed, Level
  <2> QED BY <2>1, <2>2, <2>3
<1>12. Kept(m, t)
  BY <1>1, <1>7, <1>8, <1>10, <1>11 DEF Kept, Filed
<1> QED BY <1>3, <1>12 DEF m, t, old

-----------------------------------------------------------------------------
(* The staff.                                                               *)

\* Who has a level with a bot is listed in its staff, and the other way round
\* (GetHSUser).
LEMMA LevelIs ==
  ASSUME NEW s \in Tables, NEW b \in Bots, NEW n, NEW h
  PROVE  Level(n, s, b, h) > 0 <=> h # NULL /\ n.name[h] \in DOMAIN s.staff[b]
<1>1. s.staff[b] \in Dicts(Names, HlTrial..HlOwner)
  BY DEF Tables
<1>2. \A x \in DOMAIN s.staff[b] : s.staff[b][x] \in HlTrial..HlOwner
  BY <1>1, DictIs
<1> QED BY <1>2 DEF Level, HlTrial, HlOwner

\* The requests are untouched; the staff and the bots change.
StaffOnly(s, t) ==
  /\ t.rec = s.rec /\ t.requests = s.requests /\ t.unhandled = s.unhandled
  /\ t.bynick = s.bynick /\ t.byhand = s.byhand /\ t.made = s.made /\ t.now = s.now /\ s.up \subseteq t.up

\* A change of staff and bots keeps the invariant when every helper of a
\* request stays listed.
LEMMA StaffKeeps ==
  ASSUME NEW n, NEW s, Kept(n, s), NEW t \in Tables, StaffOnly(s, t),
         \A p \in DOMAIN s.rec : s.rec[p].helper # NULL => n.name[s.rec[p].helper] \in DOMAIN t.staff[s.rec[p].hs]
  PROVE  Kept(n, t)
<1>1. Core(t, Bots)
  <2>1. Core(s, Bots) /\ t.rec = s.rec /\ t.unhandled = s.unhandled /\ t.requests = s.requests /\ t.made = s.made /\ t.now = s.now
        /\ s.up \subseteq t.up
    BY DEF Kept, Filed, StaffOnly
  <2>2. Sane(t)
    BY <2>1 DEF Core, Sane
  <2>3. \A b \in Bots : InLine(t, b) /\ Tabled(t, b)
    BY <2>1 DEF Core, InLine, Tabled, RequestsAt
  <2> QED BY <2>2, <2>3 DEF Core
<1>2. Staffed(n, t)
  <2> SUFFICES ASSUME NEW p \in DOMAIN s.rec, s.rec[p].helper # NULL PROVE Level(n, t, s.rec[p].hs, s.rec[p].helper) > 0
    BY DEF Staffed, StaffOnly
  <2>1. s.rec[p].hs \in Bots
    BY RequestIs, KeptIs
  <2> QED BY <2>1, LevelIs
<1> QED BY <1>1, <1>2 DEF Kept, Filed, StaffOnly

\* The helper of a request is in the staff of its bot.
LEMMA HelperListed ==
  ASSUME NEW n, NEW s, Kept(n, s), NEW p \in DOMAIN s.rec, s.rec[p].helper # NULL
  PROVE  n.name[s.rec[p].helper] \in DOMAIN s.staff[s.rec[p].hs]
<1>1. s.rec[p].hs \in Bots /\ s \in Tables
  BY RequestIs, KeptIs
<1>2. Level(n, s, s.rec[p].hs, s.rec[p].helper) > 0
  BY DEF Kept, Staffed
<1> QED BY <1>1, <1>2, LevelIs

\* A staff that lists everybody it listed before keeps the invariant.
LEMMA StaffGrows ==
  ASSUME NEW n, NEW s, Kept(n, s), NEW b \in Bots, NEW f \in Dicts(Names, HlTrial..HlOwner),
         DOMAIN s.staff[b] \subseteq DOMAIN f
  PROVE  Kept(n, [s EXCEPT !.staff[b] = f])
<1> DEFINE t == [s EXCEPT !.staff[b] = f]
<1>1. s \in Tables
  BY KeptIs
<1>2. t \in Tables /\ StaffOnly(s, t) /\ t.staff[b] = f /\ \A c \in Bots : c # b => t.staff[c] = s.staff[c]
  BY <1>1 DEF Tables, StaffOnly
<1> HIDE DEF t
<1>3. ASSUME NEW p \in DOMAIN s.rec, s.rec[p].helper # NULL
      PROVE  n.name[s.rec[p].helper] \in DOMAIN t.staff[s.rec[p].hs]
  <2>1. n.name[s.rec[p].helper] \in DOMAIN s.staff[s.rec[p].hs] /\ s.rec[p].hs \in Bots
    BY <1>1, <1>3, HelperListed, RequestIs
  <2> QED BY <1>2, <2>1
<1>4. Kept(n, t)
  BY <1>2, <1>3, StaffKeeps
<1> QED BY <1>4 DEF t

\* handle_nickserv_rename keeps the invariant: requests and staff follow the
\* account to its new name.
LEMMA RenameKeeps ==
  ASSUME NEW n, NetOk(n), NEW s, Kept(n, s), NEW h \in Handles, n.name[h] # NULL, NEW new \in Names,
         \A g \in Handles : n.name[g] # new
  PROVE  LET m == [n EXCEPT !.name[h] = new] IN NetOk(m) /\ Kept(m, HandleRename(s, n.name[h], new))
<1> DEFINE m == [n EXCEPT !.name[h] = new]
           old == n.name[h]
           d == Moves(s.byhand, old, new)
           f == [b \in Bots |-> Moves(s.staff[b], old, new)]
           t == HandleRename(s, old, new)
<1>1. /\ m \in Nets /\ m.nick = n.nick /\ m.acct = n.acct /\ m.name[h] = new
      /\ \A g \in Handles : g # h => m.name[g] = n.name[g]
  BY DEF NetOk, Nets, Optional
<1>2. old \in Names /\ new # NULL /\ old # new
  BY HelpServAssumption DEF NetOk, Nets, Optional
<1> HIDE DEF m, old
<1>3. NetOk(m)
  <2>1. \A u \in Users : n.acct[u] # NULL => n.acct[u] \in Handles
    BY DEF NetOk, Nets, Optional
  <2> QED BY <1>1, <1>2, <2>1 DEF NetOk, old
<1>4. \A p \in DOMAIN s.rec : s.rec[p].handle \in Optional(Handles) /\ s.rec[p].helper \in Optional(Handles) /\ s.rec[p].hs \in Bots
  BY RequestIs, KeptIs
<1>5. s \in Tables
  BY KeptIs
<1>6. t = [s EXCEPT !.byhand = d, !.staff = f]
  BY Zenon DEF HandleRename, Moves
<1>7. f \in [Bots -> Dicts(Names, HlTrial..HlOwner)]
  <2>1. ASSUME NEW b \in Bots PROVE Moves(s.staff[b], old, new) \in Dicts(Names, HlTrial..HlOwner)
    <3>1. s.staff[b] \in Dicts(Names, HlTrial..HlOwner)
      BY <1>5 DEF Tables
    <3> QED BY <3>1, MovesIn
  <2> QED BY <2>1
<1>8. ASSUME NEW p \in DOMAIN s.rec, s.rec[p].helper # NULL PROVE m.name[s.rec[p].helper] \in DOMAIN f[s.rec[p].hs]
  <2> DEFINE b == s.rec[p].hs
             g == s.rec[p].helper
  <2>1. n.name[g] \in DOMAIN s.staff[b] /\ b \in Bots /\ g \in Handles
    BY <1>4, <1>8, HelperListed DEF Optional
  <2>2. s.staff[b] \in Dicts(Names, HlTrial..HlOwner) /\ f[b] = Moves(s.staff[b], old, new)
    BY <1>5, <2>1 DEF Tables
  <2> HIDE DEF f, b, g
  <2>3. /\ old \in DOMAIN s.staff[b] => new \in DOMAIN f[b]
        /\ \A x \in DOMAIN s.staff[b] : x # old => x \in DOMAIN f[b]
    BY <2>2, MovesIn
  <2>4. m.name[g] \in DOMAIN f[b]
    <3>1. CASE g = h
      BY <1>1, <2>1, <2>3, <3>1 DEF old
    <3>2. CASE g # h
      BY <1>1, <2>1, <2>3, <3>2 DEF old, NetOk
    <3> QED BY <3>1, <3>2
  <2> QED BY <2>4 DEF b, g
<1>9. Lists(d, ByName(m.name, s.rec))
  <2> DEFINE A == ByName(n.name, s.rec)
             B == ByName(m.name, s.rec)
  <2>1. Lists(s.byhand, A)
    BY DEF Kept, Filed
  <2>2. DOMAIN A = Names /\ DOMAIN B = Names /\ \A x \in Names : A[x] = AtName(n.name, s.rec, x) /\ B[x] = AtName(m.name, s.rec, x)
    BY DEF ByName
  <2> HIDE DEF A, B
  <2>3. A[new] = {}
    BY <1>4, <2>2 DEF AtName, Optional
  <2>8. \A p \in DOMAIN s.rec : s.rec[p].handle # NULL =>
            /\ s.rec[p].handle \in Handles /\ m.name[s.rec[p].handle] # old
            /\ m.name[s.rec[p].handle] = new <=> n.name[s.rec[p].handle] = old
    <3>1. \A v \in Handles : n.name[v] = old <=> v = h
      BY <1>2 DEF NetOk, old
    <3>2. \A v \in Handles : m.name[v] # old /\ (m.name[v] = new <=> n.name[v] = old)
      BY <1>1, <1>2, <3>1
    <3> QED BY <1>4, <3>2 DEF Optional
  <2>9. /\ B[old] = AtName(m.name, s.rec, old) /\ A[old] = AtName(n.name, s.rec, old)
        /\ B[new] = AtName(m.name, s.rec, new)
    BY <1>2, <2>2
  <2>4. B[old] = {}
    <3>1. AtName(m.name, s.rec, old) = {}
      BY <2>8 DEF AtName
    <3> QED BY <2>9, <3>1
  <2>5. B[new] = A[old]
    <3>1. AtName(m.name, s.rec, new) = AtName(n.name, s.rec, old)
      BY <2>8 DEF AtName
    <3> QED BY <2>9, <3>1
  <2>6. ASSUME NEW x \in Names, x # old, x # new PROVE B[x] = A[x]
    <3>1. B[x] = AtName(m.name, s.rec, x) /\ A[x] = AtName(n.name, s.rec, x)
      BY <2>2
    <3>2. \A v \in Handles : m.name[v] = x <=> n.name[v] = x
      BY <1>1, <2>6 DEF old
    <3>3. AtName(m.name, s.rec, x) = AtName(n.name, s.rec, x)
      BY <2>8, <3>2 DEF AtName
    <3> QED BY <3>1, <3>3
  <2>7. Lists(d, B)
    BY <1>2, <2>1, <2>2, <2>3, <2>4, <2>5, <2>6, MovesLists
  <2> QED BY <2>7 DEF B
<1> HIDE DEF t, d, f
<1>10. d \in Dicts(Names, Seq(Nat))
  BY <1>9, ListsAre
<1>11. /\ t \in Tables /\ t.byhand = d /\ t.staff = f /\ t.rec = s.rec /\ t.bynick = s.bynick
       /\ t.requests = s.requests /\ t.unhandled = s.unhandled /\ t.made = s.made /\ t.now = s.now /\ t.up = s.up
  BY <1>5, <1>6, <1>7, <1>10 DEF Tables
<1>12. Core(t, Bots)
  <2>1. SameCore(s, t)
    BY <1>11 DEF SameCore
  <2> QED BY <1>11, <2>1, CoreKept DEF Kept, Filed
<1>13. Tied(m, t.rec) /\ Followed(m, t.rec)
  BY <1>1, <1>2, <1>4, <1>11 DEF Kept, Filed, Tied, Followed, Optional
<1>14. Staffed(m, t)
  BY <1>4, <1>8, <1>11, LevelIs DEF Staffed
<1>15. Kept(m, t)
  BY <1>1, <1>9, <1>11, <1>12, <1>13, <1>14 DEF Kept, Filed
<1> QED BY <1>3, <1>15 DEF m, t, old

-----------------------------------------------------------------------------
(* Logging in.                                                              *)

\* The passes of handle_nickserv_auth.
LeaveFrom(n, f, p, old) ==
  IF old = NULL \/ n.name[old] \notin DOMAIN f THEN f
  ELSE IF Len(f[n.name[old]]) = 1 THEN Drop(f, n.name[old])
  ELSE Put(f, n.name[old], RemoveFirst(f[n.name[old]], p))
\* One step of the first pass, the first pass, and the second.
MoveOne(n, t, p, h, old) ==
  [t EXCEPT !.rec[p].handle = h, !.byhand = LeaveFrom(n, Push(t.byhand, n.name[h], p), p, old)]
MoveAll(n, s, list, h, old) == Each(LAMBDA t, p : MoveOne(n, t, p, h, old), s, list)
StickAll(s, list) == Each(LAMBDA t, p : [t EXCEPT !.rec[p].user = NULL], s, list)

\* handle_nickserv_auth moves a request from one account to another, or to
\* its first one, exactly.
LEMMA MoveOneKeeps ==
  ASSUME NEW n, NetOk(n), NEW s, Core(s, Bots), Lists(s.byhand, ByName(n.name, s.rec)), NEW p \in DOMAIN s.rec,
         NEW h \in Handles, n.name[h] # NULL, NEW old, old = s.rec[p].handle, old # h, old # NULL => n.name[old] # NULL
  PROVE  LET v == MoveOne(n, s, p, h, old) IN
         /\ Core(v, Bots) /\ Lists(v.byhand, ByName(n.name, v.rec)) /\ HandleSet(s.rec, p, h, v.rec)
         /\ v.bynick = s.bynick /\ v.up = s.up /\ v.staff = s.staff
<1> DEFINE v == MoveOne(n, s, p, h, old)
           e == WithHandle(s.rec, p, h)
           kh == n.name[h]
           ko == n.name[old]
           f == Push(s.byhand, kh, p)
           d == LeaveFrom(n, f, p, old)
           A == ByName(n.name, s.rec)
           A1 == [A EXCEPT ![kh] = A[kh] \cup {p}]
           B == ByName(n.name, e)
<1>1. s \in Tables /\ s.rec \in Records /\ p \in Nat /\ old \in Optional(Handles) /\ h \in Optional(Handles) /\ h # NULL
  BY RequestIs, TablesAre, HelpServAssumption DEF Core, Optional
<1>2. kh \in Names /\ (old # NULL => ko \in Names /\ ko # kh)
  BY <1>1 DEF NetOk, Nets, Optional
<1>3. EditedTo(s, e, s.bynick, d, v)
  <2>1. v = [s EXCEPT !.rec = e, !.byhand = d]
    BY Zenon DEF MoveOne, WithHandle
  <2> HIDE DEF e, d, v
  <2>2. EditedTo(s, e, s.bynick, d, [s EXCEPT !.rec = e, !.byhand = d])
    BY <1>1, EditedIs, Zenon
  <2> QED BY <2>1, <2>2
<1>4. HandleSet(s.rec, p, h, e)
  BY <1>1, SetsAre
<1> HIDE DEF v, e
<1>5. /\ e \in Records /\ DOMAIN e = DOMAIN s.rec /\ e[p].handle = h /\ e[p].user = s.rec[p].user
      /\ \A q \in DOMAIN s.rec : q # p => e[q] = s.rec[q]
      /\ \A q \in DOMAIN s.rec : e[q].hs = s.rec[q].hs /\ e[q].id = s.rec[q].id
                                 /\ e[q].helper = s.rec[q].helper /\ e[q].opened = s.rec[q].opened
  BY <1>4 DEF HandleSet
<1>6. DOMAIN A = Names /\ DOMAIN B = Names /\ Lists(s.byhand, A)
      /\ \A x \in Names : A[x] = AtName(n.name, s.rec, x) /\ B[x] = AtName(n.name, e, x)
  BY DEF ByName
<1> HIDE DEF A, B, kh, ko
<1>7. p \notin A[kh]
  <2>1. \A q \in A[kh] : q \in DOMAIN s.rec /\ s.rec[q].handle # NULL /\ n.name[s.rec[q].handle] = n.name[h]
    BY <1>2, <1>6 DEF AtName, kh
  <2> QED BY <1>1, <2>1 DEF NetOk, Optional
<1>8. Lists(f, A1)
  BY <1>1, <1>2, <1>6, <1>7, ListsPush
<1>9. old # NULL => p \in A[ko]
  <2>1. old # NULL => A[ko] = AtName(n.name, s.rec, ko)
    BY <1>2, <1>6
  <2>2. old # NULL => p \in AtName(n.name, s.rec, ko)
    BY DEF AtName, ko
  <2> QED BY <2>1, <2>2
<1>10. \A x \in Names : x # kh => A1[x] = A[x]
  BY <1>6
<1>11. A1[kh] = A[kh] \cup {p} /\ DOMAIN A1 = Names
  BY <1>2, <1>6
<1> HIDE DEF f, A1
<1>12. B[kh] = A1[kh]
  <2>1. AtName(n.name, e, kh) = AtName(n.name, s.rec, kh) \cup {p}
    BY <1>1, <1>5 DEF AtName, kh
  <2> QED BY <1>2, <1>6, <1>11, <2>1
<1>13. ASSUME NEW x \in Names, x # kh, old # NULL => x # ko PROVE B[x] = A1[x]
  <2>1. AtName(n.name, e, x) = AtName(n.name, s.rec, x)
    BY <1>5, <1>13 DEF AtName, kh, ko
  <2> QED BY <1>6, <1>10, <1>13, <2>1
<1>14. Lists(d, B)
  <2>1. CASE old = NULL
    <3>1. d = f
      BY <2>1 DEF LeaveFrom
    <3>2. \A x \in Names : B[x] = A1[x]
      BY <1>12, <1>13, <2>1
    <3>3. Lists(f, A1) /\ DOMAIN A1 = DOMAIN B
      BY <1>6, <1>8, <1>11
    <3>4. Lists(f, B)
      BY <1>6, <3>2, <3>3 DEF Lists
    <3> QED BY <3>1, <3>4
  <2>2. CASE old # NULL
    <3>1. ko \in DOMAIN A1 /\ p \in A1[ko]
      BY <1>2, <1>9, <1>10, <1>11, <2>2
    <3>2. ko \in DOMAIN f /\ Lists(Without(f, ko, p), [A1 EXCEPT ![ko] = A1[ko] \ {p}])
      BY <1>8, <3>1, ListsLess
    <3>3. d = Without(f, ko, p)
      BY <2>2, <3>2 DEF LeaveFrom, Without, ko
    <3> HIDE DEF d
    <3> DEFINE A2 == [A1 EXCEPT ![ko] = A1[ko] \ {p}]
    <3>4. DOMAIN A2 = Names /\ A2[ko] = A[ko] \ {p} /\ \A x \in Names : x # ko => A2[x] = A1[x]
      BY <1>2, <1>10, <1>11, <2>2, <3>1
    <3>5. B[ko] = A[ko] \ {p}
      <4>1. AtName(n.name, e, ko) = AtName(n.name, s.rec, ko) \ {p}
        BY <1>2, <1>5, <2>2 DEF AtName, kh
      <4> QED BY <1>2, <1>6, <2>2, <4>1
    <3>6. Lists(Without(f, ko, p), A2)
      BY <3>2
    <3> HIDE DEF A2
    <3>7. \A x \in Names : B[x] = A2[x]
      BY <1>12, <1>13, <2>2, <3>4, <3>5
    <3>8. Lists(Without(f, ko, p), B)
      BY <1>6, <3>4, <3>6, <3>7 DEF Lists
    <3> QED BY <3>3, <3>8
  <2> QED BY <2>1, <2>2
<1> HIDE DEF d
<1>15. /\ v.rec = e /\ v.bynick = s.bynick /\ v.byhand = d /\ v.up = s.up /\ v.staff = s.staff
       /\ (e \in Records /\ s.bynick \in Dicts(Nicks, Seq(Nat)) /\ d \in Dicts(Names, Seq(Nat))) => v \in Tables
  BY <1>3, Zenon DEF EditedTo
<1>16. v \in Tables
  BY <1>1, <1>5, <1>14, <1>15, ListsAre DEF Tables, B
<1>17. Core(v, Bots)
  BY <1>3, <1>5, <1>16, EditKeepsCore
<1>18. Core(v, Bots) /\ Lists(v.byhand, ByName(n.name, v.rec)) /\ HandleSet(s.rec, p, h, v.rec)
       /\ v.bynick = s.bynick /\ v.up = s.up /\ v.staff = s.staff
  BY <1>4, <1>14, <1>15, <1>17 DEF B
<1> QED BY <1>18 DEF v

\* t is s with the requests of M given to h.
MovedTo(s, M, h, t) ==
  /\ DOMAIN t.rec = DOMAIN s.rec /\ t.bynick = s.bynick /\ t.up = s.up /\ t.staff = s.staff
  /\ \A q \in DOMAIN s.rec : /\ t.rec[q].user = s.rec[q].user
                             /\ t.rec[q].handle = IF q \in M THEN h ELSE s.rec[q].handle
                             /\ t.rec[q].hs = s.rec[q].hs /\ t.rec[q].helper = s.rec[q].helper

\* The first pass of handle_nickserv_auth moves the requests it goes over and
\* no other.
LEMMA MoveAllKeeps ==
  ASSUME NEW m, NetOk(m), NEW s, Core(s, Bots), Lists(s.byhand, ByName(m.name, s.rec)),
         NEW h \in Handles, m.name[h] # NULL, NEW old, old # h, old # NULL => m.name[old] # NULL,
         NEW list, NEW M, Holds(list, M), \A p \in M : p \in DOMAIN s.rec /\ s.rec[p].handle = old
  PROVE  LET t == MoveAll(m, s, list, h, old) IN
         Core(t, Bots) /\ Lists(t.byhand, ByName(m.name, t.rec)) /\ MovedTo(s, M, h, t)
<1> DEFINE first == s
           Do(t, p) == MoveOne(m, t, p, h, old)
           Good(i, t) == Core(t, Bots) /\ Lists(t.byhand, ByName(m.name, t.rec)) /\ MovedTo(s, M \ Rest(list, i), h, t)
           n == Len(list)
           good == [i \in 0..n |-> {t \in Tables : Good(i, t)}]
           do == [i \in 1..n |-> [t \in good[i - 1] |-> Do(t, list[i])]]
           Run(f) == f = [i \in 0..Len(list) |-> IF i = 0 THEN first ELSE Do(f[i - 1], list[i])]
           k == CHOOSE f : Run(f)
<1>1. /\ n \in Nat /\ Rest(list, 0) = M /\ Rest(list, n) = {}
      /\ \A i \in 1..n : /\ list[i] \in Rest(list, i - 1) /\ Rest(list, i) = Rest(list, i - 1) \ {list[i]}
                         /\ list[i] \in M
  <2>1. Len(list) \in Nat /\ \A i \in 1..Len(list) : list[i] \in M
    BY DEF Holds
  <2>2. /\ Rest(list, 0) = M /\ Rest(list, Len(list)) = {}
        /\ \A i \in 1..Len(list) : list[i] \in Rest(list, i - 1) /\ Rest(list, i) = Rest(list, i - 1) \ {list[i]}
    <3> HIDE DEF n, good, do, Run, k
    <3> QED BY RestIs
  <2> QED BY <2>1, <2>2
<1>2. ASSUME NEW i \in 1..n, NEW t \in good[i - 1] PROVE Do(t, list[i]) \in good[i]
  <2> HIDE DEF do, k, Run
  <2>0. i - 1 \in 0..n /\ i \in 0..n
    BY <1>1
  <2>1. Good(i - 1, t)
    BY <2>0
  <2> DEFINE v == Do(t, list[i])
             p == list[i]
  <2> HIDE DEF n
  <2>2. p \in DOMAIN t.rec /\ t.rec[p].handle = old /\ p \in M
    BY <1>1, <2>1 DEF MovedTo
  <2>3. Core(v, Bots) /\ Lists(v.byhand, ByName(m.name, v.rec)) /\ HandleSet(t.rec, p, h, v.rec)
        /\ v.bynick = t.bynick /\ v.up = t.up /\ v.staff = t.staff
    BY <2>1, <2>2, MoveOneKeeps
  <2> HIDE DEF v
  <2>4. MovedTo(s, M \ Rest(list, i), h, v)
    <3>1. \A q : q \in M \ Rest(list, i) <=> q = p \/ q \in M \ Rest(list, i - 1)
      BY <1>1, <2>2
    <3> QED BY <2>1, <2>2, <2>3, <3>1 DEF MovedTo, HandleSet
  <2>5. Good(i, v) /\ v \in Tables
    BY <2>3, <2>4 DEF Core
  <2> HIDE DEF Good
  <2>6. v \in good[i]
    BY <2>0, <2>5
  <2> QED BY <2>6 DEF v
<1>3. first \in good[0]
  <2> HIDE DEF do, k, Run
  <2>1. s \in Tables /\ 0 \in 0..n
    BY <1>1 DEF Core
  <2>2. Good(0, s)
    BY <1>1 DEF MovedTo
  <2> HIDE DEF Good, n
  <2> QED BY <2>1, <2>2
<1>4. \A t \in good[n] : Good(n, t)
  <2>1. n \in 0..n
    BY <1>1
  <2> HIDE DEF n, Good
  <2> QED BY <2>1
<1>5. MoveAll(m, s, list, h, old) = k[n]
  BY DEF MoveAll, Each
<1>6. \A i \in 1..n : \A t \in good[i - 1] : do[i][t] = Do(t, list[i])
  <2> HIDE DEF good, n, Do
  <2> QED OBVIOUS
<1>7. n = Len(list)
  OBVIOUS
<1> HIDE DEF good, do, n, Do
<1>8. Loops(n, good, first, do)
  BY <1>1, <1>2, <1>3, <1>6 DEF Loops
<1>9. PICK r : /\ r = [i \in 0..n |-> IF i = 0 THEN first ELSE do[i][r[i - 1]]]
               /\ \A i \in 1..n : r[i - 1] \in good[i - 1] /\ i \in 0..n /\ i - 1 \in 0..n /\ i # 0
  BY <1>8, LoopRuns
<1>10. Run(r)
  <2>1. \A i \in 0..n : i = 0 \/ i \in 1..n
    BY <1>1
  <2>2. \A i \in 0..n : (IF i = 0 THEN first ELSE do[i][r[i - 1]]) = IF i = 0 THEN first ELSE Do(r[i - 1], list[i])
    BY <1>6, <1>9, <2>1
  <2> QED BY <1>7, <1>9, <2>2
<1> HIDE DEF Run
<1>11. Run(k)
  BY <1>10
<1> HIDE DEF k
<1>12. k[0] \in good[0] /\ \A i \in 1..n : k[i - 1] \in good[i - 1] => k[i] \in good[i]
  <2>1. 0 \in 0..n
    BY <1>1
  <2>2. k[0] = first /\ \A i \in 1..n : k[i] = Do(k[i - 1], list[i])
    BY <1>7, <1>9, <1>11, <2>1 DEF Run
  <2> QED BY <1>2, <1>3, <2>2
<1>13. k[n] \in good[n]
  BY <1>1, <1>12, LoopStays
<1>14. Good(n, MoveAll(m, s, list, h, old))
  BY <1>4, <1>5, <1>13
<1>15. M \ Rest(list, n) = M
  BY <1>1
<1> QED BY <1>14, <1>15

\* t is s, the requests of K without their user.
StuckTo(s, K, t) ==
  /\ DOMAIN t.rec = DOMAIN s.rec /\ t.bynick = s.bynick /\ t.byhand = s.byhand /\ t.up = s.up /\ t.staff = s.staff
  /\ \A q \in DOMAIN s.rec : /\ t.rec[q].user = IF q \in K THEN NULL ELSE s.rec[q].user
                             /\ t.rec[q].handle = s.rec[q].handle
                             /\ t.rec[q].hs = s.rec[q].hs /\ t.rec[q].helper = s.rec[q].helper

\* A request that loses its user keeps queues and tables exact.
LEMMA StickOneKeeps ==
  ASSUME NEW s, Core(s, Bots), NEW p \in DOMAIN s.rec
  PROVE  LET v == [s EXCEPT !.rec[p].user = NULL] IN Core(v, Bots) /\ StuckTo(s, {p}, v)
<1> DEFINE v == [s EXCEPT !.rec[p].user = NULL]
           e == WithUser(s.rec, p, NULL)
<1>1. s \in Tables /\ s.rec \in Records
  BY TablesAre DEF Core
<1>2. EditedTo(s, e, s.bynick, s.byhand, v)
  BY <1>1, EditsAre
<1>3. UserSet(s.rec, p, NULL, e)
  BY <1>1, SetsAre DEF Optional
<1> HIDE DEF v, e
<1>4. /\ v.rec = e /\ v.bynick = s.bynick /\ v.byhand = s.byhand /\ v.up = s.up /\ v.staff = s.staff
      /\ (e \in Records /\ s.bynick \in Dicts(Nicks, Seq(Nat)) /\ s.byhand \in Dicts(Names, Seq(Nat))) => v \in Tables
  BY <1>2, Zenon DEF EditedTo
<1>5. /\ e \in Records /\ DOMAIN e = DOMAIN s.rec /\ e[p].user = NULL /\ e[p].handle = s.rec[p].handle
      /\ \A q \in DOMAIN s.rec : q # p => e[q] = s.rec[q]
      /\ \A q \in DOMAIN s.rec : e[q].hs = s.rec[q].hs /\ e[q].id = s.rec[q].id
                                 /\ e[q].helper = s.rec[q].helper /\ e[q].opened = s.rec[q].opened
  BY <1>3 DEF UserSet
<1>6. v \in Tables
  BY <1>1, <1>4, <1>5 DEF Tables
<1>7. Core(v, Bots)
  BY <1>2, <1>5, <1>6, EditKeepsCore
<1>8. StuckTo(s, {p}, v)
  BY <1>4, <1>5 DEF StuckTo
<1> QED BY <1>7, <1>8 DEF v

\* The second pass of handle_nickserv_auth takes the user from the requests
\* it goes over and from no other.
LEMMA StickAllKeeps ==
  ASSUME NEW s, Core(s, Bots), NEW list, NEW K, Holds(list, K), K \subseteq DOMAIN s.rec
  PROVE  Core(StickAll(s, list), Bots) /\ StuckTo(s, K, StickAll(s, list))
<1> DEFINE first == s
           Do(t, p) == [t EXCEPT !.rec[p].user = NULL]
           Good(i, t) == Core(t, Bots) /\ StuckTo(s, K \ Rest(list, i), t)
           n == Len(list)
           good == [i \in 0..n |-> {t \in Tables : Good(i, t)}]
           do == [i \in 1..n |-> [t \in good[i - 1] |-> Do(t, list[i])]]
           Run(f) == f = [i \in 0..Len(list) |-> IF i = 0 THEN first ELSE Do(f[i - 1], list[i])]
           k == CHOOSE f : Run(f)
<1>1. /\ n \in Nat /\ Rest(list, 0) = K /\ Rest(list, n) = {}
      /\ \A i \in 1..n : /\ list[i] \in Rest(list, i - 1) /\ Rest(list, i) = Rest(list, i - 1) \ {list[i]}
                         /\ list[i] \in K
  <2>1. Len(list) \in Nat /\ \A i \in 1..Len(list) : list[i] \in K
    BY DEF Holds
  <2>2. /\ Rest(list, 0) = K /\ Rest(list, Len(list)) = {}
        /\ \A i \in 1..Len(list) : list[i] \in Rest(list, i - 1) /\ Rest(list, i) = Rest(list, i - 1) \ {list[i]}
    <3> HIDE DEF n, good, do, Run, k
    <3> QED BY RestIs
  <2> QED BY <2>1, <2>2
<1>2. ASSUME NEW i \in 1..n, NEW t \in good[i - 1] PROVE Do(t, list[i]) \in good[i]
  <2> HIDE DEF do, k, Run
  <2>0. i - 1 \in 0..n /\ i \in 0..n
    BY <1>1
  <2>1. Good(i - 1, t)
    BY <2>0
  <2> DEFINE v == Do(t, list[i])
             p == list[i]
  <2> HIDE DEF n
  <2>2. p \in DOMAIN t.rec /\ p \in K
    BY <1>1, <2>1 DEF StuckTo
  <2>3. Core(v, Bots) /\ StuckTo(t, {p}, v)
    BY <2>1, <2>2, StickOneKeeps
  <2> HIDE DEF v
  <2>4. StuckTo(s, K \ Rest(list, i), v)
    <3>1. \A q : q \in K \ Rest(list, i) <=> q = p \/ q \in K \ Rest(list, i - 1)
      BY <1>1, <2>2
    <3> QED BY <2>1, <2>2, <2>3, <3>1 DEF StuckTo
  <2>5. Good(i, v) /\ v \in Tables
    BY <2>3, <2>4 DEF Core
  <2> HIDE DEF Good
  <2>6. v \in good[i]
    BY <2>0, <2>5
  <2> QED BY <2>6 DEF v
<1>3. first \in good[0]
  <2> HIDE DEF do, k, Run
  <2>1. s \in Tables /\ 0 \in 0..n
    BY <1>1 DEF Core
  <2>2. Good(0, s)
    BY <1>1 DEF StuckTo
  <2> HIDE DEF Good, n
  <2> QED BY <2>1, <2>2
<1>4. \A t \in good[n] : Good(n, t)
  <2>1. n \in 0..n
    BY <1>1
  <2> HIDE DEF n, Good
  <2> QED BY <2>1
<1>5. StickAll(s, list) = k[n]
  BY DEF StickAll, Each
<1>6. \A i \in 1..n : \A t \in good[i - 1] : do[i][t] = Do(t, list[i])
  <2> HIDE DEF good, n, Do
  <2> QED OBVIOUS
<1>7. n = Len(list)
  OBVIOUS
<1> HIDE DEF good, do, n, Do
<1>8. Loops(n, good, first, do)
  BY <1>1, <1>2, <1>3, <1>6 DEF Loops
<1>9. PICK r : /\ r = [i \in 0..n |-> IF i = 0 THEN first ELSE do[i][r[i - 1]]]
               /\ \A i \in 1..n : r[i - 1] \in good[i - 1] /\ i \in 0..n /\ i - 1 \in 0..n /\ i # 0
  BY <1>8, LoopRuns
<1>10. Run(r)
  <2>1. \A i \in 0..n : i = 0 \/ i \in 1..n
    BY <1>1
  <2>2. \A i \in 0..n : (IF i = 0 THEN first ELSE do[i][r[i - 1]]) = IF i = 0 THEN first ELSE Do(r[i - 1], list[i])
    BY <1>6, <1>9, <2>1
  <2> QED BY <1>7, <1>9, <2>2
<1> HIDE DEF Run
<1>11. Run(k)
  BY <1>10
<1> HIDE DEF k
<1>12. k[0] \in good[0] /\ \A i \in 1..n : k[i - 1] \in good[i - 1] => k[i] \in good[i]
  <2>1. 0 \in 0..n
    BY <1>1
  <2>2. k[0] = first /\ \A i \in 1..n : k[i] = Do(k[i - 1], list[i])
    BY <1>7, <1>9, <1>11, <2>1 DEF Run
  <2> QED BY <1>2, <1>3, <2>2
<1>13. k[n] \in good[n]
  BY <1>1, <1>12, LoopStays
<1>14. Good(n, StickAll(s, list))
  BY <1>4, <1>5, <1>13
<1>15. K \ Rest(list, n) = K
  BY <1>1
<1> QED BY <1>14, <1>15

\* A list holds one set.
LEMMA HoldsOne ==
  ASSUME NEW list, NEW S, NEW T, Holds(list, S), Holds(list, T)
  PROVE  S = T
<1>1. \A p \in S : p \in T
  BY DEF Holds
<1>2. \A p \in T : p \in S
  BY DEF Holds
<1> QED BY <1>1, <1>2

\* handle_nickserv_auth keeps the invariant, at a first login and at a change
\* of accounts, with requests that move and requests that stay.
LEMMA AuthKeeps ==
  ASSUME NEW n, NetOk(n), NEW s, Kept(n, s), NEW u \in Users, n.nick[u] # NULL,
         NEW h \in Handles, n.name[h] # NULL, n.acct[u] # h
  PROVE  LET m == [n EXCEPT !.acct[u] = h] IN NetOk(m) /\ Kept(m, HandleAuth(m, s, u, n.acct[u]))
<1> DEFINE m == [n EXCEPT !.acct[u] = h]
           old == n.acct[u]
           nick == n.nick[u]
           list == Listed(s.bynick, nick)
           go == Movable(s, old)
           moving == Only(list, go)
           stuck == Only(list, DOMAIN s.rec \ go)
           R == RequestsOf(s, u)
           M == R \cap go
           K == R \cap (DOMAIN s.rec \ go)
           kh == m.name[h]
           f == Put(s.byhand, kh, Listed(s.byhand, kh))
           begun == [s EXCEPT !.byhand = f]
           moved == MoveAll(m, begun, moving, h, old)
           split == StickAll(moved, stuck)
           d == IF stuck = list THEN Drop(s.bynick, nick) ELSE Put(s.bynick, nick, moving)
           w == [split EXCEPT !.bynick = d]
           t == HandleAuth(m, s, u, old)
<1>1. /\ m \in Nets /\ m.name = n.name /\ m.nick = n.nick /\ m.acct[u] = h
      /\ \A v \in Users : v # u => m.acct[v] = n.acct[v]
  BY DEF NetOk, Nets, Optional
<1>2. h # NULL /\ old \in Optional(Handles) /\ kh \in Names /\ (old # NULL => n.name[old] # NULL)
  BY <1>1, HelpServAssumption DEF NetOk, Nets, Optional
<1>3. t = IF nick \notin DOMAIN s.bynick THEN AssociateAll(m, s, u) ELSE AssociateAll(m, w, u)
  <2>1. t = IF h = NULL THEN s ELSE IF nick \notin DOMAIN s.bynick THEN AssociateAll(m, s, u) ELSE AssociateAll(m, w, u)
    <3>1. m.nick[u] = nick /\ m.acct[u] = h
      BY <1>1
    <3> DEFINE x == m.nick[u]
               y == m.acct[u]
               l == Listed(s.bynick, x)
               k2 == m.name[y]
               b2 == [s EXCEPT !.byhand = Put(s.byhand, k2, Listed(s.byhand, k2))]
               s2 == StickAll(MoveAll(m, b2, Only(l, go), y, old), Only(l, DOMAIN s.rec \ go))
               w2 == [s2 EXCEPT !.bynick = IF Only(l, DOMAIN s.rec \ go) = l THEN Drop(s.bynick, x)
                                           ELSE Put(s.bynick, x, Only(l, go))]
    <3>2. t = IF y = NULL THEN s ELSE IF x \notin DOMAIN s.bynick THEN AssociateAll(m, s, u) ELSE AssociateAll(m, w2, u)
      BY Zenon DEF HandleAuth, StickAll, MoveAll, MoveOne, LeaveFrom, Each
    <3> HIDE DEF t, go, m, old
    <3> QED BY <3>1, <3>2, Zenon
  <2> HIDE DEF t, w, m, nick
  <2> QED BY <1>2, <2>1
<1> HIDE DEF t, go, m, old, kh
<1>4. NetOk(m)
  <2>1. \A v \in Users : m.acct[v] # NULL => m.nick[v] # NULL /\ m.name[m.acct[v]] # NULL
    <3>1. \A v \in Users : n.acct[v] # NULL => n.nick[v] # NULL /\ n.name[n.acct[v]] # NULL
      BY DEF NetOk
    <3> QED BY <1>1, <3>1
  <2> QED BY <1>1, <2>1 DEF NetOk
<1>5. \A p \in R : p \in DOMAIN s.rec /\ s.rec[p].user = u /\ u # NULL /\ s.rec[p].handle = old
  BY HelpServAssumption DEF RequestsOf, Kept, Followed, old
<1>6. nick \in Nicks /\ Holds(list, R) /\ AtNick(n.nick, s.rec, nick) = R
  BY NickHolds
<1> HIDE DEF nick, list
<1>7. ASSUME nick \notin DOMAIN s.bynick PROVE Kept(m, t)
  <2>1. R = {}
    <3>1. list = <<>>
      BY <1>7 DEF list, Listed
    <3> QED BY <1>6, <3>1, HoldsSome
  <2>2. Kept(m, s)
    <3>1. Followed(m, s.rec)
      <4>1. \A p \in DOMAIN s.rec : s.rec[p].user # NULL => s.rec[p].user \in Users /\ s.rec[p].user # u
        BY <2>1, KeptIs, RequestIs DEF RequestsOf, Optional
      <4> QED BY <1>1, <4>1 DEF Kept, Followed
    <3> QED BY <1>1, <3>1 DEF Kept, Filed, Tied, Staffed, Level
  <2>3. m.nick[u] # NULL /\ t = AssociateAll(m, s, u)
    BY <1>1, <1>3, <1>7
  <2> QED BY <1>4, <2>2, <2>3, AssociateAllKeeps
<1>8. s \in Tables /\ Core(s, Bots) /\ Tied(n, s.rec) /\ Followed(n, s.rec) /\ Staffed(n, s)
      /\ Lists(s.bynick, ByNick(n.nick, s.rec)) /\ Lists(s.byhand, ByName(n.name, s.rec))
  BY DEF Kept, Filed, Core
<1>9. Holds(moving, M) /\ Holds(stuck, K)
  BY <1>6, HoldsOnly
<1>10. M \subseteq R /\ K \subseteq R /\ K \subseteq DOMAIN s.rec /\ (stuck = list => M = {})
       /\ (K # {} => old # NULL) /\ \A q \in R : q \in M \/ q \in K
  <2>1. \A q \in R : q \in go \/ q \in DOMAIN s.rec \ go
    BY <1>5
  <2>2. stuck = list => R = K
    BY <1>6, <1>9, HoldsOne
  <2>3. old = NULL => DOMAIN s.rec \subseteq go
    BY DEF go, Movable
  <2> QED BY <2>1, <2>2, <2>3
<1> HIDE DEF moving, stuck, M, K
<1>11. /\ Core(begun, Bots) /\ Lists(begun.byhand, ByName(m.name, begun.rec)) /\ begun.rec = s.rec
       /\ begun.bynick = s.bynick /\ begun.staff = s.staff
  <2>1. EditedTo(s, s.rec, s.bynick, f, begun)
    <3> HIDE DEF f
    <3> QED BY <1>8, EditedIs, Zenon
  <2>2. Lists(f, ByName(m.name, s.rec))
    <3> DEFINE A == ByName(m.name, s.rec)
    <3>1. Lists(s.byhand, A) /\ DOMAIN A = Names
      BY <1>1, <1>8 DEF ByName
    <3> HIDE DEF A
    <3>2. Holds(Listed(s.byhand, kh), A[kh])
      BY <1>2, <3>1 DEF Lists
    <3>3. Lists(f, [A EXCEPT ![kh] = A[kh]])
      BY <1>2, <3>1, <3>2, ListsPut
    <3>4. [A EXCEPT ![kh] = A[kh]] = A
      BY DEF A, ByName
    <3> QED BY <3>3, <3>4 DEF A
  <2> HIDE DEF f, begun
  <2>3. /\ begun.rec = s.rec /\ begun.bynick = s.bynick /\ begun.byhand = f /\ begun.staff = s.staff
        /\ (s.rec \in Records /\ s.bynick \in Dicts(Nicks, Seq(Nat)) /\ f \in Dicts(Names, Seq(Nat))) => begun \in Tables
    BY <2>1, Zenon DEF EditedTo
  <2>4. begun \in Tables
    BY <1>8, <2>2, <2>3, ListsAre DEF Tables
  <2>5. Core(begun, Bots)
    BY <1>8, <2>1, <2>4, EditKeepsCore
  <2> QED BY <2>2, <2>3, <2>5
<1> HIDE DEF begun
<1>12. Core(moved, Bots) /\ Lists(moved.byhand, ByName(m.name, moved.rec)) /\ MovedTo(begun, M, h, moved)
  <2>1. m.name[h] # NULL /\ old # h /\ (old # NULL => m.name[old] # NULL)
    BY <1>1, <1>2 DEF old
  <2>2. \A p \in M : p \in DOMAIN begun.rec /\ begun.rec[p].handle = old
    BY <1>5, <1>10, <1>11
  <2> QED BY <1>4, <1>9, <1>11, <2>1, <2>2, MoveAllKeeps
<1> HIDE DEF moved
<1>13. Core(split, Bots) /\ StuckTo(moved, K, split)
  <2>1. K \subseteq DOMAIN moved.rec
    BY <1>10, <1>11, <1>12 DEF MovedTo
  <2> QED BY <1>9, <1>12, <2>1, StickAllKeeps
<1> HIDE DEF split
<1>14. /\ DOMAIN split.rec = DOMAIN s.rec /\ split.bynick = s.bynick /\ split.staff = s.staff
       /\ \A q \in DOMAIN s.rec : /\ split.rec[q].user = IF q \in K THEN NULL ELSE s.rec[q].user
                                  /\ split.rec[q].handle = IF q \in M THEN h ELSE s.rec[q].handle
                                  /\ split.rec[q].hs = s.rec[q].hs /\ split.rec[q].helper = s.rec[q].helper
  BY <1>11, <1>12, <1>13 DEF MovedTo, StuckTo
<1>15. Lists(split.byhand, ByName(m.name, split.rec))
  <2>1. DOMAIN split.rec = DOMAIN moved.rec /\ split.byhand = moved.byhand
        /\ \A q \in DOMAIN moved.rec : split.rec[q].handle = moved.rec[q].handle
    BY <1>13 DEF StuckTo
  <2>2. ByName(m.name, split.rec) = ByName(m.name, moved.rec)
    BY <2>1, NameSame
  <2> QED BY <1>12, <2>1, <2>2
<1>16. Lists(d, ByNick(m.nick, split.rec))
  <2> DEFINE A == ByNick(m.nick, s.rec)
             B == [A EXCEPT ![nick] = M]
  <2>1. Lists(s.bynick, A) /\ DOMAIN A = Nicks
    BY <1>1, <1>8 DEF ByNick
  <2>2. ByNick(m.nick, split.rec) = B
    <3>0. \A q \in DOMAIN s.rec : q \in R <=> s.rec[q].user # NULL /\ m.nick[s.rec[q].user] = nick
      BY <1>1, <1>6 DEF AtNick
    <3>1. AtNick(m.nick, split.rec, nick) = M
      <4>1. \A q \in M : q \in DOMAIN s.rec /\ q \in R /\ q \notin K
        BY <1>5, <1>10 DEF M, K
      <4>2. \A q \in DOMAIN s.rec : q \in M <=> q \in R /\ q \notin K
        BY <1>10, <4>1
      <4> QED BY <1>14, <3>0, <4>1, <4>2 DEF AtNick
    <3>2. \A x \in Nicks : x # nick => AtNick(m.nick, split.rec, x) = AtNick(m.nick, s.rec, x)
      BY <1>10, <1>14, <3>0 DEF AtNick
    <3> QED BY <1>6, <3>1, <3>2, NickChanges
  <2> HIDE DEF A
  <2>3. Lists(d, B)
    <3>1. CASE stuck = list
      <4>1. Lists(Drop(s.bynick, nick), [A EXCEPT ![nick] = {}])
        BY <1>6, <2>1, ListsDrop
      <4> QED BY <1>10, <3>1, <4>1
    <3>2. CASE stuck # list
      <4>1. Lists(Put(s.bynick, nick, moving), [A EXCEPT ![nick] = M])
        BY <1>6, <1>9, <2>1, ListsPut
      <4> QED BY <3>2, <4>1
    <3> QED BY <3>1, <3>2
  <2> QED BY <2>2, <2>3
<1>17. EditedTo(split, split.rec, d, split.byhand, w)
  <2>1. split \in Tables
    BY <1>13 DEF Core
  <2> HIDE DEF d
  <2> QED BY <2>1, EditedIs, Zenon
<1> HIDE DEF d, w
<1>18. /\ w.rec = split.rec /\ w.bynick = d /\ w.byhand = split.byhand /\ w.staff = split.staff
       /\ (split.rec \in Records /\ d \in Dicts(Nicks, Seq(Nat)) /\ split.byhand \in Dicts(Names, Seq(Nat))) => w \in Tables
  BY <1>17, Zenon DEF EditedTo
<1>19. w \in Tables
  BY <1>13, <1>15, <1>16, <1>18, ListsAre DEF Core, Tables
<1>20. Core(w, Bots)
  BY <1>13, <1>17, <1>19, EditKeepsCore
<1>21. ASSUME NEW q \in DOMAIN s.rec
       PROVE  /\ w.rec[q].user # NULL => m.nick[w.rec[q].user] # NULL /\ w.rec[q].handle = m.acct[w.rec[q].user]
              /\ w.rec[q].handle # NULL => m.name[w.rec[q].handle] # NULL
              /\ w.rec[q].user # NULL \/ w.rec[q].handle # NULL
              /\ w.rec[q].helper # NULL => Level(m, w, w.rec[q].hs, w.rec[q].helper) > 0
  <2>1. s.rec[q].user \in Optional(Users)
    BY <1>8, RequestIs
  <2>2. /\ s.rec[q].user # NULL => n.nick[s.rec[q].user] # NULL /\ s.rec[q].handle = n.acct[s.rec[q].user]
        /\ s.rec[q].handle # NULL => n.name[s.rec[q].handle] # NULL
        /\ s.rec[q].user # NULL \/ s.rec[q].handle # NULL
        /\ s.rec[q].helper # NULL => Level(n, s, s.rec[q].hs, s.rec[q].helper) > 0
    BY <1>8 DEF Tied, Followed, Staffed
  <2>3. /\ w.rec[q].user = IF q \in K THEN NULL ELSE s.rec[q].user
        /\ w.rec[q].handle = IF q \in M THEN h ELSE s.rec[q].handle
        /\ w.rec[q].hs = s.rec[q].hs /\ w.rec[q].helper = s.rec[q].helper /\ w.staff = s.staff
    BY <1>14, <1>18
  <2>4. q \in R <=> s.rec[q].user = u
    BY DEF RequestsOf
  <2>5. s.rec[q].helper # NULL => Level(m, w, w.rec[q].hs, w.rec[q].helper) > 0
    BY <1>1, <2>2, <2>3 DEF Level
  <2>6. w.rec[q].user # NULL => m.nick[w.rec[q].user] # NULL /\ w.rec[q].handle = m.acct[w.rec[q].user]
    <3>1. CASE q \in K
      BY <2>3, <3>1
    <3>2. CASE q \in M
      BY <1>1, <1>10, <2>2, <2>3, <2>4, <3>2
    <3>3. CASE q \notin K /\ q \notin M
      BY <1>1, <1>10, <2>1, <2>2, <2>3, <2>4, <3>3 DEF Optional
    <3> QED BY <3>1, <3>2, <3>3
  <2>7. w.rec[q].handle # NULL => m.name[w.rec[q].handle] # NULL
    BY <1>1, <2>2, <2>3
  <2>8. w.rec[q].user # NULL \/ w.rec[q].handle # NULL
    BY <1>2, <1>5, <1>10, <2>2, <2>3
  <2> QED BY <2>3, <2>5, <2>6, <2>7, <2>8
<1>22. Tied(m, w.rec) /\ Followed(m, w.rec) /\ Staffed(m, w)
  <2>1. DOMAIN w.rec = DOMAIN s.rec
    BY <1>14, <1>18
  <2> QED BY <1>21, <2>1 DEF Tied, Followed, Staffed
<1>23. Kept(m, w)
  BY <1>15, <1>16, <1>18, <1>20, <1>22 DEF Kept, Filed
<1>24. ASSUME nick \in DOMAIN s.bynick PROVE Kept(m, t)
  <2>1. m.nick[u] # NULL /\ t = AssociateAll(m, w, u)
    BY <1>1, <1>3, <1>24
  <2> QED BY <1>4, <1>23, <2>1, AssociateAllKeeps
<1>25. NetOk(m) /\ Kept(m, t)
  BY <1>4, <1>7, <1>24
<1> QED BY <1>25 DEF m, t, old

-----------------------------------------------------------------------------
(* Accounts that go.                                                        *)

\* Helpers may be gone and the staff be smaller; the rest is as it was.
Sacked(s, t) ==
  /\ DOMAIN t.rec = DOMAIN s.rec /\ t.byhand = s.byhand /\ t.up = s.up
  /\ \A p \in DOMAIN s.rec : /\ t.rec[p].hs = s.rec[p].hs /\ t.rec[p].user = s.rec[p].user
                             /\ t.rec[p].handle = s.rec[p].handle
                             /\ t.rec[p].helper \in {NULL, s.rec[p].helper}

\* free_user keeps the invariant, and the account helps with no request of
\* that bot any more.
LEMMA FreeUserKeeps ==
  ASSUME NEW n, NetOk(n), NEW s, Kept(n, s), NEW b \in Bots, NEW h \in Handles, n.name[h] # NULL
  PROVE  LET t == FreeUser(n, s, b, h) IN
         /\ Kept(n, t) /\ Sacked(s, t) /\ \A p \in RequestsAt(s, b) : t.rec[p].helper # h
<1> DEFINE v == Unassign(s, b, h)
           f == Drop(v.staff[b], n.name[h])
           t == [v EXCEPT !.staff[b] = f]
<1>1. FreeUser(n, s, b, h) = t
  BY Zenon DEF FreeUser
<1>2. h # NULL
  BY HelpServAssumption
<1>3. Kept(n, v) /\ QueueOnly(s, v) /\ NoNewHelper(s, v) /\ v \in Tables
      /\ \A p \in RequestsAt(s, b) : v.rec[p].helper # h
  BY <1>2, UnassignStays
<1> HIDE DEF v
<1>4. f \in Dicts(Names, HlTrial..HlOwner) /\ DOMAIN f = DOMAIN v.staff[b] \ {n.name[h]}
  <2>1. v.staff[b] \in Dicts(Names, HlTrial..HlOwner)
    BY <1>3 DEF Tables
  <2>2. f \in Dicts(Names, HlTrial..HlOwner)
    BY <2>1, DropIn
  <2> QED BY <2>2 DEF Drop
<1> HIDE DEF f
<1>5. t \in Tables /\ StaffOnly(v, t) /\ t.staff[b] = f /\ t.up = v.up /\ \A c \in Bots : c # b => t.staff[c] = v.staff[c]
  BY <1>3, <1>4 DEF Tables, StaffOnly
<1> HIDE DEF t
<1>6. ASSUME NEW p \in DOMAIN v.rec, v.rec[p].helper # NULL
      PROVE  n.name[v.rec[p].helper] \in DOMAIN t.staff[v.rec[p].hs]
  <2>1. n.name[v.rec[p].helper] \in DOMAIN v.staff[v.rec[p].hs] /\ v.rec[p].hs \in Bots /\ v.rec[p].helper \in Handles
    BY <1>3, <1>6, HelperListed, RequestIs DEF Optional
  <2>2. v.rec[p].hs = b => v.rec[p].helper # h
    BY <1>3 DEF QueueOnly, RequestsAt
  <2>3. v.rec[p].hs = b => n.name[v.rec[p].helper] # n.name[h]
    BY <2>1, <2>2 DEF NetOk
  <2> QED BY <1>4, <1>5, <2>1, <2>3
<1>7. Kept(n, t)
  BY <1>3, <1>5, <1>6, StaffKeeps
<1>8. Sacked(s, t) /\ \A p \in RequestsAt(s, b) : t.rec[p].helper # h
  BY <1>3, <1>5 DEF StaffOnly, Sacked, QueueOnly, NoNewHelper
<1> QED BY <1>1, <1>7, <1>8

\* free_user at every bot where the account is known.
SackAll(n, s, h) == Each(LAMBDA t, b : IF Level(n, t, b, h) > 0 THEN FreeUser(n, t, b, h) ELSE t, s, SetToSeq(Bots))

\* free_user at every bot keeps the invariant, and the account helps with no
\* request any more.
LEMMA SackAllKeeps ==
  ASSUME NEW m, NetOk(m), NEW s, Kept(m, s), NEW h \in Handles, m.name[h] # NULL
  PROVE  LET t == SackAll(m, s, h) IN
         Kept(m, t) /\ Sacked(s, t) /\ \A p \in DOMAIN t.rec : t.rec[p].helper # h
<1> DEFINE first == s
           list == SetToSeq(Bots)
           Do(t, b) == IF Level(m, t, b, h) > 0 THEN FreeUser(m, t, b, h) ELSE t
           Good(i, t) == /\ Kept(m, t) /\ Sacked(s, t)
                         /\ \A j \in 1..i : \A p \in DOMAIN t.rec : t.rec[p].hs = list[j] => t.rec[p].helper # h
           n == Len(list)
           good == [i \in 0..n |-> {t \in Tables : Good(i, t)}]
           do == [i \in 1..n |-> [t \in good[i - 1] |-> Do(t, list[i])]]
           Run(f) == f = [i \in 0..Len(list) |-> IF i = 0 THEN first ELSE Do(f[i - 1], list[i])]
           k == CHOOSE f : Run(f)
<1>0. h # NULL
  BY HelpServAssumption
<1>1. n \in Nat /\ (\A i \in 1..n : list[i] \in Bots) /\ \A b \in Bots : \E i \in 1..n : list[i] = b
  BY HelpServAssumption, SetIsListed
<1>2. ASSUME NEW i \in 1..n, NEW t \in good[i - 1] PROVE Do(t, list[i]) \in good[i]
  <2> HIDE DEF list, do, k, Run
  <2>0. i - 1 \in 0..n /\ i \in 0..n /\ list[i] \in Bots /\ \A j \in 1..i : j \in 1..(i - 1) \/ j = i
    BY <1>1
  <2>1. Good(i - 1, t)
    BY <2>0
  <2> DEFINE v == Do(t, list[i])
             b == list[i]
  <2>2. Kept(m, v) /\ Sacked(t, v) /\ \A p \in RequestsAt(t, b) : v.rec[p].helper # h
    <3>1. CASE Level(m, t, b, h) > 0
      <4>1. v = FreeUser(m, t, b, h)
        BY <3>1
      <4> QED BY <2>0, <2>1, <4>1, FreeUserKeeps
    <3>2. CASE ~(Level(m, t, b, h) > 0)
      <4>1. v = t
        BY <3>2
      <4>2. \A p \in RequestsAt(t, b) : t.rec[p].helper # h
        BY <1>0, <2>1, <3>2 DEF Kept, Staffed, RequestsAt
      <4> QED BY <2>1, <4>1, <4>2 DEF Sacked
    <3> QED BY <3>1, <3>2
  <2> HIDE DEF v, n
  <2>3. Sacked(s, v)
    BY <2>1, <2>2 DEF Sacked
  <2>4. ASSUME NEW j \in 1..i, NEW p \in DOMAIN v.rec, v.rec[p].hs = list[j] PROVE v.rec[p].helper # h
    <3>1. p \in DOMAIN t.rec /\ t.rec[p].hs = list[j] /\ v.rec[p].helper \in {NULL, t.rec[p].helper}
      BY <2>2, <2>4 DEF Sacked
    <3>2. CASE j = i
      BY <2>2, <3>1, <3>2 DEF RequestsAt
    <3>3. CASE j \in 1..(i - 1)
      BY <1>0, <2>1, <3>1, <3>3
    <3> QED BY <2>0, <3>2, <3>3
  <2>5. v \in Tables
    BY <2>2, KeptIs
  <2>6. v \in good[i]
    BY <2>0, <2>2, <2>3, <2>4, <2>5
  <2> QED BY <2>6 DEF v
<1>3. first \in good[0]
  <2> HIDE DEF list, do, k, Run
  <2>1. s \in Tables /\ 0 \in 0..n /\ \A j \in 1..0 : FALSE
    BY <1>1, KeptIs
  <2>2. Good(0, s)
    BY <2>1 DEF Sacked
  <2> HIDE DEF Good, n
  <2> QED BY <2>1, <2>2
<1>4. \A t \in good[n] : Good(n, t)
  <2>1. n \in 0..n
    BY <1>1
  <2> HIDE DEF n, Good
  <2> QED BY <2>1
<1>5. SackAll(m, s, h) = k[n]
  BY DEF SackAll, Each
<1>6. \A i \in 1..n : \A t \in good[i - 1] : do[i][t] = Do(t, list[i])
  <2> HIDE DEF good, n, Do
  <2> QED OBVIOUS
<1>7. n = Len(list)
  OBVIOUS
<1> HIDE DEF good, do, n, Do, list
<1>8. Loops(n, good, first, do)
  BY <1>1, <1>2, <1>3, <1>6 DEF Loops
<1>9. PICK r : /\ r = [i \in 0..n |-> IF i = 0 THEN first ELSE do[i][r[i - 1]]]
               /\ \A i \in 1..n : r[i - 1] \in good[i - 1] /\ i \in 0..n /\ i - 1 \in 0..n /\ i # 0
  BY <1>8, LoopRuns
<1>10. Run(r)
  <2>1. \A i \in 0..n : i = 0 \/ i \in 1..n
    BY <1>1
  <2>2. \A i \in 0..n : (IF i = 0 THEN first ELSE do[i][r[i - 1]]) = IF i = 0 THEN first ELSE Do(r[i - 1], list[i])
    BY <1>6, <1>9, <2>1
  <2> QED BY <1>7, <1>9, <2>2
<1> HIDE DEF Run
<1>11. Run(k)
  BY <1>10
<1> HIDE DEF k
<1>12. k[0] \in good[0] /\ \A i \in 1..n : k[i - 1] \in good[i - 1] => k[i] \in good[i]
  <2>1. 0 \in 0..n
    BY <1>1
  <2>2. k[0] = first /\ \A i \in 1..n : k[i] = Do(k[i - 1], list[i])
    BY <1>7, <1>9, <1>11, <2>1 DEF Run
  <2> QED BY <1>2, <1>3, <2>2
<1>13. k[n] \in good[n]
  BY <1>1, <1>12, LoopStays
<1>14. Good(n, SackAll(m, s, h))
  BY <1>4, <1>5, <1>13
<1> DEFINE w == SackAll(m, s, h)
<1>15. Kept(m, w) /\ Sacked(s, w) /\ \A j \in 1..n : \A p \in DOMAIN w.rec : w.rec[p].hs = list[j] => w.rec[p].helper # h
  BY <1>14
<1> HIDE DEF w, Good
<1>16. \A p \in DOMAIN w.rec : w.rec[p].hs \in Bots
  BY <1>15, KeptIs, RequestIs
<1>17. \A p \in DOMAIN w.rec : w.rec[p].helper # h
  BY <1>1, <1>15, <1>16
<1> QED BY <1>15, <1>17 DEF w

\* While an account is unregistered: some of its requests have lost it already.
Half(n, h, t) ==
  /\ Core(t, Bots) /\ Tied(n, t.rec) /\ Listing(n, t) /\ Staffed(n, t)
  /\ \A p \in DOMAIN t.rec :
       /\ t.rec[p].helper # h
       /\ t.rec[p].user # NULL => \/ t.rec[p].handle = n.acct[t.rec[p].user]
                                  \/ t.rec[p].handle = NULL /\ n.acct[t.rec[p].user] = h

\* Request p is gone or has no account any more; the others are as they were.
Orphaned(s, p, t) ==
  /\ DOMAIN t.rec \subseteq DOMAIN s.rec
  /\ \A q \in DOMAIN s.rec : q # p => q \in DOMAIN t.rec /\ t.rec[q] = s.rec[q]
  /\ p \in DOMAIN t.rec => t.rec[p].handle = NULL

\* The first step for every request of the account.
Disowned(n, s, p, h) ==
  [s EXCEPT !.rec[p].handle = NULL, !.byhand[n.name[h]] = RemoveFirst(s.byhand[n.name[h]], p)]

\* Taking a request from the account that is unregistered, and from its list,
\* keeps queues, tables and indexes exact.
LEMMA DisownKeeps ==
  ASSUME NEW n, NEW s, Core(s, Bots), Listing(n, s), NEW p \in DOMAIN s.rec,
         NEW h \in Handles, s.rec[p].handle = h, n.name[h] \in Names
  PROVE  LET t == Disowned(n, s, p, h) IN
         Core(t, Bots) /\ Listing(n, t) /\ HandleSet(s.rec, p, NULL, t.rec) /\ t.staff = s.staff
<1> DEFINE t == Disowned(n, s, p, h)
           e == WithHandle(s.rec, p, NULL)
           x == n.name[h]
           d == [s.byhand EXCEPT ![x] = RemoveFirst(s.byhand[x], p)]
<1>1. s \in Tables /\ s.rec \in Records /\ p \in Nat /\ h # NULL
  BY RequestIs, TablesAre, HelpServAssumption DEF Core
<1>2. EditedTo(s, e, s.bynick, d, t)
  <2>1. t = [s EXCEPT !.rec = e, !.byhand = d]
    BY Zenon DEF Disowned, WithHandle
  <2> HIDE DEF e, d, t
  <2>2. EditedTo(s, e, s.bynick, d, [s EXCEPT !.rec = e, !.byhand = d])
    BY <1>1, EditedIs, Zenon
  <2> QED BY <2>1, <2>2
<1>3. HandleSet(s.rec, p, NULL, e)
  BY <1>1, SetsAre DEF Optional
<1> HIDE DEF t, e
<1>5. /\ e \in Records /\ DOMAIN e = DOMAIN s.rec /\ e[p].handle = NULL /\ e[p].user = s.rec[p].user
      /\ \A q \in DOMAIN s.rec : q # p => e[q] = s.rec[q]
      /\ \A q \in DOMAIN s.rec : e[q].hs = s.rec[q].hs /\ e[q].id = s.rec[q].id
                                 /\ e[q].helper = s.rec[q].helper /\ e[q].opened = s.rec[q].opened
  BY <1>3 DEF HandleSet
<1>6. Lists(d, ByName(n.name, e))
  <2>1. Lists(s.byhand, ByName(n.name, s.rec))
    BY DEF Listing
  <2>2. DOMAIN e \ {p} = DOMAIN s.rec \ {p} /\ \A q \in DOMAIN s.rec \ {p} : e[q].handle = s.rec[q].handle
    BY <1>5
  <2>3. s.rec[p].handle # NULL /\ n.name[s.rec[p].handle] \in Names
    BY <1>1
  <2>4. Lists([s.byhand EXCEPT ![n.name[s.rec[p].handle]] = RemoveFirst(s.byhand[n.name[s.rec[p].handle]], p)],
              ByName(n.name, e))
    BY <1>5, <2>1, <2>2, <2>3, NameLoses, Zenon
  <2> QED BY <2>4 DEF d, x
<1> HIDE DEF d
<1>7. Lists(s.bynick, ByNick(n.nick, e))
  <2>1. Lists(s.bynick, ByNick(n.nick, s.rec))
    BY DEF Listing
  <2>2. \A q \in DOMAIN s.rec : e[q].user = s.rec[q].user
    BY <1>5
  <2>3. ByNick(n.nick, e) = ByNick(n.nick, s.rec)
    BY <1>5, <2>2, NickSame
  <2> QED BY <2>1, <2>3
<1>8. /\ t.rec = e /\ t.bynick = s.bynick /\ t.byhand = d /\ t.staff = s.staff
      /\ (e \in Records /\ s.bynick \in Dicts(Nicks, Seq(Nat)) /\ d \in Dicts(Names, Seq(Nat))) => t \in Tables
  BY <1>2, Zenon DEF EditedTo
<1>9. t \in Tables
  BY <1>5, <1>6, <1>7, <1>8, ListsAre
<1>10. Core(t, Bots)
  BY <1>2, <1>5, <1>9, EditKeepsCore
<1>11. Listing(n, t)
  BY <1>6, <1>7, <1>8 DEF Listing
<1> QED BY <1>3, <1>8, <1>10, <1>11 DEF t

\* What the three outcomes for a request of the account have in common.
Outcome(n, h, s, p, v) ==
  /\ Core(v, Bots) /\ Listing(n, v) /\ v.staff = s.staff /\ DOMAIN v.rec \subseteq DOMAIN s.rec
  /\ \A q \in DOMAIN s.rec : q # p => q \in DOMAIN v.rec /\ v.rec[q] = s.rec[q]
  /\ p \in DOMAIN v.rec =>
       /\ v.rec[p].handle = NULL /\ v.rec[p].user \in Users /\ n.acct[v.rec[p].user] = h
       /\ v.rec[p].hs = s.rec[p].hs /\ v.rec[p].helper = s.rec[p].helper

\* Each of the ways a request can go when its account is unregistered keeps
\* what is needed for the next one.
LEMMA OutcomeKeeps ==
  ASSUME NEW n, NetOk(n), NEW h \in Handles, NEW s, Half(n, h, s), NEW p \in DOMAIN s.rec, NEW v, Outcome(n, h, s, p, v)
  PROVE  Half(n, h, v) /\ Orphaned(s, p, v)
<1>0. h # NULL
  BY HelpServAssumption
<1>1. \A q \in DOMAIN v.rec : q \in DOMAIN s.rec /\ (q = p \/ v.rec[q] = s.rec[q])
  BY DEF Outcome
<1>2. p \in DOMAIN v.rec => n.nick[v.rec[p].user] # NULL /\ v.rec[p].user # NULL
  BY <1>0, HelpServAssumption DEF Outcome, NetOk
<1>3. Tied(n, v.rec)
  BY <1>1, <1>2 DEF Outcome, Half, Tied
<1>4. Staffed(n, v)
  <2> SUFFICES ASSUME NEW q \in DOMAIN v.rec, v.rec[q].helper # NULL
               PROVE  Level(n, v, v.rec[q].hs, v.rec[q].helper) > 0
    BY DEF Staffed
  <2>1. q \in DOMAIN s.rec /\ v.rec[q].helper = s.rec[q].helper /\ v.rec[q].hs = s.rec[q].hs /\ v.staff = s.staff
    BY <1>1 DEF Outcome
  <2>2. Level(n, s, s.rec[q].hs, s.rec[q].helper) > 0
    BY <2>1 DEF Half, Staffed
  <2> QED BY <2>1, <2>2 DEF Level
<1>5. ASSUME NEW q \in DOMAIN v.rec
      PROVE  /\ v.rec[q].helper # h
             /\ v.rec[q].user # NULL => \/ v.rec[q].handle = n.acct[v.rec[q].user]
                                        \/ v.rec[q].handle = NULL /\ n.acct[v.rec[q].user] = h
  BY <1>1 DEF Half, Outcome
<1> QED BY <1>3, <1>4, <1>5 DEF Half, Outcome, Orphaned

\* A request of an account that is unregistered stays with its user, goes to
\* the caller or to a session of the account, or is removed
\* (handle_nickserv_unreg).
LEMMA OrphanKeeps ==
  ASSUME NEW n, NetOk(n), NEW h \in Handles, n.name[h] # NULL, NEW s, Half(n, h, s),
         NEW p \in DOMAIN s.rec, s.rec[p].handle = h, NEW actor \in Optional(Users), NEW session \in Optional(Users),
         session # NULL => n.acct[session] = h
  PROVE  LET v == Orphan(n, s, p, actor, h, session) IN Half(n, h, v) /\ Orphaned(s, p, v)
<1> DEFINE t == Disowned(n, s, p, h)
           v == Orphan(n, s, p, actor, h, session)
<1>1. Core(s, Bots) /\ Listing(n, s) /\ n.name[h] \in Names /\ h # NULL
  BY HelpServAssumption DEF Half, NetOk, Nets, Optional
<1>2. Core(t, Bots) /\ Listing(n, t) /\ HandleSet(s.rec, p, NULL, t.rec) /\ t.staff = s.staff
  BY <1>1, DisownKeeps
<1>3. v = IF s.rec[p].user # NULL THEN t
          ELSE IF actor # NULL /\ n.acct[actor] = h THEN Adopt(n, t, p, actor)
          ELSE IF actor # NULL /\ session # NULL THEN Adopt(n, t, p, session)
          ELSE RemoveRequest(n, t, p)
  BY Zenon DEF Orphan, Disowned
<1> HIDE DEF t, v
<1>4. /\ p \in DOMAIN t.rec /\ DOMAIN t.rec = DOMAIN s.rec /\ \A q \in DOMAIN s.rec : q # p => t.rec[q] = s.rec[q]
      /\ t.rec[p].user = s.rec[p].user /\ t.rec[p].handle = NULL
      /\ t.rec[p].hs = s.rec[p].hs /\ t.rec[p].helper = s.rec[p].helper
  BY <1>2 DEF HandleSet
<1>5. ASSUME NEW x \in Users, n.acct[x] = h, s.rec[p].user = NULL PROVE Outcome(n, h, s, p, Adopt(n, t, p, x))
  <2> DEFINE w == Adopt(n, t, p, x)
  <2>1. n.nick[x] \in Nicks /\ t.rec[p].user = NULL
    BY <1>1, <1>4, <1>5 DEF NetOk, Nets, Optional
  <2>2. Core(w, Bots) /\ Listing(n, w) /\ UserSet(t.rec, p, x, w.rec) /\ w.staff = t.staff
    BY <1>2, <1>4, <2>1, AdoptLists
  <2> HIDE DEF w
  <2>3. Outcome(n, h, s, p, w)
    BY <1>2, <1>4, <1>5, <2>2 DEF UserSet, Outcome
  <2> QED BY <2>3 DEF w
<1>6. Outcome(n, h, s, p, v)
  <2>1. CASE s.rec[p].user # NULL
    <3>1. v = t /\ s.rec[p].user \in Users
      BY <1>1, <1>3, <2>1, RequestIs DEF Core, Optional
    <3>2. n.acct[s.rec[p].user] = h
      BY <1>1, <2>1 DEF Half
    <3> QED BY <1>2, <1>4, <3>1, <3>2 DEF Outcome
  <2>2. CASE s.rec[p].user = NULL /\ actor # NULL /\ n.acct[actor] = h
    <3>1. v = Adopt(n, t, p, actor) /\ actor \in Users
      BY <1>3, <2>2 DEF Optional
    <3> QED BY <1>5, <2>2, <3>1
  <2>3. CASE s.rec[p].user = NULL /\ ~(actor # NULL /\ n.acct[actor] = h) /\ actor # NULL /\ session # NULL
    <3>1. v = Adopt(n, t, p, session) /\ session \in Users
      BY <1>3, <2>3 DEF Optional
    <3> QED BY <1>5, <2>3, <3>1
  <2>4. CASE s.rec[p].user = NULL /\ ~(actor # NULL /\ n.acct[actor] = h) /\ ~(actor # NULL /\ session # NULL)
    <3> DEFINE w == RemoveRequest(n, t, p)
    <3>1. v = w
      BY <1>3, <2>4
    <3>2. Known(n, t.rec[p])
      BY <1>4, <2>4 DEF Known
    <3>3. t.rec[p].hs \in Bots
      BY <1>2, <1>4, RequestIs DEF Core
    <3>4. Core(w, Bots) /\ Listing(n, w) /\ RemovedFrom(t, p, w)
      BY <1>2, <1>4, <3>2, <3>3, RemoveKeeps
    <3> HIDE DEF w
    <3>5. DOMAIN w.rec = DOMAIN t.rec \ {p} /\ w.staff = t.staff /\ \A q \in DOMAIN w.rec : w.rec[q] = t.rec[q]
      BY <3>4 DEF RemovedFrom, Fewer
    <3> QED BY <1>2, <1>4, <3>1, <3>4, <3>5 DEF Outcome
  <2> QED BY <2>1, <2>2, <2>3, <2>4
<1>7. Half(n, h, v) /\ Orphaned(s, p, v)
  BY <1>6, OutcomeKeeps
<1> QED BY <1>7 DEF v

\* The requests of an account.
RequestsFor(s, h) == {p \in DOMAIN s.rec : s.rec[p].handle = h}

\* The requests under the name of an account are those of the account.
LEMMA NameHolds ==
  ASSUME NEW n, NetOk(n), NEW s \in Tables, Lists(s.byhand, ByName(n.name, s.rec)), NEW h \in Handles, n.name[h] # NULL
  PROVE  /\ n.name[h] \in Names
         /\ Holds(Listed(s.byhand, n.name[h]), AtName(n.name, s.rec, n.name[h]))
         /\ AtName(n.name, s.rec, n.name[h]) = RequestsFor(s, h)
<1>1. n.name[h] \in Names /\ h # NULL
  BY HelpServAssumption DEF NetOk, Nets, Optional
<1>2. Holds(Listed(s.byhand, n.name[h]), AtName(n.name, s.rec, n.name[h]))
  <2>1. DOMAIN ByName(n.name, s.rec) = Names
    BY DEF ByName
  <2>2. ByName(n.name, s.rec)[n.name[h]] = AtName(n.name, s.rec, n.name[h])
    BY <1>1 DEF ByName
  <2> QED BY <1>1, <2>1, <2>2 DEF Lists
<1>3. ASSUME NEW p \in DOMAIN s.rec
      PROVE  s.rec[p].handle # NULL /\ n.name[s.rec[p].handle] = n.name[h] <=> s.rec[p].handle = h
  <2>1. s.rec[p].handle \in Optional(Handles)
    BY RequestIs
  <2> QED BY <1>1, <2>1 DEF NetOk, Optional
<1>4. AtName(n.name, s.rec, n.name[h]) = RequestsFor(s, h)
  BY <1>3 DEF AtName, RequestsFor
<1> QED BY <1>1, <1>2, <1>4

\* Orphan for every request of the account.
OrphanAll(n, s, actor, h, session) ==
  Each(LAMBDA t, p : Orphan(n, t, p, actor, h, session), s, Listed(s.byhand, n.name[h]))

\* After handle_nickserv_unreg has gone over the list of the account no
\* request belongs to it.
LEMMA OrphanAllKeeps ==
  ASSUME NEW m, NetOk(m), NEW h \in Handles, m.name[h] # NULL, NEW s, Half(m, h, s),
         NEW actor \in Optional(Users), NEW session \in Optional(Users), session # NULL => m.acct[session] = h
  PROVE  LET t == OrphanAll(m, s, actor, h, session) IN Half(m, h, t) /\ RequestsFor(t, h) = {}
<1> DEFINE first == s
           list == Listed(s.byhand, m.name[h])
           Do(t, p) == Orphan(m, t, p, actor, h, session)
           Good(i, t) == Half(m, h, t) /\ RequestsFor(t, h) = Rest(list, i)
           n == Len(list)
           good == [i \in 0..n |-> {t \in Tables : Good(i, t)}]
           do == [i \in 1..n |-> [t \in good[i - 1] |-> Do(t, list[i])]]
           Run(f) == f = [i \in 0..Len(list) |-> IF i = 0 THEN first ELSE Do(f[i - 1], list[i])]
           k == CHOOSE f : Run(f)
<1>0. Holds(list, RequestsFor(s, h)) /\ s \in Tables /\ h # NULL
  <2>1. Lists(s.byhand, ByName(m.name, s.rec)) /\ s \in Tables
    BY DEF Half, Listing, Core
  <2> HIDE DEF list
  <2> QED BY <2>1, NameHolds, HelpServAssumption DEF list
<1>1. /\ n \in Nat /\ Rest(list, 0) = RequestsFor(s, h) /\ Rest(list, n) = {}
      /\ \A i \in 1..n : list[i] \in Rest(list, i - 1) /\ Rest(list, i) = Rest(list, i - 1) \ {list[i]}
  <2> HIDE DEF list
  <2>1. Len(list) \in Nat
    BY <1>0 DEF Holds
  <2>2. /\ Rest(list, 0) = RequestsFor(s, h) /\ Rest(list, Len(list)) = {}
        /\ \A i \in 1..Len(list) : list[i] \in Rest(list, i - 1) /\ Rest(list, i) = Rest(list, i - 1) \ {list[i]}
    <3> HIDE DEF n, good, do, Run, k
    <3> QED BY <1>0, RestIs
  <2> QED BY <2>1, <2>2
<1>2. ASSUME NEW i \in 1..n, NEW t \in good[i - 1] PROVE Do(t, list[i]) \in good[i]
  <2> HIDE DEF list, do, k, Run
  <2>0. i - 1 \in 0..n /\ i \in 0..n
    BY <1>1
  <2>1. Good(i - 1, t)
    BY <2>0
  <2> DEFINE v == Do(t, list[i])
             p == list[i]
  <2> HIDE DEF n
  <2>3. p \in DOMAIN t.rec /\ t.rec[p].handle = h
    BY <1>1, <2>1 DEF RequestsFor
  <2>4. Half(m, h, v) /\ Orphaned(t, p, v)
    BY <2>1, <2>3, OrphanKeeps
  <2> HIDE DEF v
  <2>5. RequestsFor(v, h) = RequestsFor(t, h) \ {p}
    BY <1>0, <2>3, <2>4 DEF RequestsFor, Orphaned
  <2>6. v \in Tables
    BY <2>4 DEF Half, Core
  <2>7. Good(i, v)
    BY <1>1, <2>1, <2>4, <2>5
  <2> HIDE DEF Good
  <2>8. v \in good[i]
    BY <2>0, <2>6, <2>7
  <2> QED BY <2>8 DEF v
<1>3. first \in good[0]
  <2> HIDE DEF list, do, k, Run
  <2>1. s \in Tables /\ 0 \in 0..n
    BY <1>0, <1>1
  <2>3. Good(0, s)
    BY <1>1
  <2> HIDE DEF Good, n
  <2> QED BY <2>1, <2>3
<1>4. \A t \in good[n] : Good(n, t)
  <2>1. n \in 0..n
    BY <1>1
  <2> HIDE DEF n, Good
  <2> QED BY <2>1
<1>5. OrphanAll(m, s, actor, h, session) = k[n]
  BY DEF OrphanAll, Each
<1>6. \A i \in 1..n : \A t \in good[i - 1] : do[i][t] = Do(t, list[i])
  <2> HIDE DEF good, n, Do
  <2> QED OBVIOUS
<1>7. n = Len(list)
  OBVIOUS
<1> HIDE DEF good, do, n, Do, list
<1>8. Loops(n, good, first, do)
  BY <1>1, <1>2, <1>3, <1>6 DEF Loops
<1>9. PICK r : /\ r = [i \in 0..n |-> IF i = 0 THEN first ELSE do[i][r[i - 1]]]
               /\ \A i \in 1..n : r[i - 1] \in good[i - 1] /\ i \in 0..n /\ i - 1 \in 0..n /\ i # 0
  BY <1>8, LoopRuns
<1>10. Run(r)
  <2>1. \A i \in 0..n : i = 0 \/ i \in 1..n
    BY <1>1
  <2>2. \A i \in 0..n : (IF i = 0 THEN first ELSE do[i][r[i - 1]]) = IF i = 0 THEN first ELSE Do(r[i - 1], list[i])
    BY <1>6, <1>9, <2>1
  <2> QED BY <1>7, <1>9, <2>2
<1> HIDE DEF Run
<1>11. Run(k)
  BY <1>10
<1> HIDE DEF k
<1>12. k[0] \in good[0] /\ \A i \in 1..n : k[i - 1] \in good[i - 1] => k[i] \in good[i]
  <2>1. 0 \in 0..n
    BY <1>1
  <2>2. k[0] = first /\ \A i \in 1..n : k[i] = Do(k[i - 1], list[i])
    BY <1>7, <1>9, <1>11, <2>1 DEF Run
  <2> QED BY <1>2, <1>3, <2>2
<1>13. k[n] \in good[n]
  BY <1>1, <1>12, LoopStays
<1>14. Good(n, OrphanAll(m, s, actor, h, session))
  BY <1>4, <1>5, <1>13
<1> HIDE DEF Good
<1>15. Half(m, h, OrphanAll(m, s, actor, h, session)) /\ RequestsFor(OrphanAll(m, s, actor, h, session), h) = Rest(list, n)
  BY <1>14 DEF Good
<1> QED BY <1>1, <1>15

\* When an account has no request left, it can go: the invariant holds
\* without it.
LEMMA ForgetKeeps ==
  ASSUME NEW n, NetOk(n), NEW h \in Handles, n.name[h] # NULL, NEW s, Half(n, h, s), RequestsFor(s, h) = {}
  PROVE  LET m == Unregistered(n, h)
             t == [s EXCEPT !.byhand = Drop(s.byhand, n.name[h])] IN
         NetOk(m) /\ Kept(m, t)
<1> DEFINE m == Unregistered(n, h)
           d == Drop(s.byhand, n.name[h])
           t == [s EXCEPT !.byhand = d]
<1>1. s \in Tables /\ n.name[h] \in Names /\ h # NULL /\ n \in Nets
  BY HelpServAssumption DEF Half, Core, NetOk, Nets, Optional
<1>2. /\ m \in Nets /\ m.nick = n.nick
      /\ \A u \in Users : m.acct[u] = IF n.acct[u] = h THEN NULL ELSE n.acct[u]
      /\ \A g \in Handles : m.name[g] = IF g = h THEN NULL ELSE n.name[g]
  BY <1>1 DEF Nets, Unregistered, Optional
<1> HIDE DEF m
<1>3. NetOk(m)
  <2>1. \A u \in Users : m.acct[u] # NULL => m.nick[u] # NULL /\ m.name[m.acct[u]] # NULL
    <3> SUFFICES ASSUME NEW u \in Users, m.acct[u] # NULL PROVE m.nick[u] # NULL /\ m.name[m.acct[u]] # NULL
      OBVIOUS
    <3>1. m.acct[u] = n.acct[u] /\ n.acct[u] # h /\ n.acct[u] \in Handles
      BY <1>1, <1>2 DEF Nets, Optional
    <3> QED BY <1>2, <3>1 DEF NetOk
  <2> QED BY <1>2, <2>1 DEF NetOk
<1>4. EditedTo(s, s.rec, s.bynick, d, t)
  <2> HIDE DEF d
  <2> QED BY <1>1, EditedIs
<1> HIDE DEF t, d
<1>5. \A p \in DOMAIN s.rec : /\ s.rec[p].handle # h
                              /\ s.rec[p].handle # NULL => s.rec[p].handle \in Handles /\ m.name[s.rec[p].handle] = n.name[s.rec[p].handle]
  BY <1>1, <1>2, RequestIs DEF RequestsFor, Optional
<1>6. Lists(d, ByName(m.name, s.rec))
  <2> DEFINE A == ByName(n.name, s.rec)
             x == n.name[h]
  <2>1. Lists(s.byhand, A) /\ DOMAIN A = Names /\ \A y \in Names : A[y] = AtName(n.name, s.rec, y)
    BY DEF Half, Listing, ByName
  <2>2. A[x] = {}
    <3>1. AtName(n.name, s.rec, x) = RequestsFor(s, h)
      BY <1>1, <2>1, NameHolds
    <3> QED BY <1>1, <2>1, <3>1
  <2>3. ByName(m.name, s.rec) = A
    <3>1. \A y : AtName(m.name, s.rec, y) = AtName(n.name, s.rec, y)
      BY <1>5 DEF AtName
    <3> QED BY <3>1 DEF ByName
  <2> HIDE DEF A
  <2>4. Lists(Drop(s.byhand, x), [A EXCEPT ![x] = {}])
    BY <1>1, <2>1, ListsDrop
  <2>5. [A EXCEPT ![x] = {}] = A
    <3>1. A = [y \in DOMAIN A |-> A[y]]
      BY DEF A, ByName
    <3> QED BY <1>1, <2>1, <2>2, <3>1
  <2> QED BY <2>3, <2>4, <2>5 DEF d
<1>7. /\ t.rec = s.rec /\ t.bynick = s.bynick /\ t.byhand = d /\ t.staff = s.staff
      /\ (s.rec \in Records /\ s.bynick \in Dicts(Nicks, Seq(Nat)) /\ d \in Dicts(Names, Seq(Nat))) => t \in Tables
  BY <1>4, Zenon DEF EditedTo
<1>8. Lists(s.bynick, ByNick(m.nick, s.rec))
  BY <1>2 DEF Half, Listing
<1>9. t \in Tables
  BY <1>1, <1>6, <1>7, <1>8, ListsAre, TablesAre
<1>10. Core(t, Bots)
  BY <1>4, <1>9, EditKeepsCore DEF Half
<1>11. Tied(m, t.rec)
  BY <1>2, <1>5, <1>7 DEF Half, Tied
<1>12. Followed(m, t.rec)
  <2> SUFFICES ASSUME NEW p \in DOMAIN s.rec, s.rec[p].user # NULL PROVE s.rec[p].handle = m.acct[s.rec[p].user]
    BY <1>7 DEF Followed
  <2>1. s.rec[p].user \in Users
    BY <1>1, RequestIs DEF Optional
  <2>2. \/ s.rec[p].handle = n.acct[s.rec[p].user]
        \/ s.rec[p].handle = NULL /\ n.acct[s.rec[p].user] = h
    BY DEF Half
  <2> QED BY <1>2, <1>5, <2>1, <2>2
<1>13. Staffed(m, t)
  <2> SUFFICES ASSUME NEW p \in DOMAIN s.rec, s.rec[p].helper # NULL
               PROVE  Level(m, t, s.rec[p].hs, s.rec[p].helper) > 0
    BY <1>7 DEF Staffed
  <2>1. s.rec[p].helper \in Handles /\ s.rec[p].helper # h
    BY <1>1, RequestIs DEF Optional, Half
  <2>2. Level(n, s, s.rec[p].hs, s.rec[p].helper) > 0
    BY DEF Half, Staffed
  <2>3. m.name[s.rec[p].helper] = n.name[s.rec[p].helper] /\ t.staff = s.staff
    BY <1>2, <1>7, <2>1
  <2> QED BY <2>2, <2>3 DEF Level
<1>14. Kept(m, t)
  BY <1>6, <1>7, <1>8, <1>10, <1>11, <1>12, <1>13 DEF Kept, Filed
<1> QED BY <1>3, <1>14 DEF m, t, d

\* handle_nickserv_unreg keeps the invariant, with what
\* nickserv_unregister_handle does after it.
LEMMA UnregKeeps ==
  ASSUME NEW n, NetOk(n), NEW h \in Handles, n.name[h] # NULL, NEW s, Kept(n, s),
         NEW actor \in Optional(Users), NEW session \in Optional(Users), session # NULL => n.acct[session] = h
  PROVE  LET m == Unregistered(n, h) IN NetOk(m) /\ Kept(m, HandleUnreg(n, s, actor, h, session))
<1> DEFINE a == SackAll(n, s, h)
           o == OrphanAll(n, a, actor, h, session)
           t == [o EXCEPT !.byhand = Drop(o.byhand, n.name[h])]
<1>1. HandleUnreg(n, s, actor, h, session) = t
  BY Zenon DEF HandleUnreg, SackAll, OrphanAll
<1>2. Kept(n, a) /\ \A p \in DOMAIN a.rec : a.rec[p].helper # h
  BY SackAllKeeps
<1> HIDE DEF a
<1>3. Half(n, h, a)
  BY <1>2 DEF Kept, Filed, Followed, Half, Listing
<1>4. Half(n, h, o) /\ RequestsFor(o, h) = {}
  BY <1>3, OrphanAllKeeps
<1> HIDE DEF o
<1>5. NetOk(Unregistered(n, h)) /\ Kept(Unregistered(n, h), t)
  BY <1>4, ForgetKeeps
<1> QED BY <1>1, <1>5

-----------------------------------------------------------------------------
(* Accounts that are merged.                                                *)

\* The requests in the list of each name while account h, whose list has F,
\* gives its requests away.
Early(n, rec, h, F) == [k \in Names |-> IF k = n.name[h] THEN F ELSE AtName(n.name, rec, k)]

\* While account `from' gives its requests to account `to', F still being in
\* its list.
Giving(n, to, from, F, t) ==
  /\ Core(t, Bots) /\ Tied(n, t.rec) /\ Staffed(n, t)
  /\ Lists(t.bynick, ByNick(n.nick, t.rec)) /\ Lists(t.byhand, Early(n, t.rec, from, F))
  /\ \A p \in DOMAIN t.rec :
       t.rec[p].user # NULL => \/ t.rec[p].handle = n.acct[t.rec[p].user]
                               \/ t.rec[p].handle = to /\ n.acct[t.rec[p].user] = from

\* One request goes to the other account.
Given(n, s, p, to) ==
  [s EXCEPT !.rec[p].handle = to, !.byhand = Push(s.byhand, n.name[to], p)]

\* handle_nickserv_merge gives one request to the other account, exactly.
LEMMA GiveKeeps ==
  ASSUME NEW n, NetOk(n), NEW to \in Handles, NEW from \in Handles, to # from, n.name[to] # NULL, n.name[from] # NULL,
         NEW F, NEW s, Giving(n, to, from, F, s), NEW p \in RequestsFor(s, from)
  PROVE  LET t == Given(n, s, p, to) IN Giving(n, to, from, F, t) /\ HandleSet(s.rec, p, to, t.rec)
<1> DEFINE t == Given(n, s, p, to)
           e == WithHandle(s.rec, p, to)
           d == Push(s.byhand, n.name[to], p)
<1>1. /\ s \in Tables /\ s.rec \in Records /\ p \in DOMAIN s.rec /\ p \in Nat /\ s.rec[p].handle = from
      /\ n.name[to] \in Names /\ n.name[from] \in Names /\ n.name[to] # n.name[from] /\ to # NULL /\ from # NULL
  BY RequestIs, TablesAre, HelpServAssumption DEF Giving, Core, RequestsFor, NetOk, Nets, Optional
<1>2. EditedTo(s, e, s.bynick, d, t)
  <2>1. t = [s EXCEPT !.rec = e, !.byhand = d]
    BY Zenon DEF Given, WithHandle
  <2> HIDE DEF e, d, t
  <2>2. EditedTo(s, e, s.bynick, d, [s EXCEPT !.rec = e, !.byhand = d])
    BY <1>1, EditedIs, Zenon
  <2> QED BY <2>1, <2>2
<1>3. HandleSet(s.rec, p, to, e)
  BY <1>1, SetsAre DEF Optional
<1> HIDE DEF t, e
<1>4. /\ e \in Records /\ DOMAIN e = DOMAIN s.rec /\ e[p].handle = to /\ e[p].user = s.rec[p].user
      /\ \A q \in DOMAIN s.rec : q # p => e[q] = s.rec[q]
      /\ \A q \in DOMAIN s.rec : e[q].hs = s.rec[q].hs /\ e[q].id = s.rec[q].id
                                 /\ e[q].helper = s.rec[q].helper /\ e[q].opened = s.rec[q].opened
  BY <1>3 DEF HandleSet
<1>5. Lists(d, Early(n, e, from, F))
  <2> DEFINE A == Early(n, s.rec, from, F)
             k == n.name[to]
  <2>1. Lists(s.byhand, A) /\ DOMAIN A = Names
        /\ \A x \in Names : A[x] = IF x = n.name[from] THEN F ELSE AtName(n.name, s.rec, x)
    BY DEF Giving, Early
  <2>2. p \notin A[k] /\ k \in Names
    <3>1. p \notin AtName(n.name, s.rec, k)
      BY <1>1 DEF AtName
    <3> HIDE DEF A
    <3>2. A[k] = AtName(n.name, s.rec, k)
      BY <1>1, <2>1
    <3> QED BY <1>1, <3>1, <3>2
  <2>3. ASSUME NEW x \in Names PROVE Early(n, e, from, F)[x] = IF x = k THEN A[k] \cup {p} ELSE A[x]
    <3>1. AtName(n.name, e, x) = IF x = k THEN AtName(n.name, s.rec, x) \cup {p} ELSE AtName(n.name, s.rec, x) \ {p}
      BY <1>1, <1>4 DEF AtName
    <3>2. x # n.name[from] => p \notin AtName(n.name, s.rec, x)
      BY <1>1 DEF AtName
    <3>3. Early(n, e, from, F)[x] = IF x = n.name[from] THEN F ELSE AtName(n.name, e, x)
      BY DEF Early
    <3> HIDE DEF A, k
    <3> QED BY <1>1, <2>1, <3>1, <3>2, <3>3 DEF k
  <2>4. A = [x \in Names |-> A[x]] /\ Early(n, e, from, F) = [x \in Names |-> Early(n, e, from, F)[x]]
    BY DEF Early
  <2> HIDE DEF A
  <2>5. Early(n, e, from, F) = [A EXCEPT ![k] = A[k] \cup {p}]
    BY <2>2, <2>3, <2>4
  <2>6. Lists(Push(s.byhand, k, p), [A EXCEPT ![k] = A[k] \cup {p}])
    BY <1>1, <2>1, <2>2, ListsPush
  <2> QED BY <2>5, <2>6
<1> HIDE DEF d
<1>6. Lists(s.bynick, ByNick(n.nick, e))
  <2>1. \A q \in DOMAIN s.rec : e[q].user = s.rec[q].user
    BY <1>4
  <2>2. ByNick(n.nick, e) = ByNick(n.nick, s.rec)
    BY <1>4, <2>1, NickSame
  <2> QED BY <2>2 DEF Giving
<1>7. /\ t.rec = e /\ t.bynick = s.bynick /\ t.byhand = d /\ t.staff = s.staff
      /\ (e \in Records /\ s.bynick \in Dicts(Nicks, Seq(Nat)) /\ d \in Dicts(Names, Seq(Nat))) => t \in Tables
  BY <1>2, Zenon DEF EditedTo
<1>8. d \in Dicts(Names, Seq(Nat))
  <2>1. DOMAIN Early(n, e, from, F) = Names
    BY DEF Early
  <2> QED BY <1>5, <2>1 DEF Lists
<1>9. t \in Tables
  BY <1>4, <1>6, <1>7, <1>8, ListsAre
<1>10. Core(t, Bots) /\ Staffed(n, t)
  BY <1>2, <1>4, <1>9, EditKeepsCore DEF Giving
<1>11. Tied(n, e)
  BY <1>1, <1>4 DEF Giving, Tied
<1>12. \A q \in DOMAIN e :
         e[q].user # NULL => e[q].handle = n.acct[e[q].user] \/ (e[q].handle = to /\ n.acct[e[q].user] = from)
  <2>1. s.rec[p].user # NULL => n.acct[s.rec[p].user] = from
    BY <1>1 DEF Giving
  <2> QED BY <1>4, <2>1 DEF Giving
<1>13. Giving(n, to, from, F, t)
  BY <1>5, <1>6, <1>7, <1>10, <1>11, <1>12 DEF Giving
<1> QED BY <1>3, <1>7, <1>13 DEF t

\* handle_nickserv_merge's loop.
GiveAll(n, s, to, from) == Each(LAMBDA t, p : Given(n, t, p, to), s, Listed(s.byhand, n.name[from]))

\* After handle_nickserv_merge has gone over the list, no request belongs to
\* the account that is merged.
LEMMA GiveAllKeeps ==
  ASSUME NEW m, NetOk(m), NEW to \in Handles, NEW from \in Handles, to # from, m.name[to] # NULL, m.name[from] # NULL,
         NEW s, Kept(m, s)
  PROVE  LET t == GiveAll(m, s, to, from) IN
         Giving(m, to, from, RequestsFor(s, from), t) /\ RequestsFor(t, from) = {}
<1> DEFINE first == s
           F == RequestsFor(s, from)
           list == Listed(s.byhand, m.name[from])
           Do(t, p) == Given(m, t, p, to)
           Good(i, t) == Giving(m, to, from, F, t) /\ RequestsFor(t, from) = Rest(list, i)
           n == Len(list)
           good == [i \in 0..n |-> {t \in Tables : Good(i, t)}]
           do == [i \in 1..n |-> [t \in good[i - 1] |-> Do(t, list[i])]]
           Run(f) == f = [i \in 0..Len(list) |-> IF i = 0 THEN first ELSE Do(f[i - 1], list[i])]
           k == CHOOSE f : Run(f)
<1> HIDE DEF F
<1>0. Holds(list, F) /\ s \in Tables /\ AtName(m.name, s.rec, m.name[from]) = F
  <2>1. Lists(s.byhand, ByName(m.name, s.rec)) /\ s \in Tables
    BY KeptIs DEF Kept, Filed
  <2> HIDE DEF list
  <2> QED BY <2>1, NameHolds DEF list, F
<1>1. /\ n \in Nat /\ Rest(list, 0) = F /\ Rest(list, n) = {}
      /\ \A i \in 1..n : list[i] \in Rest(list, i - 1) /\ Rest(list, i) = Rest(list, i - 1) \ {list[i]}
  <2> HIDE DEF list
  <2>1. Len(list) \in Nat
    BY <1>0 DEF Holds
  <2>2. /\ Rest(list, 0) = F /\ Rest(list, Len(list)) = {}
        /\ \A i \in 1..Len(list) : list[i] \in Rest(list, i - 1) /\ Rest(list, i) = Rest(list, i - 1) \ {list[i]}
    <3> HIDE DEF n, good, do, Run, k
    <3> QED BY <1>0, RestIs
  <2> QED BY <2>1, <2>2
<1>2. ASSUME NEW i \in 1..n, NEW t \in good[i - 1] PROVE Do(t, list[i]) \in good[i]
  <2> HIDE DEF list, do, k, Run
  <2>0. i - 1 \in 0..n /\ i \in 0..n
    BY <1>1
  <2>1. Good(i - 1, t)
    BY <2>0
  <2> DEFINE v == Do(t, list[i])
             p == list[i]
  <2> HIDE DEF n
  <2>3. p \in RequestsFor(t, from)
    BY <1>1, <2>1
  <2>4. Giving(m, to, from, F, v) /\ HandleSet(t.rec, p, to, v.rec)
    BY <2>1, <2>3, GiveKeeps
  <2> HIDE DEF v
  <2>5. RequestsFor(v, from) = RequestsFor(t, from) \ {p}
    BY <2>3, <2>4 DEF RequestsFor, HandleSet
  <2>6. v \in Tables
    BY <2>4 DEF Giving, Core
  <2>7. Good(i, v)
    BY <1>1, <2>1, <2>4, <2>5
  <2> HIDE DEF Good
  <2>8. v \in good[i]
    BY <2>0, <2>6, <2>7
  <2> QED BY <2>8 DEF v
<1>3. first \in good[0]
  <2> HIDE DEF list, do, k, Run
  <2>1. s \in Tables /\ 0 \in 0..n
    BY <1>0, <1>1
  <2>2. Early(m, s.rec, from, F) = ByName(m.name, s.rec)
    BY <1>0 DEF Early, ByName
  <2>3. Giving(m, to, from, F, s)
    BY <2>2 DEF Giving, Kept, Filed, Followed
  <2>4. Good(0, s)
    BY <1>1, <2>3 DEF F
  <2> HIDE DEF Good, n
  <2> QED BY <2>1, <2>4
<1>4. \A t \in good[n] : Good(n, t)
  <2>1. n \in 0..n
    BY <1>1
  <2> HIDE DEF n, Good
  <2> QED BY <2>1
<1>5. GiveAll(m, s, to, from) = k[n]
  BY DEF GiveAll, Each
<1>6. \A i \in 1..n : \A t \in good[i - 1] : do[i][t] = Do(t, list[i])
  <2> HIDE DEF good, n, Do
  <2> QED OBVIOUS
<1>7. n = Len(list)
  OBVIOUS
<1> HIDE DEF good, do, n, Do, list
<1>8. Loops(n, good, first, do)
  BY <1>1, <1>2, <1>3, <1>6 DEF Loops
<1>9. PICK r : /\ r = [i \in 0..n |-> IF i = 0 THEN first ELSE do[i][r[i - 1]]]
               /\ \A i \in 1..n : r[i - 1] \in good[i - 1] /\ i \in 0..n /\ i - 1 \in 0..n /\ i # 0
  BY <1>8, LoopRuns
<1>10. Run(r)
  <2>1. \A i \in 0..n : i = 0 \/ i \in 1..n
    BY <1>1
  <2>2. \A i \in 0..n : (IF i = 0 THEN first ELSE do[i][r[i - 1]]) = IF i = 0 THEN first ELSE Do(r[i - 1], list[i])
    BY <1>6, <1>9, <2>1
  <2> QED BY <1>7, <1>9, <2>2
<1> HIDE DEF Run
<1>11. Run(k)
  BY <1>10
<1> HIDE DEF k
<1>12. k[0] \in good[0] /\ \A i \in 1..n : k[i - 1] \in good[i - 1] => k[i] \in good[i]
  <2>1. 0 \in 0..n
    BY <1>1
  <2>2. k[0] = first /\ \A i \in 1..n : k[i] = Do(k[i - 1], list[i])
    BY <1>7, <1>9, <1>11, <2>1 DEF Run
  <2> QED BY <1>2, <1>3, <2>2
<1>13. k[n] \in good[n]
  BY <1>1, <1>12, LoopStays
<1>14. Good(n, GiveAll(m, s, to, from))
  BY <1>4, <1>5, <1>13
<1> HIDE DEF Good
<1>15. Giving(m, to, from, F, GiveAll(m, s, to, from)) /\ RequestsFor(GiveAll(m, s, to, from), from) = Rest(list, n)
  BY <1>14 DEF Good
<1> QED BY <1>1, <1>15 DEF F

\* The sessions of one account become sessions of another.
Joined(n, to, from) == [n EXCEPT !.acct = [u \in Users |-> IF n.acct[u] = from THEN to ELSE n.acct[u]]]

\* handle_nickserv_merge keeps the invariant once the sessions have moved,
\* which cmd_merge does without calling the auth handlers.
LEMMA GivenKeeps ==
  ASSUME NEW n, NetOk(n), NEW to \in Handles, NEW from \in Handles, to # from, n.name[to] # NULL, n.name[from] # NULL,
         NEW s, Kept(n, s)
  PROVE  LET j == Joined(n, to, from) IN
         NetOk(j) /\ j.name = n.name /\ Kept(j, HandleMerge(n, s, to, from))
<1> DEFINE j == Joined(n, to, from)
           g == GiveAll(n, s, to, from)
           F == RequestsFor(s, from)
           d == Drop(g.byhand, n.name[from])
           t == [g EXCEPT !.byhand = d]
<1>1. HandleMerge(n, s, to, from) = t
  BY Zenon DEF HandleMerge, GiveAll, Given
<1>2. Giving(n, to, from, F, g) /\ RequestsFor(g, from) = {}
  BY GiveAllKeeps
<1> HIDE DEF g
<1>3. g \in Tables /\ n.name[from] \in Names /\ n \in Nets /\ to # NULL
  BY <1>2, HelpServAssumption DEF Giving, Core, NetOk, Nets, Optional
<1>4. /\ j \in Nets /\ j.nick = n.nick /\ j.name = n.name
      /\ \A u \in Users : j.acct[u] = IF n.acct[u] = from THEN to ELSE n.acct[u]
  BY <1>3 DEF Nets, Joined, Optional
<1> HIDE DEF j
<1>5. NetOk(j)
  <2>1. ASSUME NEW u \in Users, j.acct[u] # NULL PROVE j.nick[u] # NULL /\ j.name[j.acct[u]] # NULL
    <3>1. n.acct[u] # NULL /\ (j.acct[u] = to \/ j.acct[u] = n.acct[u])
      BY <1>4, <2>1, HelpServAssumption
    <3>2. n.nick[u] # NULL /\ n.name[n.acct[u]] # NULL
      BY <3>1 DEF NetOk
    <3> QED BY <1>4, <3>1, <3>2
  <2>2. \A u, v \in Users : n.nick[u] # NULL /\ n.nick[u] = n.nick[v] => u = v
    BY DEF NetOk
  <2>3. \A g2, h \in Handles : n.name[g2] # NULL /\ n.name[g2] = n.name[h] => g2 = h
    BY DEF NetOk
  <2> QED BY <1>4, <2>1, <2>2, <2>3 DEF NetOk
<1>6. EditedTo(g, g.rec, g.bynick, d, t)
  <2> HIDE DEF d
  <2> QED BY <1>3, EditedIs
<1> HIDE DEF t, d
<1>7. Lists(d, ByName(n.name, g.rec))
  <2> DEFINE A == Early(n, g.rec, from, F)
             x == n.name[from]
  <2>1. Lists(g.byhand, A) /\ DOMAIN A = Names
        /\ \A y \in Names : A[y] = IF y = x THEN F ELSE AtName(n.name, g.rec, y)
    BY <1>2 DEF Giving, Early
  <2>2. AtName(n.name, g.rec, x) = {}
    <3>1. ASSUME NEW p \in DOMAIN g.rec, g.rec[p].handle # NULL, n.name[g.rec[p].handle] = x PROVE FALSE
      <4>1. g.rec[p].handle \in Handles
        BY <1>3, <3>1, RequestIs DEF Optional
      <4>2. g.rec[p].handle = from
        BY <3>1, <4>1 DEF NetOk
      <4> QED BY <1>2, <4>2 DEF RequestsFor
    <3> QED BY <3>1 DEF AtName
  <2>3. Lists(Drop(g.byhand, x), [A EXCEPT ![x] = {}])
    <3> HIDE DEF A
    <3> QED BY <1>3, <2>1, ListsDrop
  <2>4. [A EXCEPT ![x] = {}] = ByName(n.name, g.rec)
    <3>1. \A y \in Names : ByName(n.name, g.rec)[y] = IF y = x THEN {} ELSE A[y]
      BY <2>1, <2>2 DEF ByName
    <3>2. ByName(n.name, g.rec) = [y \in Names |-> ByName(n.name, g.rec)[y]] /\ A = [y \in Names |-> A[y]]
      BY DEF ByName, Early
    <3> HIDE DEF A
    <3> QED BY <1>3, <3>1, <3>2
  <2> QED BY <2>3, <2>4 DEF d
<1>8. /\ t.rec = g.rec /\ t.bynick = g.bynick /\ t.byhand = d /\ t.staff = g.staff
      /\ (g.rec \in Records /\ g.bynick \in Dicts(Nicks, Seq(Nat)) /\ d \in Dicts(Names, Seq(Nat))) => t \in Tables
  BY <1>6, Zenon DEF EditedTo
<1>9. Lists(g.bynick, ByNick(n.nick, g.rec))
  BY <1>2 DEF Giving
<1>10. t \in Tables
  BY <1>3, <1>7, <1>8, <1>9, ListsAre, TablesAre
<1>11. Core(t, Bots)
  BY <1>2, <1>6, <1>10, EditKeepsCore DEF Giving
<1>12. Tied(j, t.rec)
  BY <1>2, <1>4, <1>8 DEF Giving, Tied
<1>13. Followed(j, t.rec)
  <2> SUFFICES ASSUME NEW p \in DOMAIN g.rec, g.rec[p].user # NULL PROVE g.rec[p].handle = j.acct[g.rec[p].user]
    BY <1>8 DEF Followed
  <2>1. g.rec[p].user \in Users /\ g.rec[p].handle # from
    BY <1>2, <1>3, RequestIs DEF Optional, RequestsFor
  <2>2. g.rec[p].handle = n.acct[g.rec[p].user] \/ (g.rec[p].handle = to /\ n.acct[g.rec[p].user] = from)
    BY <1>2 DEF Giving
  <2> QED BY <1>4, <2>1, <2>2
<1>14. Staffed(j, t)
  BY <1>2, <1>4, <1>8 DEF Giving, Staffed, Level
<1>15. Kept(j, t)
  BY <1>4, <1>7, <1>8, <1>9, <1>11, <1>12, <1>13, <1>14 DEF Kept, Filed
<1> QED BY <1>1, <1>4, <1>5, <1>15 DEF j

\* cmd_merge keeps the invariant: the requests and the sessions move, and the
\* account is unregistered.
LEMMA MergeKeeps ==
  ASSUME NEW n, NetOk(n), NEW to \in Handles, NEW from \in Handles, to # from, n.name[to] # NULL, n.name[from] # NULL,
         NEW s, Kept(n, s)
  PROVE  LET j == Joined(n, to, from) IN
         /\ NetOk(Unregistered(j, from))
         /\ Kept(Unregistered(j, from), HandleUnreg(j, HandleMerge(n, s, to, from), NULL, from, NULL))
<1> DEFINE j == Joined(n, to, from)
           g == HandleMerge(n, s, to, from)
<1>1. NetOk(j) /\ j.name = n.name /\ Kept(j, g)
  BY GivenKeeps
<1>2. NULL \in Optional(Users)
  BY DEF Optional
<1> HIDE DEF j, g
<1> QED BY <1>1, <1>2, UnregKeeps DEF j, g

-----------------------------------------------------------------------------
(* Commands, and who comes.                                                 *)

\* A connection that begins has no requests, although its nick may have been
\* used before.
LEMMA ConnectKeeps ==
  ASSUME NEW n, NetOk(n), NEW s, Kept(n, s), NEW u \in Users, n.nick[u] = NULL, NEW new \in Nicks,
         \A v \in Users : n.nick[v] # new
  PROVE  LET m == [n EXCEPT !.nick[u] = new] IN NetOk(m) /\ Kept(m, s)
<1> DEFINE m == [n EXCEPT !.nick[u] = new]
<1>1. /\ m \in Nets /\ m.name = n.name /\ m.acct = n.acct
      /\ \A v \in Users : m.nick[v] = IF v = u THEN new ELSE n.nick[v]
  BY DEF NetOk, Nets, Optional
<1> HIDE DEF m
<1>2. NetOk(m)
  BY <1>1, HelpServAssumption DEF NetOk
<1>3. ASSUME NEW p \in DOMAIN s.rec, s.rec[p].user # NULL
      PROVE  n.nick[s.rec[p].user] # NULL /\ m.nick[s.rec[p].user] = n.nick[s.rec[p].user]
  <2>1. s.rec[p].user \in Users
    BY <1>3, KeptIs, RequestIs DEF Optional
  <2>2. n.nick[s.rec[p].user] # NULL
    BY <1>3 DEF Kept, Filed, Tied
  <2> QED BY <1>1, <2>1, <2>2
<1>4. ByNick(m.nick, s.rec) = ByNick(n.nick, s.rec)
  <2>1. \A k : AtNick(m.nick, s.rec, k) = AtNick(n.nick, s.rec, k)
    BY <1>3 DEF AtNick
  <2> QED BY <2>1 DEF ByNick
<1>5. Tied(m, s.rec)
  BY <1>1, <1>3 DEF Tied, Kept, Filed
<1>6. Followed(m, s.rec) /\ Staffed(m, s)
  BY <1>1 DEF Followed, Staffed, Level, Kept
<1>7. Kept(m, s)
  BY <1>1, <1>4, <1>5, <1>6 DEF Kept, Filed
<1> QED BY <1>2, <1>7 DEF m

\* An account that begins has no requests and is no helper, although its name
\* may have been used before.
LEMMA RegisterKeeps ==
  ASSUME NEW n, NetOk(n), NEW s, Kept(n, s), NEW h \in Handles, n.name[h] = NULL, NEW new \in Names,
         \A g \in Handles : n.name[g] # new
  PROVE  LET m == [n EXCEPT !.name[h] = new] IN NetOk(m) /\ Kept(m, s)
<1> DEFINE m == [n EXCEPT !.name[h] = new]
<1>1. /\ m \in Nets /\ m.nick = n.nick /\ m.acct = n.acct
      /\ \A g \in Handles : m.name[g] = IF g = h THEN new ELSE n.name[g]
  BY DEF NetOk, Nets, Optional
<1> HIDE DEF m
<1>2. NetOk(m)
  <2>1. ASSUME NEW u \in Users, m.acct[u] # NULL PROVE m.nick[u] # NULL /\ m.name[m.acct[u]] # NULL
    <3>1. n.acct[u] \in Handles /\ n.nick[u] # NULL /\ n.name[n.acct[u]] # NULL
      BY <1>1, <2>1 DEF NetOk, Nets, Optional
    <3> QED BY <1>1, <3>1
  <2>2. \A f, g \in Handles : m.name[f] # NULL /\ m.name[f] = m.name[g] => f = g
    BY <1>1 DEF NetOk
  <2> QED BY <1>1, <2>1, <2>2 DEF NetOk
<1>3. ASSUME NEW p \in DOMAIN s.rec, s.rec[p].handle # NULL
      PROVE  n.name[s.rec[p].handle] # NULL /\ m.name[s.rec[p].handle] = n.name[s.rec[p].handle]
  <2>1. s.rec[p].handle \in Handles
    BY <1>3, KeptIs, RequestIs DEF Optional
  <2>2. n.name[s.rec[p].handle] # NULL
    BY <1>3 DEF Kept, Filed, Tied
  <2> QED BY <1>1, <2>1, <2>2
<1>4. ByName(m.name, s.rec) = ByName(n.name, s.rec)
  <2>1. \A k : AtName(m.name, s.rec, k) = AtName(n.name, s.rec, k)
    BY <1>3 DEF AtName
  <2> QED BY <2>1 DEF ByName
<1>5. Tied(m, s.rec)
  BY <1>1, <1>3 DEF Tied, Kept, Filed
<1>6. Followed(m, s.rec)
  BY <1>1 DEF Followed, Kept
<1>7. Staffed(m, s)
  <2> SUFFICES ASSUME NEW p \in DOMAIN s.rec, s.rec[p].helper # NULL
               PROVE  Level(m, s, s.rec[p].hs, s.rec[p].helper) > 0
    BY DEF Staffed
  <2>1. s.rec[p].helper \in Handles /\ s.rec[p].hs \in Bots /\ s \in Tables
    BY KeptIs, RequestIs DEF Optional
  <2>2. n.name[s.rec[p].helper] \in DOMAIN s.staff[s.rec[p].hs]
    BY HelperListed
  <2>3. DOMAIN s.staff[s.rec[p].hs] \subseteq Names
    BY <2>1 DEF Tables, Dicts
  <2>4. m.name[s.rec[p].helper] = n.name[s.rec[p].helper]
    BY <1>1, <2>1, <2>2, <2>3, HelpServAssumption
  <2> QED BY <2>2, <2>1, <2>4, LevelIs
<1>8. Kept(m, s)
  BY <1>1, <1>4, <1>5, <1>6, <1>7 DEF Kept, Filed
<1> QED BY <1>2, <1>8 DEF m

\* helpserv_assign
Assigned(s, b, p, g) ==
  [s EXCEPT !.rec[p].helper = g, !.unhandled[b] = RemoveFirst(s.unhandled[b], p)]

\* The requests, with another helper of p.
WithHelper(rec, p, g) == [rec EXCEPT ![p] = [rec[p] EXCEPT !.helper = g]]

\* What helpserv_assign leaves, table by table.
AssignedTo(s, b, p, g, t) ==
  /\ t.rec = WithHelper(s.rec, p, g) /\ t.unhandled = [s.unhandled EXCEPT ![b] = RemoveFirst(s.unhandled[b], p)]
  /\ t.bynick = s.bynick /\ t.byhand = s.byhand /\ t.requests = s.requests
  /\ t.staff = s.staff /\ t.opt = s.opt /\ t.up = s.up /\ t.made = s.made /\ t.now = s.now
  /\ (t.rec \in Records /\ t.unhandled \in [Bots -> Seq(Nat)]) => t \in Tables

\* What helpserv_assign does to each table.
LEMMA AssignedIs ==
  ASSUME NEW s \in Tables, NEW b, NEW p, NEW g
  PROVE  AssignedTo(s, b, p, g, Assigned(s, b, p, g))
<1> DEFINE e == WithHelper(s.rec, p, g)
           q == [s.unhandled EXCEPT ![b] = RemoveFirst(s.unhandled[b], p)]
           t == [s EXCEPT !.rec = e, !.unhandled = q]
<1>1. Assigned(s, b, p, g) = t
  BY Zenon DEF Assigned, WithHelper
<1> HIDE DEF e, q
<1>2. /\ t.rec = e /\ t.unhandled = q /\ t.bynick = s.bynick /\ t.byhand = s.byhand /\ t.requests = s.requests
      /\ t.staff = s.staff /\ t.opt = s.opt /\ t.up = s.up /\ t.made = s.made /\ t.now = s.now
      /\ (e \in Records /\ q \in [Bots -> Seq(Nat)]) => t \in Tables
  BY DEF Tables
<1> HIDE DEF t
<1> QED BY <1>1, <1>2, Zenon DEF AssignedTo, e, q

\* helpserv_assign to somebody on the staff keeps the invariant: the request
\* leaves the queue if it was in it.
LEMMA AssignKeeps ==
  ASSUME NEW n, NetOk(n), NEW s, Kept(n, s), NEW b \in Bots, NEW p \in RequestsAt(s, b), NEW g \in Handles,
         Level(n, s, b, g) > 0
  PROVE  Kept(n, Assigned(s, b, p, g))
<1> DEFINE t == Assigned(s, b, p, g)
           e == WithHelper(s.rec, p, g)
           q == RemoveFirst(s.unhandled[b], p)
<1>1. /\ s \in Tables /\ s.rec \in Records /\ p \in DOMAIN s.rec /\ p \in Nat /\ g # NULL /\ s.rec[p] \in Requests
      /\ s.rec[p].hs = b /\ s.unhandled \in [Bots -> Seq(Nat)]
  BY RequestIs, KeptIs, TablesAre, HelpServAssumption DEF RequestsAt
<1>2. AssignedTo(s, b, p, g, t)
  BY <1>1, AssignedIs
<1>3. /\ e \in Records /\ DOMAIN e = DOMAIN s.rec /\ e[p].helper = g
      /\ \A x \in DOMAIN s.rec : x # p => e[x] = s.rec[x]
      /\ \A x \in DOMAIN s.rec : e[x].hs = s.rec[x].hs /\ e[x].id = s.rec[x].id /\ e[x].user = s.rec[x].user
                                 /\ e[x].handle = s.rec[x].handle /\ e[x].opened = s.rec[x].opened
  <2> DEFINE r == [s.rec[p] EXCEPT !.helper = g]
  <2>1. /\ r \in Requests /\ r.helper = g /\ r.hs = s.rec[p].hs /\ r.id = s.rec[p].id /\ r.user = s.rec[p].user
        /\ r.handle = s.rec[p].handle /\ r.opened = s.rec[p].opened
    BY <1>1 DEF Requests
  <2> HIDE DEF r
  <2>2. [s.rec EXCEPT ![p] = r] \in Records
    BY <1>1, <2>1, RecordSet
  <2>3. e = [s.rec EXCEPT ![p] = r]
    BY Zenon DEF WithHelper, r
  <2> HIDE DEF e
  <2> QED BY <1>1, <2>1, <2>2, <2>3
<1> HIDE DEF t, e
<1>4. InLine(s, b)
  BY DEF Kept, Filed, Core
<1>5. Holds(q, Waiting(s.rec, b) \ {p}) /\ InOrder(q, s.rec)
  BY <1>4, HoldsRemove DEF InLine
<1> HIDE DEF q
<1>6. /\ t.rec = e /\ t.unhandled = [s.unhandled EXCEPT ![b] = q]
      /\ t.bynick = s.bynick /\ t.byhand = s.byhand /\ t.requests = s.requests
      /\ t.staff = s.staff /\ t.opt = s.opt /\ t.up = s.up /\ t.made = s.made /\ t.now = s.now
      /\ (t.rec \in Records /\ t.unhandled \in [Bots -> Seq(Nat)]) => t \in Tables
  BY <1>2, Zenon DEF AssignedTo, e, q
<1>7. t \in Tables
  <2>1. [s.unhandled EXCEPT ![b] = q] \in [Bots -> Seq(Nat)]
    BY <1>1, <1>5 DEF Holds
  <2> QED BY <1>3, <1>6, <2>1
<1>8. t.unhandled[b] = q /\ \A c \in Bots : c # b => t.unhandled[c] = s.unhandled[c]
  BY <1>1, <1>6
<1>9. QueueOnly(s, t)
  BY <1>3, <1>6 DEF QueueOnly
<1>10. InLine(t, b)
  <2>1. Waiting(t.rec, b) = Waiting(s.rec, b) \ {p}
    BY <1>1, <1>3, <1>6 DEF Waiting
  <2>2. InOrder(q, t.rec)
    <3>1. \A i \in 1..Len(q) : q[i] \in DOMAIN s.rec
      BY <1>5 DEF Holds, Waiting
    <3>2. \A i \in 1..Len(q) : t.rec[q[i]].opened = s.rec[q[i]].opened
      BY <1>9, <3>1 DEF QueueOnly
    <3> QED BY <1>5, <3>2 DEF InOrder
  <2> QED BY <1>5, <1>8, <2>1, <2>2 DEF InLine
<1>11. Core(t, Bots)
  <2>1. \A x \in DOMAIN s.rec : x # p => t.rec[x].helper = s.rec[x].helper
    BY <1>3, <1>6
  <2>2. Core(s, Bots)
    BY DEF Kept, Filed
  <2> QED BY <1>1, <1>7, <1>8, <1>9, <1>10, <2>1, <2>2, CoreQueued
<1>12. Staffed(n, t)
  <2> SUFFICES ASSUME NEW x \in DOMAIN s.rec, t.rec[x].helper # NULL
               PROVE  Level(n, t, t.rec[x].hs, t.rec[x].helper) > 0
    BY <1>9 DEF Staffed, QueueOnly
  <2>1. t.rec[x].hs = s.rec[x].hs /\ t.staff = s.staff /\ (x = p \/ t.rec[x].helper = s.rec[x].helper)
    BY <1>3, <1>6
  <2>2. x # p => Level(n, s, s.rec[x].hs, s.rec[x].helper) > 0
    BY <2>1 DEF Kept, Staffed
  <2> QED BY <1>1, <1>3, <1>6, <2>1, <2>2 DEF Level
<1>13. Kept(n, t)
  BY <1>6, <1>9, <1>11, <1>12, PeopleSame DEF Kept, Filed
<1> QED BY <1>13 DEF t

\* The request at the head of the queue, which NEXT hands out, is one of the
\* bot.
LEMMA HeadWaits ==
  ASSUME NEW n, NEW s, Kept(n, s), NEW b \in Bots, s.unhandled[b] # <<>>
  PROVE  Head(s.unhandled[b]) \in RequestsAt(s, b)
<1>1. Holds(s.unhandled[b], Waiting(s.rec, b))
  BY KeptIs
<1>2. Head(s.unhandled[b]) \in Waiting(s.rec, b)
  BY <1>1, HoldsSome
<1> QED BY <1>2 DEF Waiting, RequestsAt

\* What can be named by an id is a request of the bot.
LEMMA ByIdNames ==
  ASSUME NEW n, NEW s, Kept(n, s), NEW b \in Bots
  PROVE  \A p \in ToSet(ById(s, b)) : p \in RequestsAt(s, b)
<1>1. Holds(ById(s, b), RequestsAt(s, b))
  BY KeptIs
<1> DEFINE list == ById(s, b)
<1> HIDE DEF list
<1>2. DOMAIN list = 1..Len(list) /\ \A i \in 1..Len(list) : list[i] \in RequestsAt(s, b)
  BY <1>1 DEF Holds, list
<1>3. \A p \in ToSet(list) : p \in RequestsAt(s, b)
  BY <1>2 DEF ToSet
<1> QED BY <1>3 DEF list

\* SET keeps the invariant, and the timer of the alert with it.
LEMMA OptionKeeps ==
  ASSUME NEW n, NEW s, Kept(n, s), NEW b \in Bots, NEW o \in Options, NEW x \in Nat
  PROVE  Kept(n, [s EXCEPT !.opt[b] = o, !.timer[b] = x])
<1> DEFINE f == [s.opt EXCEPT ![b] = o]
           g == [s.timer EXCEPT ![b] = x]
           t == [s EXCEPT !.opt = f, !.timer = g]
<1>1. s \in Tables
  BY KeptIs
<1>2. f \in [Bots -> Options] /\ g \in [Bots -> Nat]
  BY <1>1 DEF Tables
<1> HIDE DEF f, g
<1>3. t \in Tables /\ SameRequests(s, t)
  BY <1>1, <1>2 DEF Tables, SameRequests
<1> HIDE DEF t
<1>4. Kept(n, t)
  BY <1>3, SameKeeps
<1> QED BY <1>4 DEF t, f, g

\* ADD and CLVL keep the invariant: who had a level keeps one.
LEMMA LevelsChange ==
  ASSUME NEW n, NetOk(n), NEW s, Kept(n, s), NEW b \in Bots, NEW h \in Handles, n.name[h] # NULL,
         NEW level \in HlTrial..HlOwner
  PROVE  /\ Kept(n, [s EXCEPT !.staff[b] = Put(s.staff[b], n.name[h], level)])
         /\ Level(n, s, b, h) > 0 => Kept(n, [s EXCEPT !.staff[b][n.name[h]] = level])
<1> DEFINE f == Put(s.staff[b], n.name[h], level)
<1>1. s.staff[b] \in Dicts(Names, HlTrial..HlOwner) /\ n.name[h] \in Names /\ s \in Tables
  BY KeptIs DEF Tables, NetOk, Nets, Optional
<1>2. f \in Dicts(Names, HlTrial..HlOwner)
  BY <1>1, PutIn
<1>3. DOMAIN s.staff[b] \subseteq DOMAIN f
  BY DEF Put
<1>4. Level(n, s, b, h) > 0 => [s.staff[b] EXCEPT ![n.name[h]] = level] = f
  <2> SUFFICES ASSUME Level(n, s, b, h) > 0 PROVE [s.staff[b] EXCEPT ![n.name[h]] = level] = f
    OBVIOUS
  <2>1. n.name[h] \in DOMAIN s.staff[b]
    BY <1>1, LevelIs
  <2> QED BY <1>1, <2>1, PutExcept
<1> HIDE DEF f
<1>5. Kept(n, [s EXCEPT !.staff[b] = f])
  BY <1>2, <1>3, StaffGrows
<1> QED BY <1>4, <1>5 DEF f

\* cmd_giveownership
PassedOn(n, s, b, h, old) ==
  [s EXCEPT !.staff[b] = [x \in DOMAIN s.staff[b] |->
     IF x = n.name[h] THEN HlOwner ELSE IF \E g \in old : n.name[g] = x THEN HlManager ELSE s.staff[b][x]]]

\* GIVEOWNERSHIP keeps the invariant: who had a level keeps one.
LEMMA OwnerKeeps ==
  ASSUME NEW n, NetOk(n), NEW s, Kept(n, s), NEW b \in Bots, NEW h \in Handles, NEW old
  PROVE  Kept(n, PassedOn(n, s, b, h, old))
<1> DEFINE f == [x \in DOMAIN s.staff[b] |->
                    IF x = n.name[h] THEN HlOwner
                    ELSE IF \E g \in old : n.name[g] = x THEN HlManager
                    ELSE s.staff[b][x]]
<1>1. s.staff[b] \in Dicts(Names, HlTrial..HlOwner)
  BY KeptIs DEF Tables
<1>2. DOMAIN s.staff[b] \subseteq Names /\ \A x \in DOMAIN s.staff[b] : s.staff[b][x] \in HlTrial..HlOwner
  BY <1>1, DictIs
<1>3. DOMAIN f = DOMAIN s.staff[b] /\ f = [x \in DOMAIN f |-> f[x]] /\ \A x \in DOMAIN f : f[x] \in HlTrial..HlOwner
  BY <1>2 DEF HlTrial, HlOwner, HlManager
<1> HIDE DEF f
<1>4. f \in Dicts(Names, HlTrial..HlOwner)
  BY <1>2, <1>3, DictIs
<1>5. Kept(n, [s EXCEPT !.staff[b] = f])
  BY <1>3, <1>4, StaffGrows
<1> QED BY <1>5, Zenon DEF f, PassedOn

-----------------------------------------------------------------------------
(* Bots that go and come.                                                   *)

\* The empty dictionary is one, of every kind.
LEMMA NothingIn ==
  ASSUME NEW K, NEW V
  PROVE  <<>> \in Dicts(K, V) /\ DOMAIN <<>> = {}
<1>1. DOMAIN <<>> = {} /\ <<>> = [x \in {} |-> <<>>[x]]
  OBVIOUS
<1> DEFINE e == <<>>
<1>2. DOMAIN e = {} /\ e = [x \in {} |-> e[x]]
  BY <1>1
<1> HIDE DEF e
<1>3. e \in Dicts(K, V)
  BY <1>2, DictIs
<1> QED BY <1>2, <1>3 DEF e

\* The requests of a bot are freed one after the other.
FreeAll(n, s, b) == Each(LAMBDA t, p : FreeRequest(n, t, p), s, ById(s, b))

\* helpserv_unregister frees every request of the bot, from queues and
\* indexes as well.
LEMMA FreeAllKeeps ==
  ASSUME NEW m, NetOk(m), NEW s, Kept(m, s), NEW b \in Bots
  PROVE  LET t == FreeAll(m, s, b) IN
         /\ Core(t, Bots \ {b}) /\ Listing(m, t) /\ Fewer(s, t) /\ RequestsAt(t, b) = {}
<1> DEFINE first == s
           list == ById(s, b)
           Do(t, p) == FreeRequest(m, t, p)
           Good(i, t) == /\ Core(t, Bots \ {b}) /\ Listing(m, t) /\ Fewer(s, t)
                         /\ RequestsAt(t, b) = Rest(list, i)
           n == Len(list)
           good == [i \in 0..n |-> {t \in Tables : Good(i, t)}]
           do == [i \in 1..n |-> [t \in good[i - 1] |-> Do(t, list[i])]]
           Run(f) == f = [i \in 0..Len(list) |-> IF i = 0 THEN first ELSE Do(f[i - 1], list[i])]
           k == CHOOSE f : Run(f)
<1>0. Holds(list, RequestsAt(s, b)) /\ s \in Tables /\ Core(s, Bots) /\ Listing(m, s) /\ Tied(m, s.rec) /\ m \in Nets
  <2> HIDE DEF list
  <2> QED BY KeptIs DEF Kept, Filed, Listing, NetOk, list
<1>1. /\ n \in Nat /\ Rest(list, 0) = RequestsAt(s, b) /\ Rest(list, n) = {}
      /\ \A i \in 1..n : list[i] \in Rest(list, i - 1) /\ Rest(list, i) = Rest(list, i - 1) \ {list[i]}
  <2> HIDE DEF list
  <2>1. Len(list) \in Nat
    BY <1>0 DEF Holds
  <2>2. /\ Rest(list, 0) = RequestsAt(s, b) /\ Rest(list, Len(list)) = {}
        /\ \A i \in 1..Len(list) : list[i] \in Rest(list, i - 1) /\ Rest(list, i) = Rest(list, i - 1) \ {list[i]}
    <3> HIDE DEF n, good, do, Run, k
    <3> QED BY <1>0, RestIs
  <2> QED BY <2>1, <2>2
<1>2. ASSUME NEW i \in 1..n, NEW t \in good[i - 1] PROVE Do(t, list[i]) \in good[i]
  <2> HIDE DEF list, do, k, Run
  <2>0. i - 1 \in 0..n /\ i \in 0..n
    BY <1>1
  <2>1. Good(i - 1, t)
    BY <2>0
  <2> DEFINE v == Do(t, list[i])
             p == list[i]
             B == Bots \ {b}
  <2> HIDE DEF n
  <2>3. p \in RequestsAt(t, b)
    BY <1>1, <2>1
  <2>4. p \in DOMAIN t.rec /\ t.rec[p].hs = b /\ Core(t, B) /\ B \subseteq Bots /\ Listing(m, t) /\ t \in Tables
    BY <2>1, <2>3 DEF RequestsAt, Core
  <2>5. Known(m, t.rec[p])
    <3>1. Tied(m, t.rec)
      BY <1>0, <2>1, FewerKeeps
    <3> QED BY <1>0, <2>4, <3>1, TiedKnown
  <2> HIDE DEF p
  <2>6. FreedFrom(m, t, p, v)
    BY <2>4, FreeIs DEF p
  <2>7. Core(v, B \ {t.rec[p].hs}) /\ Listing(m, v)
    <3> HIDE DEF B
    <3> QED BY <2>4, <2>5, FreeKeeps DEF p
  <2>8. B \ {t.rec[p].hs} = B
    BY <2>4
  <2> HIDE DEF v
  <2>9. v.rec = Drop(t.rec, p) /\ v.staff = t.staff
    BY <2>6, Zenon DEF FreedFrom
  <2>10. DOMAIN v.rec = DOMAIN t.rec \ {p} /\ \A q \in DOMAIN v.rec : v.rec[q] = t.rec[q]
    BY <2>9 DEF Drop
  <2>11. Fewer(s, v)
    BY <2>1, <2>9, <2>10 DEF Fewer
  <2>12. RequestsAt(v, b) = RequestsAt(t, b) \ {p}
    BY <2>10 DEF RequestsAt
  <2>13. v \in Tables
    BY <2>7 DEF Core
  <2>14. Good(i, v)
    BY <1>1, <2>1, <2>7, <2>8, <2>11, <2>12 DEF p
  <2> HIDE DEF Good
  <2>15. v \in good[i]
    BY <2>0, <2>13, <2>14
  <2> QED BY <2>15 DEF v
<1>3. first \in good[0]
  <2> HIDE DEF list, do, k, Run
  <2>1. s \in Tables /\ 0 \in 0..n
    BY <1>0, <1>1
  <2>2. Core(s, Bots \ {b})
    BY <1>0 DEF Core
  <2>3. Good(0, s)
    BY <1>0, <1>1, <2>2 DEF Fewer
  <2> HIDE DEF Good, n
  <2> QED BY <2>1, <2>3
<1>4. \A t \in good[n] : Good(n, t)
  <2>1. n \in 0..n
    BY <1>1
  <2> HIDE DEF n, Good
  <2> QED BY <2>1
<1>5. FreeAll(m, s, b) = k[n]
  BY DEF FreeAll, Each
<1>6. \A i \in 1..n : \A t \in good[i - 1] : do[i][t] = Do(t, list[i])
  <2> HIDE DEF good, n, Do
  <2> QED OBVIOUS
<1>7. n = Len(list)
  OBVIOUS
<1> HIDE DEF good, do, n, Do, list
<1>8. Loops(n, good, first, do)
  BY <1>1, <1>2, <1>3, <1>6 DEF Loops
<1>9. PICK r : /\ r = [i \in 0..n |-> IF i = 0 THEN first ELSE do[i][r[i - 1]]]
               /\ \A i \in 1..n : r[i - 1] \in good[i - 1] /\ i \in 0..n /\ i - 1 \in 0..n /\ i # 0
  BY <1>8, LoopRuns
<1>10. Run(r)
  <2>1. \A i \in 0..n : i = 0 \/ i \in 1..n
    BY <1>1
  <2>2. \A i \in 0..n : (IF i = 0 THEN first ELSE do[i][r[i - 1]]) = IF i = 0 THEN first ELSE Do(r[i - 1], list[i])
    BY <1>6, <1>9, <2>1
  <2> QED BY <1>7, <1>9, <2>2
<1> HIDE DEF Run
<1>11. Run(k)
  BY <1>10
<1> HIDE DEF k
<1>12. k[0] \in good[0] /\ \A i \in 1..n : k[i - 1] \in good[i - 1] => k[i] \in good[i]
  <2>1. 0 \in 0..n
    BY <1>1
  <2>2. k[0] = first /\ \A i \in 1..n : k[i] = Do(k[i - 1], list[i])
    BY <1>7, <1>9, <1>11, <2>1 DEF Run
  <2> QED BY <1>2, <1>3, <2>2
<1>13. k[n] \in good[n]
  BY <1>1, <1>12, LoopStays
<1>14. Good(n, FreeAll(m, s, b))
  BY <1>4, <1>5, <1>13
<1> HIDE DEF Good
<1> DEFINE w == FreeAll(m, s, b)
<1>15. Core(w, Bots \ {b}) /\ Listing(m, w) /\ Fewer(s, w) /\ RequestsAt(w, b) = Rest(list, n)
  BY <1>14 DEF Good
<1> HIDE DEF w
<1> QED BY <1>1, <1>15 DEF w

\* Bot b is emptied.
Emptied(s, b, up) ==
  [s EXCEPT !.requests[b] = <<>>, !.staff[b] = <<>>, !.timer[b] = 0, !.last[b] = 0, !.empty[b] = FALSE, !.up = up]

\* What helpserv_unregister leaves, table by table.
EmptiedTo(s, b, up, t) ==
  /\ t.rec = s.rec /\ t.unhandled = s.unhandled /\ t.bynick = s.bynick /\ t.byhand = s.byhand
  /\ t.made = s.made /\ t.now = s.now /\ t.up = up /\ t.requests[b] = <<>>
  /\ \A c \in Bots : c # b => t.requests[c] = s.requests[c] /\ t.staff[c] = s.staff[c]
  /\ t \in Tables

\* What helpserv_unregister does to each table after that.
LEMMA EmptiedIs ==
  ASSUME NEW s \in Tables, NEW b \in Bots, NEW up \in SUBSET Bots
  PROVE  EmptiedTo(s, b, up, Emptied(s, b, up))
<1> DEFINE e == [s.requests EXCEPT ![b] = <<>>]
           f == [s.staff EXCEPT ![b] = <<>>]
           g == [s.timer EXCEPT ![b] = 0]
           i == [s.last EXCEPT ![b] = 0]
           j == [s.empty EXCEPT ![b] = FALSE]
           t == [s EXCEPT !.requests = e, !.staff = f, !.timer = g, !.last = i, !.empty = j, !.up = up]
<1>1. Emptied(s, b, up) = t
  BY Zenon DEF Emptied
<1>2. <<>> \in Dicts(Nat, Nat) /\ <<>> \in Dicts(Names, HlTrial..HlOwner)
  BY NothingIn
<1>3. e \in [Bots -> Dicts(Nat, Nat)] /\ e[b] = <<>> /\ \A c \in Bots : c # b => e[c] = s.requests[c]
  BY <1>2 DEF Tables
<1>4. f \in [Bots -> Dicts(Names, HlTrial..HlOwner)] /\ \A c \in Bots : c # b => f[c] = s.staff[c]
  BY <1>2 DEF Tables
<1>5. g \in [Bots -> Nat] /\ i \in [Bots -> Nat] /\ j \in [Bots -> BOOLEAN]
  BY DEF Tables
<1> HIDE DEF e, f, g, i, j
<1>6. /\ t.rec = s.rec /\ t.unhandled = s.unhandled /\ t.bynick = s.bynick /\ t.byhand = s.byhand
      /\ t.made = s.made /\ t.now = s.now /\ t.up = up /\ t.requests = e /\ t.staff = f
  BY DEF Tables
<1>7. t \in Tables
  BY <1>3, <1>4, <1>5 DEF Tables
<1> HIDE DEF t
<1>8. EmptiedTo(s, b, up, t)
  BY <1>3, <1>4, <1>6, <1>7 DEF EmptiedTo
<1> QED BY <1>1, <1>8

\* helpserv_unregister keeps the invariant of the other bots.
LEMMA UnregisterBotKeeps ==
  ASSUME NEW n, NetOk(n), NEW s, Kept(n, s), NEW b \in Bots
  PROVE  Kept(n, Emptied(FreeAll(n, s, b), b, s.up \ {b}))
<1> DEFINE f == FreeAll(n, s, b)
           t == Emptied(f, b, s.up \ {b})
<1>1. Core(f, Bots \ {b}) /\ Listing(n, f) /\ Fewer(s, f) /\ RequestsAt(f, b) = {}
  BY FreeAllKeeps
<1> HIDE DEF f
<1>2. f \in Tables /\ s.up \ {b} \in SUBSET Bots
  BY <1>1, KeptIs DEF Core
<1>3. EmptiedTo(f, b, s.up \ {b}, t)
  BY <1>2, EmptiedIs
<1> HIDE DEF t
<1>4. /\ t.rec = f.rec /\ t.unhandled = f.unhandled /\ t.bynick = f.bynick /\ t.byhand = f.byhand
      /\ t.made = f.made /\ t.now = f.now /\ t.up = s.up \ {b} /\ t.requests[b] = <<>>
      /\ \A c \in Bots : c # b => t.requests[c] = f.requests[c] /\ t.staff[c] = f.staff[c]
      /\ t \in Tables
  BY <1>3 DEF EmptiedTo
<1>5. \A p \in DOMAIN f.rec : f.rec[p].hs \in Bots /\ f.rec[p].hs # b
  BY <1>1, <1>2, RequestIs DEF RequestsAt
<1>6. Sane(t)
  <2>1. \A p \in DOMAIN s.rec : s.rec[p].hs \in s.up
    BY DEF Kept, Filed, Core, Sane
  <2>2. \A p \in DOMAIN f.rec : f.rec[p].hs \in s.up
    BY <1>1, <2>1 DEF Fewer
  <2> QED BY <1>1, <1>4, <1>5, <2>2 DEF Sane, Core
<1>7. \A c \in Bots : InLine(t, c)
  BY <1>1, <1>4 DEF Core, InLine
<1>8. ASSUME NEW c \in Bots PROVE Tabled(t, c)
  <2>0. RequestsAt(t, c) = RequestsAt(f, c)
    BY <1>4 DEF RequestsAt
  <2>1. CASE c = b
    <3>1. DOMAIN t.requests[c] = {}
      BY <1>4, <2>1, NothingIn
    <3> QED BY <1>1, <2>0, <2>1, <3>1, FS_EmptySet DEF Tabled
  <2>2. CASE c # b
    <3>1. Tabled(f, c) /\ t.requests[c] = f.requests[c]
      BY <1>1, <1>4, <2>2 DEF Core
    <3> QED BY <1>4, <2>0, <3>1 DEF Tabled
  <2> QED BY <2>1, <2>2
<1>9. Core(t, Bots)
  BY <1>4, <1>6, <1>7, <1>8 DEF Core
<1>10. Tied(n, f.rec) /\ Followed(n, f.rec) /\ Staffed(n, f)
  BY <1>1, FewerKeeps DEF Kept, Filed
<1>11. Staffed(n, t)
  <2> SUFFICES ASSUME NEW p \in DOMAIN f.rec, f.rec[p].helper # NULL
               PROVE  Level(n, t, f.rec[p].hs, f.rec[p].helper) > 0
    BY <1>4 DEF Staffed
  <2>1. Level(n, f, f.rec[p].hs, f.rec[p].helper) > 0 /\ t.staff[f.rec[p].hs] = f.staff[f.rec[p].hs]
    BY <1>4, <1>5, <1>10 DEF Staffed
  <2> QED BY <2>1 DEF Level
<1>12. Kept(n, t)
  BY <1>1, <1>4, <1>9, <1>10, <1>11 DEF Kept, Filed, Listing
<1> QED BY <1>12 DEF t, f

\* cmd_register keeps the invariant: a bot that begins has no requests.
LEMMA RegisterBotKeeps ==
  ASSUME NEW n, NetOk(n), NEW s, Kept(n, s), NEW b \in Bots, b \notin s.up, NEW h \in Handles, n.name[h] # NULL,
         NEW o \in Options
  PROVE  Kept(n, [s EXCEPT !.up = s.up \cup {b}, !.staff[b] = Put(<<>>, n.name[h], HlOwner), !.opt[b] = o])
<1> DEFINE f == Put(<<>>, n.name[h], HlOwner)
           e == [s.staff EXCEPT ![b] = f]
           g == [s.opt EXCEPT ![b] = o]
           t == [s EXCEPT !.up = s.up \cup {b}, !.staff = e, !.opt = g]
<1>1. s \in Tables /\ n.name[h] \in Names
  BY KeptIs DEF NetOk, Nets, Optional
<1>2. f \in Dicts(Names, HlTrial..HlOwner)
  <2>1. <<>> \in Dicts(Names, HlTrial..HlOwner)
    BY NothingIn
  <2>2. HlOwner \in HlTrial..HlOwner
    BY DEF HlOwner, HlTrial
  <2> QED BY <1>1, <2>1, <2>2, PutIn
<1> HIDE DEF f
<1>3. e \in [Bots -> Dicts(Names, HlTrial..HlOwner)] /\ g \in [Bots -> Options]
      /\ \A c \in Bots : c # b => e[c] = s.staff[c]
  BY <1>1, <1>2 DEF Tables
<1> HIDE DEF e, g
<1>4. t \in Tables /\ StaffOnly(s, t) /\ t.staff = e
  BY <1>1, <1>3 DEF Tables, StaffOnly
<1> HIDE DEF t
<1>5. ASSUME NEW p \in DOMAIN s.rec, s.rec[p].helper # NULL
      PROVE  n.name[s.rec[p].helper] \in DOMAIN t.staff[s.rec[p].hs]
  <2>1. s.rec[p].hs \in s.up
    BY DEF Kept, Filed, Core, Sane
  <2>2. s.rec[p].hs \in Bots /\ s.rec[p].hs # b
    BY <1>1, <2>1, RequestIs
  <2>3. n.name[s.rec[p].helper] \in DOMAIN s.staff[s.rec[p].hs]
    BY <1>5, HelperListed
  <2> QED BY <1>3, <1>4, <2>2, <2>3
<1>6. Kept(n, t)
  BY <1>4, <1>5, StaffKeeps
<1> QED BY <1>6 DEF t, e, f, g

-----------------------------------------------------------------------------
(* Leaving and coming back.                                                 *)

\* The empty index is exact when there is nothing to be listed.
LEMMA ListsNothing ==
  ASSUME NEW A, \A k \in DOMAIN A : A[k] = {}
  PROVE  Lists(<<>>, A)
<1> DEFINE e == <<>>
<1>1. e \in Dicts(DOMAIN A, Seq(Nat)) /\ DOMAIN e = {}
  BY NothingIn
<1>2. Holds(<<>>, {})
  BY HoldsNone
<1>3. \A k \in DOMAIN A : Listed(e, k) = <<>>
  BY <1>1 DEF Listed
<1>4. \A k \in DOMAIN A : Holds(Listed(e, k), A[k])
  BY <1>2, <1>3
<1> HIDE DEF e
<1>5. Lists(e, A)
  BY <1>1, <1>4 DEF Lists
<1> QED BY <1>5 DEF e

\* request_read_helper's place in the queue.
ReadPlace(x, queue, r) ==
  IF queue # <<>> /\ x.rec[Head(queue)].opened > r.opened THEN 1
  ELSE CHOOSE k \in 2..(Len(queue) + 1) :
         /\ k = Len(queue) + 1 \/ x.rec[queue[k]].opened >= r.opened
         /\ \A j \in 2..(k - 1) : x.rec[queue[j]].opened < r.opened

\* request_read_helper finds a place in the queue, behind the earlier and
\* before the later requests.
LEMMA ReadPlaceIs ==
  ASSUME NEW x, NEW queue \in Seq(Nat), queue # <<>>, \A i \in 1..Len(queue) : x.rec[queue[i]].opened \in Nat,
         NEW r, r.opened \in Nat
  PROVE  LET k == ReadPlace(x, queue, r) IN
         /\ k \in 1..(Len(queue) + 1)
         /\ k = Len(queue) + 1 \/ x.rec[queue[k]].opened >= r.opened
         /\ \A j \in 1..(k - 1) : x.rec[queue[j]].opened <= r.opened
<1> DEFINE N == Len(queue)
           at(i) == x.rec[queue[i]].opened
           P(k) == (k = N + 1 \/ at(k) >= r.opened) /\ \A j \in 2..(k - 1) : at(j) < r.opened
<1>1. N \in Nat /\ N > 0 /\ Head(queue) = queue[1]
  OBVIOUS
<1>2. CASE at(1) > r.opened
  <2>1. ReadPlace(x, queue, r) = 1
    BY <1>1, <1>2 DEF ReadPlace
  <2>2. at(1) \in Nat /\ 1 \in 1..(N + 1) /\ at(1) >= r.opened /\ \A j \in 1..(1 - 1) : FALSE
    BY <1>1, <1>2
  <2> QED BY <2>1, <2>2
<1>3. CASE ~(at(1) > r.opened)
  <2> DEFINE K == {k \in 2..(N + 1) : k = N + 1 \/ at(k) >= r.opened}
  <2>1. N + 1 \in K /\ K \in SUBSET Nat
    BY <1>1
  <2>2. PICK k \in K : \A y \in K : k <= y
    <3> HIDE DEF K
    <3> QED BY <2>1, LeastOf
  <2>3. \A j \in 2..(k - 1) : j \in 2..(N + 1) /\ j # N + 1 /\ j \notin K /\ j \in 1..N
    BY <1>1, <2>2
  <2>4. \A j \in 2..(k - 1) : at(j) < r.opened
    <3> SUFFICES ASSUME NEW j \in 2..(k - 1) PROVE at(j) < r.opened
      OBVIOUS
    <3>1. j \in 2..(N + 1) /\ ~(at(j) >= r.opened) /\ j \in 1..N
      BY <2>3
    <3>2. at(j) \in Nat
      BY <3>1
    <3> HIDE DEF at
    <3> QED BY <3>1, <3>2
  <2>5. k \in 2..(N + 1) /\ P(k)
    BY <2>2, <2>4
  <2> DEFINE c == CHOOSE i \in 2..(N + 1) : P(i)
  <2>6. ReadPlace(x, queue, r) = c
    <3>1. ~(queue # <<>> /\ x.rec[Head(queue)].opened > r.opened)
      BY <1>1, <1>3
    <3> QED BY <3>1, Zenon DEF ReadPlace
  <2>7. c \in 2..(N + 1) /\ P(c)
    <3> HIDE DEF P
    <3> QED BY <2>5, Zenon
  <2> HIDE DEF c
  <2>8. c \in 1..(N + 1) /\ \A j \in 1..(c - 1) : j \in 1..N /\ (j = 1 \/ j \in 2..(c - 1))
    BY <1>1, <2>7
  <2>9. at(1) <= r.opened
    <3>1. at(1) \in Nat
      BY <1>1
    <3> HIDE DEF at
    <3> QED BY <1>3, <3>1
  <2>10. \A j \in 1..(c - 1) : at(j) <= r.opened
    <3> SUFFICES ASSUME NEW j \in 1..(c - 1) PROVE at(j) <= r.opened
      OBVIOUS
    <3>1. at(j) \in Nat /\ (j = 1 \/ at(j) < r.opened)
      BY <2>7, <2>8
    <3> HIDE DEF at
    <3> QED BY <2>9, <3>1
  <2> QED BY <2>6, <2>7, <2>8, <2>10
<1> QED BY <1>2, <1>3

\* The queue after a request that was written as r has been read as p.
ReadQueue(x, b, p, r) ==
  IF r.helper # NULL THEN x.unhandled[b]
  ELSE IF x.unhandled[b] = <<>> THEN <<p>>
  ELSE InsertAt(x.unhandled[b], ReadPlace(x, x.unhandled[b], r), p)

\* What request_read_helper leaves, table by table.
ReadTo(n, x, b, p, r, t) ==
  /\ t.rec = Put(x.rec, p, [r EXCEPT !.user = NULL])
  /\ t.requests = [x.requests EXCEPT ![b] = Put(x.requests[b], r.id, p)]
  /\ t.unhandled = [x.unhandled EXCEPT ![b] = ReadQueue(x, b, p, r)]
  /\ t.byhand = Push(x.byhand, n.name[r.handle], p)
  /\ t.bynick = x.bynick /\ t.staff = x.staff /\ t.up = x.up /\ t.made = x.made /\ t.now = x.now
  /\ (t.rec \in Records /\ t.requests \in [Bots -> Dicts(Nat, Nat)] /\ t.unhandled \in [Bots -> Seq(Nat)]
      /\ t.byhand \in Dicts(Names, Seq(Nat))) => t \in Tables

\* What request_read_helper does to each table with a request whose account
\* and helper are known.
LEMMA ReadIs ==
  ASSUME NEW n, NEW x \in Tables, NEW b \in Bots, NEW p, NEW r, Registered(n, r.handle),
         r.helper # NULL => Level(n, x, b, r.helper) # 0
  PROVE  ReadTo(n, x, b, p, r, ReadRequest(n, x, b, p, r))
<1> DEFINE d == Push(x.byhand, n.name[r.handle], p)
           filed == [x EXCEPT !.byhand = d]
           r2 == [r EXCEPT !.user = NULL]
           kept == [filed EXCEPT !.rec = Put(filed.rec, p, r2), !.requests[b] = Put(filed.requests[b], r.id, p)]
           queue == x.unhandled[b]
           q == IF queue = <<>> THEN <<p>> ELSE InsertAt(queue, ReadPlace(x, queue, r), p)
           w == [kept EXCEPT !.unhandled[b] = q]
           t == ReadRequest(n, x, b, p, r)
<1>1. t = IF ~Registered(n, r.handle) THEN x
          ELSE IF r.helper = NULL THEN w
          ELSE IF Level(n, x, b, r.helper) = 0 THEN filed
          ELSE kept
  BY Zenon DEF ReadRequest, ReadPlace
<1>2. t = IF r.helper = NULL THEN w ELSE kept
  <2> HIDE DEF t, w, filed, kept
  <2> QED BY <1>1
<1> HIDE DEF d, r2, q, t
<1> DEFINE e == Put(x.rec, p, r2)
           f == [x.requests EXCEPT ![b] = Put(x.requests[b], r.id, p)]
           g == [x.unhandled EXCEPT ![b] = q]
           k1 == [x EXCEPT !.byhand = d, !.rec = e, !.requests = f]
           w1 == [x EXCEPT !.byhand = d, !.rec = e, !.requests = f, !.unhandled = g]
<1>3. filed.rec = x.rec /\ filed.requests = x.requests /\ filed.unhandled = x.unhandled
  BY DEF Tables
<1>4. kept = k1
  <2> DEFINE z == [filed EXCEPT !.rec = Put(filed.rec, p, r2), !.requests = [filed.requests EXCEPT ![b] = Put(filed.requests[b], r.id, p)]]
  <2>1. kept = z
    BY Zenon
  <2>2. z = [filed EXCEPT !.rec = e, !.requests = f]
    <3> HIDE DEF filed
    <3> QED BY <1>3, Zenon
  <2> HIDE DEF kept, z
  <2> QED BY <2>1, <2>2, Zenon
<1>5. kept.unhandled = x.unhandled
  <2> HIDE DEF kept, e, f
  <2> QED BY <1>4 DEF Tables
<1>6. w = w1
  <2>1. w = [kept EXCEPT !.unhandled = [kept.unhandled EXCEPT ![b] = q]]
    BY Zenon
  <2> HIDE DEF kept
  <2>2. [kept EXCEPT !.unhandled = [kept.unhandled EXCEPT ![b] = q]] = [kept EXCEPT !.unhandled = g]
    BY <1>5, Zenon
  <2>3. [kept EXCEPT !.unhandled = g] = w1
    BY <1>4, Zenon
  <2> HIDE DEF w, w1
  <2> QED BY <2>1, <2>2, <2>3, Zenon
<1> HIDE DEF w, kept, filed
<1>7. x.unhandled \in [Bots -> Seq(Nat)]
  BY DEF Tables
<1>8. [x.unhandled EXCEPT ![b] = x.unhandled[b]] = x.unhandled
  BY <1>7
<1> HIDE DEF e, f, g
<1>9. /\ k1.rec = e /\ k1.requests = f /\ k1.unhandled = x.unhandled /\ k1.byhand = d
      /\ k1.bynick = x.bynick /\ k1.staff = x.staff /\ k1.up = x.up /\ k1.made = x.made /\ k1.now = x.now
      /\ (e \in Records /\ f \in [Bots -> Dicts(Nat, Nat)] /\ d \in Dicts(Names, Seq(Nat))) => k1 \in Tables
  BY DEF Tables
<1>10. /\ w1.rec = e /\ w1.requests = f /\ w1.unhandled = g /\ w1.byhand = d
       /\ w1.bynick = x.bynick /\ w1.staff = x.staff /\ w1.up = x.up /\ w1.made = x.made /\ w1.now = x.now
       /\ (e \in Records /\ f \in [Bots -> Dicts(Nat, Nat)] /\ g \in [Bots -> Seq(Nat)] /\ d \in Dicts(Names, Seq(Nat))) => w1 \in Tables
  BY DEF Tables
<1> HIDE DEF k1, w1
<1>11. ASSUME r.helper = NULL PROVE ReadTo(n, x, b, p, r, t)
  <2>1. t = w1
    BY <1>2, <1>6, <1>11
  <2>2. g = [x.unhandled EXCEPT ![b] = ReadQueue(x, b, p, r)]
    BY <1>11, Zenon DEF ReadQueue, g, q
  <2>3. ReadTo(n, x, b, p, r, w1)
    BY <1>10, <2>2, Zenon DEF ReadTo, e, f, d, r2
  <2> QED BY <2>1, <2>3
<1>12. ASSUME r.helper # NULL PROVE ReadTo(n, x, b, p, r, t)
  <2>1. t = k1
    BY <1>2, <1>4, <1>12
  <2>2. x.unhandled = [x.unhandled EXCEPT ![b] = ReadQueue(x, b, p, r)]
    <3>1. ReadQueue(x, b, p, r) = x.unhandled[b]
      BY <1>12, Zenon DEF ReadQueue
    <3> QED BY <1>8, <3>1
  <2>3. /\ k1.unhandled = [x.unhandled EXCEPT ![b] = ReadQueue(x, b, p, r)]
        /\ (e \in Records /\ f \in [Bots -> Dicts(Nat, Nat)] /\ k1.unhandled \in [Bots -> Seq(Nat)]
            /\ d \in Dicts(Names, Seq(Nat))) => k1 \in Tables
    BY <1>9, <2>2
  <2>4. ReadTo(n, x, b, p, r, k1)
    BY <1>9, <2>3, Zenon DEF ReadTo, e, f, d, r2
  <2> QED BY <2>1, <2>4
<1>13. ReadTo(n, x, b, p, r, t)
  <2> HIDE DEF t
  <2> QED BY <1>11, <1>12
<1> QED BY <1>13 DEF t

\* The requests in T have been read back: each as it was, without its user.
ReadUp(n, s, T, x) ==
  /\ Core(x, Bots) /\ Lists(x.byhand, ByName(n.name, x.rec)) /\ x.bynick = <<>>
  /\ x.up = s.up /\ x.made = s.made /\ x.now = s.now
  /\ T \subseteq DOMAIN s.rec /\ DOMAIN x.rec = T
  /\ \A p \in T : /\ s.rec[p].handle # NULL /\ x.rec[p].user = NULL
                  /\ x.rec[p].hs = s.rec[p].hs /\ x.rec[p].id = s.rec[p].id /\ x.rec[p].handle = s.rec[p].handle
                  /\ x.rec[p].helper = s.rec[p].helper /\ x.rec[p].opened = s.rec[p].opened
  /\ \A b \in Bots : DOMAIN x.staff[b] = DOMAIN s.staff[b] \cap {n.name[h] : h \in Handles}

\* The queue of the bot gains the request exactly when it was written without
\* a helper, and stays in order.
LEMMA ReadQueueIs ==
  ASSUME NEW x, Core(x, Bots), NEW b \in Bots, NEW p \in Nat, p \notin DOMAIN x.rec, NEW r, r.opened \in Nat,
         NEW e, e[p].opened = r.opened, \A q \in DOMAIN x.rec : e[q] = x.rec[q]
  PROVE  LET list == ReadQueue(x, b, p, r) IN
         /\ Holds(list, IF r.helper = NULL THEN Waiting(x.rec, b) \cup {p} ELSE Waiting(x.rec, b))
         /\ InOrder(list, e)
<1> DEFINE queue == x.unhandled[b]
           W == Waiting(x.rec, b)
           k == ReadPlace(x, queue, r)
           list == ReadQueue(x, b, p, r)
<1>1. Holds(queue, W) /\ InOrder(queue, x.rec) /\ x \in Tables
  BY DEF Core, InLine
<1>2. \A q \in W : q \in DOMAIN x.rec /\ x.rec[q].opened \in Nat /\ q # p /\ e[q] = x.rec[q]
  BY <1>1, RequestIs DEF Waiting
<1>3. list = IF r.helper # NULL THEN queue ELSE IF queue = <<>> THEN <<p>> ELSE InsertAt(queue, k, p)
  BY Zenon DEF ReadQueue
<1> HIDE DEF queue, W, list
<1>4. queue \in Seq(Nat) /\ Len(queue) \in Nat /\ \A i \in 1..Len(queue) : queue[i] \in W
  BY <1>1 DEF Holds
<1>5. \A i \in 1..Len(queue) : x.rec[queue[i]].opened \in Nat /\ e[queue[i]] = x.rec[queue[i]]
  BY <1>2, <1>4
<1>6. InOrder(queue, e)
  BY <1>1, <1>5 DEF InOrder
<1>7. CASE r.helper # NULL
  BY <1>1, <1>3, <1>6, <1>7 DEF list, W
<1>8. CASE r.helper = NULL /\ queue = <<>>
  <2>1. W = {} /\ list = Append(queue, p)
    BY <1>1, <1>3, <1>8, HoldsSome
  <2>2. Holds(list, W \cup {p})
    BY <1>1, <1>2, <2>1, HoldsAppend
  <2>3. InOrder(list, e)
    BY <1>3, <1>8 DEF InOrder
  <2> QED BY <1>8, <2>2, <2>3 DEF list, W
<1>9. CASE r.helper = NULL /\ queue # <<>>
  <2>1. /\ k \in 1..(Len(queue) + 1)
        /\ k = Len(queue) + 1 \/ x.rec[queue[k]].opened >= r.opened
        /\ \A j \in 1..(k - 1) : x.rec[queue[j]].opened <= r.opened
    BY <1>4, <1>5, <1>9, ReadPlaceIs
  <2> HIDE DEF k
  <2>2. Holds(InsertAt(queue, k, p), W \cup {p})
    BY <1>1, <1>2, <2>1, HoldsInsert
  <2>3. \A i \in 1..(k - 1) : e[queue[i]].opened <= e[p].opened
    <3>1. \A i \in 1..(k - 1) : i \in 1..Len(queue)
      BY <1>4, <2>1
    <3> QED BY <1>5, <2>1, <3>1
  <2>4. \A i \in k..Len(queue) : e[p].opened <= e[queue[i]].opened
    <3> SUFFICES ASSUME NEW i \in k..Len(queue) PROVE e[p].opened <= e[queue[i]].opened
      OBVIOUS
    <3>1. i \in 1..Len(queue) /\ k \in 1..Len(queue) /\ k # Len(queue) + 1 /\ (k = i \/ k < i)
      BY <1>4, <2>1
    <3>2. x.rec[queue[k]].opened >= r.opened /\ x.rec[queue[k]].opened \in Nat /\ x.rec[queue[i]].opened \in Nat
      BY <1>5, <2>1, <3>1
    <3>3. x.rec[queue[k]].opened <= x.rec[queue[i]].opened
      BY <1>1, <3>1, <3>2 DEF InOrder
    <3>4. e[queue[i]].opened = x.rec[queue[i]].opened
      BY <1>5, <3>1
    <3> QED BY <3>2, <3>3, <3>4
  <2>5. InOrder(InsertAt(queue, k, p), e)
    BY <1>4, <1>6, <2>1, <2>3, <2>4, OrderInsert
  <2> QED BY <1>3, <1>9, <2>2, <2>5 DEF list, W
<1> QED BY <1>7, <1>8, <1>9

\* request_read_helper reads a request back as it was, without its user, into
\* every list it belongs to.
LEMMA ReadKeeps ==
  ASSUME NEW n, NetOk(n), NEW s, Kept(n, s), NEW m, m.name = n.name, NEW T, NEW x, ReadUp(n, s, T, x),
         NEW b \in Bots, NEW p \in RequestsAt(s, b), s.rec[p].handle # NULL, p \notin T
  PROVE  ReadUp(n, s, T \cup {p}, ReadRequest(m, x, b, p, s.rec[p]))
<1> DEFINE r == s.rec[p]
           r2 == [r EXCEPT !.user = NULL]
           e == Put(x.rec, p, r2)
           q == ReadQueue(x, b, p, r)
           t == ReadRequest(m, x, b, p, r)
<1>1. /\ s \in Tables /\ p \in DOMAIN s.rec /\ p \in Nat /\ r \in Requests /\ r.hs = b /\ r.id \in Nat /\ r.opened \in Nat
      /\ r.handle \in Handles /\ r.helper \in Optional(Handles)
  BY KeptIs, RequestIs DEF RequestsAt, Optional
<1>2. n.name[r.handle] \in Names /\ n.name[r.handle] # NULL
  <2>1. n.name[r.handle] # NULL
    BY <1>1 DEF Kept, Filed, Tied
  <2> QED BY <1>1, <2>1 DEF NetOk, Nets, Optional
<1>3. x \in Tables /\ x.rec \in Records /\ Core(x, Bots) /\ DOMAIN x.rec = T /\ p \notin DOMAIN x.rec
      /\ x.requests \in [Bots -> Dicts(Nat, Nat)] /\ x.unhandled \in [Bots -> Seq(Nat)]
  BY TablesAre DEF ReadUp, Core
<1>4. r.helper # NULL => n.name[r.helper] \in DOMAIN x.staff[b]
  <2> SUFFICES ASSUME r.helper # NULL PROVE n.name[r.helper] \in DOMAIN x.staff[b]
    OBVIOUS
  <2>1. n.name[r.helper] \in DOMAIN s.staff[b] /\ r.helper \in Handles
    BY <1>1, HelperListed DEF Optional
  <2> QED BY <2>1 DEF ReadUp
<1>5. Registered(m, r.handle) /\ (r.helper # NULL => Level(m, x, b, r.helper) # 0)
  <2>1. Registered(m, r.handle)
    BY <1>2 DEF Registered
  <2>2. r.helper # NULL => Level(m, x, b, r.helper) > 0
    BY <1>3, <1>4, LevelIs
  <2>3. r.helper # NULL => Level(m, x, b, r.helper) # 0
    BY <2>2
  <2> QED BY <2>1, <2>3
<1>6. ReadTo(m, x, b, p, r, t)
  <2> HIDE DEF r
  <2> QED BY <1>3, <1>5, ReadIs
<1>7. /\ r2 \in Requests /\ r2.user = NULL /\ r2.hs = b /\ r2.id = r.id /\ r2.handle = r.handle /\ r2.helper = r.helper
      /\ r2.opened = r.opened
  BY <1>1 DEF Requests
<1> HIDE DEF t, r2
<1>8. /\ DOMAIN e = T \cup {p} /\ e[p] = r2 /\ \A y \in DOMAIN x.rec : e[y] = x.rec[y]
      /\ e \in Records
  <2>1. e \in Records
    BY <1>1, <1>3, <1>7, PutIn DEF Records
  <2> QED BY <1>3, <2>1 DEF Put
<1> HIDE DEF e
<1>9. Holds(q, IF r.helper = NULL THEN Waiting(x.rec, b) \cup {p} ELSE Waiting(x.rec, b)) /\ InOrder(q, e)
  <2> HIDE DEF r
  <2> QED BY <1>1, <1>3, <1>7, <1>8, ReadQueueIs
<1> HIDE DEF q
<1> DEFINE f == [x.requests EXCEPT ![b] = Put(x.requests[b], r.id, p)]
           g == [x.unhandled EXCEPT ![b] = q]
           d == Push(x.byhand, n.name[r.handle], p)
<1>10. Put(x.requests[b], r.id, p) \in Dicts(Nat, Nat)
  <2>1. x.requests[b] \in Dicts(Nat, Nat)
    BY <1>3
  <2> HIDE DEF r
  <2> QED BY <1>1, <2>1, PutIn
<1>11. /\ f \in [Bots -> Dicts(Nat, Nat)] /\ f[b] = Put(x.requests[b], r.id, p) /\ \A c \in Bots : c # b => f[c] = x.requests[c]
  BY <1>3, <1>10
<1>12. /\ g \in [Bots -> Seq(Nat)] /\ g[b] = q /\ \A c \in Bots : c # b => g[c] = x.unhandled[c]
  BY <1>3, <1>9 DEF Holds
<1>13. Lists(d, ByName(n.name, e))
  <2>1. Lists(x.byhand, ByName(n.name, x.rec))
    BY DEF ReadUp
  <2>2. DOMAIN e = DOMAIN x.rec \cup {p} /\ \A y \in DOMAIN x.rec : y # p => e[y].handle = x.rec[y].handle
    BY <1>3, <1>8
  <2>3. e[p].handle # NULL /\ n.name[e[p].handle] \in Names /\ e[p].handle = r.handle
    BY <1>2, <1>7, <1>8
  <2>4. Lists(Push(x.byhand, n.name[e[p].handle], p), ByName(n.name, e))
    BY <1>1, <1>3, <2>1, <2>2, <2>3, NameGains
  <2> QED BY <2>3, <2>4
<1>14. d \in Dicts(Names, Seq(Nat))
  BY <1>13, ListsAre
<1> HIDE DEF f, g, d
<1>15. /\ t.rec = e /\ t.requests = f /\ t.unhandled = g /\ t.byhand = d
       /\ t.bynick = x.bynick /\ t.staff = x.staff /\ t.up = x.up /\ t.made = x.made /\ t.now = x.now
       /\ (t.rec \in Records /\ t.requests \in [Bots -> Dicts(Nat, Nat)] /\ t.unhandled \in [Bots -> Seq(Nat)]
           /\ t.byhand \in Dicts(Names, Seq(Nat))) => t \in Tables
  BY <1>6, Zenon DEF ReadTo, e, f, g, d, r2, q
<1>16. t \in Tables
  BY <1>8, <1>11, <1>12, <1>14, <1>15
<1>17. Sane(t)
  <2>1. \A y \in DOMAIN x.rec : y \in 1..t.made /\ e[y].opened \in 0..t.now /\ e[y].hs \in t.up
    BY <1>3, <1>8, <1>15 DEF Core, Sane
  <2>2. p \in 1..s.made /\ r.opened \in 0..s.now /\ r.hs \in s.up
    BY <1>1 DEF Kept, Filed, Core, Sane
  <2>3. t.made = s.made /\ t.now = s.now /\ t.up = s.up
    BY <1>15 DEF ReadUp
  <2> QED BY <1>1, <1>3, <1>7, <1>8, <1>15, <2>1, <2>2, <2>3 DEF Sane
<1>18. ASSUME NEW c \in Bots PROVE InLine(t, c)
  <2>1. CASE c = b
    <3>1. Waiting(t.rec, c) = IF r.helper = NULL THEN Waiting(x.rec, b) \cup {p} ELSE Waiting(x.rec, b)
      BY <1>3, <1>7, <1>8, <1>15, <2>1 DEF Waiting
    <3>2. t.unhandled[c] = q
      BY <1>12, <1>15, <2>1
    <3> QED BY <1>9, <1>15, <3>1, <3>2 DEF InLine
  <2>2. CASE c # b
    <3>1. Waiting(t.rec, c) = Waiting(x.rec, c)
      BY <1>3, <1>7, <1>8, <1>15, <2>2 DEF Waiting
    <3>2. Holds(x.unhandled[c], Waiting(x.rec, c)) /\ InOrder(x.unhandled[c], x.rec) /\ t.unhandled[c] = x.unhandled[c]
      BY <1>3, <1>12, <1>15, <2>2 DEF Core, InLine
    <3>3. InOrder(x.unhandled[c], t.rec)
      <4>1. \A i \in 1..Len(x.unhandled[c]) : x.unhandled[c][i] \in DOMAIN x.rec
        BY <3>2 DEF Holds, Waiting
      <4>2. \A i \in 1..Len(x.unhandled[c]) : t.rec[x.unhandled[c][i]] = x.rec[x.unhandled[c][i]]
        BY <1>8, <1>15, <4>1
      <4> QED BY <3>2, <4>2 DEF InOrder
    <3> QED BY <3>1, <3>2, <3>3 DEF InLine
  <2> QED BY <2>1, <2>2
<1>19. ASSUME NEW c \in Bots PROVE Tabled(t, c)
  <2>1. Tabled(x, c)
    BY <1>3 DEF Core
  <2>2. CASE c # b
    <3>1. RequestsAt(t, c) = RequestsAt(x, c) /\ \A y \in RequestsAt(x, c) : t.rec[y] = x.rec[y]
      BY <1>3, <1>7, <1>8, <1>15, <2>2 DEF RequestsAt
    <3>2. t.requests[c] = x.requests[c]
      BY <1>11, <1>15, <2>2
    <3> QED BY <2>1, <3>1, <3>2 DEF Tabled
  <2>3. CASE c = b
    <3>1. RequestsAt(t, c) = RequestsAt(x, c) \cup {p} /\ (\A y \in RequestsAt(x, c) : t.rec[y] = x.rec[y] /\ y # p)
          /\ t.rec[p].id = r.id
      BY <1>3, <1>7, <1>8, <1>15, <2>3 DEF RequestsAt
    <3>2. \A y \in RequestsAt(x, c) : x.rec[y].id # r.id
      <4> SUFFICES ASSUME NEW y \in RequestsAt(x, c), x.rec[y].id = r.id PROVE FALSE
        OBVIOUS
      <4>1. y \in T /\ y \in RequestsAt(s, b) /\ s.rec[y].id = r.id
        BY <1>3, <2>3 DEF ReadUp, RequestsAt
      <4>2. Tabled(s, b)
        BY KeptIs
      <4>3. s.requests[b][s.rec[y].id] = y /\ s.requests[b][r.id] = p
        BY <4>1, <4>2 DEF Tabled
      <4> QED BY <4>1, <4>3
    <3>3. /\ DOMAIN t.requests[c] = DOMAIN x.requests[c] \cup {r.id} /\ t.requests[c][r.id] = p
          /\ \A i \in DOMAIN x.requests[c] : i # r.id => t.requests[c][i] = x.requests[c][i]
      <4>1. t.requests[c] = Put(x.requests[c], r.id, p)
        BY <1>11, <1>15, <2>3
      <4> QED BY <4>1 DEF Put
    <3>4. IsFiniteSet(DOMAIN t.requests[c])
      <4>1. IsFiniteSet(DOMAIN x.requests[c])
        BY <2>1 DEF Tabled
      <4> QED BY <3>3, <4>1, FS_AddElement
    <3>5. \A i \in DOMAIN x.requests[c] : i # r.id
      BY <2>1, <3>2 DEF Tabled
    <3> HIDE DEF r
    <3>6. ASSUME NEW i \in DOMAIN t.requests[c]
          PROVE  t.requests[c][i] \in RequestsAt(t, c) /\ t.rec[t.requests[c][i]].id = i
      <4>1. CASE i = r.id
        BY <3>1, <3>3, <4>1
      <4>2. CASE i # r.id
        <5>1. i \in DOMAIN x.requests[c] /\ t.requests[c][i] = x.requests[c][i]
          BY <3>3, <4>2
        <5>2. x.requests[c][i] \in RequestsAt(x, c) /\ x.rec[x.requests[c][i]].id = i
          BY <2>1, <5>1 DEF Tabled
        <5> QED BY <3>1, <5>1, <5>2
      <4> QED BY <4>1, <4>2
    <3>7. ASSUME NEW y \in RequestsAt(t, c)
          PROVE  t.rec[y].id \in DOMAIN t.requests[c] /\ t.requests[c][t.rec[y].id] = y
      <4>1. CASE y = p
        BY <3>1, <3>3, <4>1
      <4>2. CASE y # p
        <5>1. y \in RequestsAt(x, c) /\ t.rec[y] = x.rec[y] /\ x.rec[y].id # r.id
          BY <3>1, <3>2, <4>2
        <5>2. x.rec[y].id \in DOMAIN x.requests[c] /\ x.requests[c][x.rec[y].id] = y
          BY <2>1, <5>1 DEF Tabled
        <5> QED BY <3>3, <5>1, <5>2
      <4> QED BY <4>1, <4>2
    <3> QED BY <3>4, <3>6, <3>7 DEF Tabled
  <2> QED BY <2>2, <2>3
<1>20. Core(t, Bots)
  BY <1>16, <1>17, <1>18, <1>19 DEF Core
<1>21. \A y \in T \cup {p} :
         /\ s.rec[y].handle # NULL /\ t.rec[y].user = NULL
         /\ t.rec[y].hs = s.rec[y].hs /\ t.rec[y].id = s.rec[y].id /\ t.rec[y].handle = s.rec[y].handle
         /\ t.rec[y].helper = s.rec[y].helper /\ t.rec[y].opened = s.rec[y].opened
  BY <1>1, <1>3, <1>7, <1>8, <1>15 DEF ReadUp
<1>22. ReadUp(n, s, T \cup {p}, t)
  BY <1>1, <1>8, <1>13, <1>15, <1>20, <1>21 DEF ReadUp
<1> QED BY <1>22 DEF t

\* What helpserv_bot_write writes for b.
Lasting(s, b) == {p \in RequestsAt(s, b) : s.opt[b].req = "close" /\ s.rec[p].handle # NULL}

\* helpserv_bot_write writes the requests with an account of a bot that keeps
\* them, each once.
LEMMA WrittenIs ==
  ASSUME NEW n, NEW s, Kept(n, s), NEW b \in Bots
  PROVE  Holds(Written(s, b), Lasting(s, b))
<1>1. CASE s.opt[b].req = "close"
  <2> DEFINE A == {p \in DOMAIN s.rec : s.rec[p].handle # NULL}
  <2>1. Written(s, b) = Only(ById(s, b), A)
    BY <1>1 DEF Written
  <2>2. Holds(ById(s, b), RequestsAt(s, b))
    BY KeptIs
  <2>3. Holds(Only(ById(s, b), A), RequestsAt(s, b) \cap A)
    <3> HIDE DEF A
    <3> QED BY <2>2, HoldsOnly
  <2>4. RequestsAt(s, b) \cap A = Lasting(s, b)
    BY <1>1 DEF RequestsAt, Lasting
  <2> QED BY <2>1, <2>3, <2>4
<1>2. CASE s.opt[b].req # "close"
  <2>1. Written(s, b) = <<>> /\ Lasting(s, b) = {}
    BY <1>2 DEF Written, Lasting
  <2> QED BY <2>1, HoldsNone
<1> QED BY <1>1, <1>2

\* request_read_helper for every request of the bot.
ReadBot(m, s, x, b) == Each(LAMBDA t, p : ReadRequest(m, t, b, p, s.rec[p]), x, Written(s, b))

\* Reading what one bot wrote brings back its requests and changes those of
\* no other.
LEMMA ReadBotKeeps ==
  ASSUME NEW o, NetOk(o), NEW s, Kept(o, s), NEW m, m.name = o.name, NEW T, NEW x, ReadUp(o, s, T, x),
         NEW b \in Bots, T \cap RequestsAt(s, b) = {}
  PROVE  ReadUp(o, s, T \cup Lasting(s, b), ReadBot(m, s, x, b))
<1> DEFINE first == x
           W == Lasting(s, b)
           list == Written(s, b)
           Do(t, p) == ReadRequest(m, t, b, p, s.rec[p])
           Good(i, t) == ReadUp(o, s, T \cup (W \ Rest(list, i)), t)
           n == Len(list)
           good == [i \in 0..n |-> {t \in Tables : Good(i, t)}]
           do == [i \in 1..n |-> [t \in good[i - 1] |-> Do(t, list[i])]]
           Run(f) == f = [i \in 0..Len(list) |-> IF i = 0 THEN first ELSE Do(f[i - 1], list[i])]
           k == CHOOSE f : Run(f)
<1>0. Holds(list, W) /\ \A p \in W : p \in RequestsAt(s, b) /\ s.rec[p].handle # NULL /\ p \notin T
  <2> HIDE DEF list
  <2> QED BY WrittenIs DEF list, Lasting
<1> HIDE DEF W
<1>1. /\ n \in Nat /\ Rest(list, 0) = W /\ Rest(list, n) = {}
      /\ \A i \in 1..n : list[i] \in Rest(list, i - 1) /\ Rest(list, i) = Rest(list, i - 1) \ {list[i]}
      /\ \A i \in 1..n : list[i] \in W
  <2> HIDE DEF list
  <2>1. Len(list) \in Nat /\ \A i \in 1..Len(list) : list[i] \in W
    BY <1>0 DEF Holds
  <2>2. /\ Rest(list, 0) = W /\ Rest(list, Len(list)) = {}
        /\ \A i \in 1..Len(list) : list[i] \in Rest(list, i - 1) /\ Rest(list, i) = Rest(list, i - 1) \ {list[i]}
    <3> HIDE DEF n, good, do, Run, k
    <3> QED BY <1>0, RestIs
  <2> QED BY <2>1, <2>2
<1>2. ASSUME NEW i \in 1..n, NEW t \in good[i - 1] PROVE Do(t, list[i]) \in good[i]
  <2> HIDE DEF list, do, k, Run
  <2>0. i - 1 \in 0..n /\ i \in 0..n
    BY <1>1
  <2>1. Good(i - 1, t)
    BY <2>0
  <2> DEFINE v == Do(t, list[i])
             p == list[i]
             U == T \cup (W \ Rest(list, i - 1))
  <2> HIDE DEF n
  <2>3. p \in RequestsAt(s, b) /\ s.rec[p].handle # NULL /\ p \notin U
    BY <1>0, <1>1
  <2>4. U \cup {p} = T \cup (W \ Rest(list, i))
    BY <1>1
  <2>5. ReadUp(o, s, U, t)
    BY <2>1
  <2> HIDE DEF U, p
  <2>6. ReadUp(o, s, U \cup {p}, v)
    BY <2>3, <2>5, ReadKeeps DEF p
  <2> HIDE DEF v
  <2>7. v \in Tables
    BY <2>6 DEF ReadUp, Core
  <2>8. Good(i, v)
    BY <2>4, <2>6
  <2> HIDE DEF Good
  <2>9. v \in good[i]
    BY <2>0, <2>7, <2>8
  <2> QED BY <2>9 DEF v
<1>3. first \in good[0]
  <2> HIDE DEF list, do, k, Run
  <2>1. x \in Tables /\ 0 \in 0..n
    BY <1>1 DEF ReadUp, Core
  <2>2. T \cup (W \ Rest(list, 0)) = T
    BY <1>1
  <2>3. Good(0, x)
    BY <2>2
  <2> HIDE DEF Good, n
  <2> QED BY <2>1, <2>3
<1>4. \A t \in good[n] : Good(n, t)
  <2>1. n \in 0..n
    BY <1>1
  <2> HIDE DEF n, Good
  <2> QED BY <2>1
<1>5. ReadBot(m, s, x, b) = k[n]
  BY DEF ReadBot, Each
<1>6. \A i \in 1..n : \A t \in good[i - 1] : do[i][t] = Do(t, list[i])
  <2> HIDE DEF good, n, Do
  <2> QED OBVIOUS
<1>7. n = Len(list)
  OBVIOUS
<1> HIDE DEF good, do, n, Do, list
<1>8. Loops(n, good, first, do)
  BY <1>1, <1>2, <1>3, <1>6 DEF Loops
<1>9. PICK r : /\ r = [i \in 0..n |-> IF i = 0 THEN first ELSE do[i][r[i - 1]]]
               /\ \A i \in 1..n : r[i - 1] \in good[i - 1] /\ i \in 0..n /\ i - 1 \in 0..n /\ i # 0
  BY <1>8, LoopRuns
<1>10. Run(r)
  <2>1. \A i \in 0..n : i = 0 \/ i \in 1..n
    BY <1>1
  <2>2. \A i \in 0..n : (IF i = 0 THEN first ELSE do[i][r[i - 1]]) = IF i = 0 THEN first ELSE Do(r[i - 1], list[i])
    BY <1>6, <1>9, <2>1
  <2> QED BY <1>7, <1>9, <2>2
<1> HIDE DEF Run
<1>11. Run(k)
  BY <1>10
<1> HIDE DEF k
<1>12. k[0] \in good[0] /\ \A i \in 1..n : k[i - 1] \in good[i - 1] => k[i] \in good[i]
  <2>1. 0 \in 0..n
    BY <1>1
  <2>2. k[0] = first /\ \A i \in 1..n : k[i] = Do(k[i - 1], list[i])
    BY <1>7, <1>9, <1>11, <2>1 DEF Run
  <2> QED BY <1>2, <1>3, <2>2
<1>13. k[n] \in good[n]
  BY <1>1, <1>12, LoopStays
<1>14. Good(n, ReadBot(m, s, x, b))
  BY <1>4, <1>5, <1>13
<1> HIDE DEF Good
<1>15. ReadUp(o, s, T \cup (W \ Rest(list, n)), ReadBot(m, s, x, b))
  BY <1>14 DEF Good
<1>16. T \cup (W \ Rest(list, n)) = T \cup W
  BY <1>1
<1> QED BY <1>15, <1>16 DEF W

\* What has been read after every bot.
AllLasting(s) == {p \in DOMAIN s.rec : s.opt[s.rec[p].hs].req = "close" /\ s.rec[p].handle # NULL}

ReadAll(m, s, x) == Each(LAMBDA t, b : ReadBot(m, s, t, b), x, SetToSeq(s.up))

\* Reading what every bot wrote brings back every request that was written.
LEMMA ReadAllKeeps ==
  ASSUME NEW o, NetOk(o), NEW s, Kept(o, s), NEW m, m.name = o.name, NEW x, ReadUp(o, s, {}, x)
  PROVE  ReadUp(o, s, AllLasting(s), ReadAll(m, s, x))
<1> DEFINE first == x
           list == SetToSeq(s.up)
           Do(t, b) == ReadBot(m, s, t, b)
           Seen(i) == UNION {Lasting(s, list[j]) : j \in 1..i}
           Good(i, t) == ReadUp(o, s, Seen(i), t)
           n == Len(list)
           good == [i \in 0..n |-> {t \in Tables : Good(i, t)}]
           do == [i \in 1..n |-> [t \in good[i - 1] |-> Do(t, list[i])]]
           Run(f) == f = [i \in 0..Len(list) |-> IF i = 0 THEN first ELSE Do(f[i - 1], list[i])]
           k == CHOOSE f : Run(f)
<1>1. /\ n \in Nat /\ \A i \in 1..n : list[i] \in s.up
      /\ \A b \in s.up : \E i \in 1..n : list[i] = b
      /\ \A i, j \in 1..n : list[i] = list[j] => i = j
  <2>1. IsFiniteSet(s.up)
    BY KeptIs, HelpServAssumption, FS_Subset
  <2> QED BY <2>1, SetIsListed
<1>2. ASSUME NEW i \in 1..n, NEW t \in good[i - 1] PROVE Do(t, list[i]) \in good[i]
  <2> HIDE DEF list, do, k, Run
  <2>0. i - 1 \in 0..n /\ i \in 0..n
    BY <1>1
  <2>1. Good(i - 1, t)
    BY <2>0
  <2> DEFINE v == Do(t, list[i])
             b == list[i]
             U == Seen(i - 1)
  <2> HIDE DEF n
  <2>2. b \in Bots
    BY <1>1, KeptIs
  <2>3. U \cap RequestsAt(s, b) = {}
    <3>1. ASSUME NEW j \in 1..(i - 1) PROVE list[j] # b
      <4>1. j \in 1..n /\ j # i
        BY <1>1
      <4> QED BY <1>1, <4>1
    <3>2. \A j \in 1..(i - 1) : Lasting(s, list[j]) \cap RequestsAt(s, b) = {}
      BY <3>1 DEF Lasting, RequestsAt
    <3> QED BY <3>2
  <2>4. U \cup Lasting(s, b) = Seen(i)
    <3>1. \A j : j \in 1..i <=> j = i \/ j \in 1..(i - 1)
      BY <1>1
    <3> QED BY <3>1
  <2>5. ReadUp(o, s, U, t)
    BY <2>1
  <2> HIDE DEF U, Seen, b
  <2>6. ReadUp(o, s, U \cup Lasting(s, b), v)
    BY <2>2, <2>3, <2>5, ReadBotKeeps DEF b
  <2> HIDE DEF v
  <2>7. v \in Tables
    BY <2>6 DEF ReadUp, Core
  <2>8. Good(i, v)
    BY <2>4, <2>6
  <2> HIDE DEF Good
  <2>9. v \in good[i]
    BY <2>0, <2>7, <2>8
  <2> QED BY <2>9 DEF v
<1>3. first \in good[0]
  <2> HIDE DEF list, do, k, Run
  <2>1. x \in Tables /\ 0 \in 0..n
    BY <1>1 DEF ReadUp, Core
  <2>2. Seen(0) = {}
    OBVIOUS
  <2> HIDE DEF Seen
  <2>3. Good(0, x)
    BY <2>2
  <2> HIDE DEF Good, n
  <2> QED BY <2>1, <2>3
<1>4. \A t \in good[n] : Good(n, t)
  <2>1. n \in 0..n
    BY <1>1
  <2> HIDE DEF n, Good
  <2> QED BY <2>1
<1>5. ReadAll(m, s, x) = k[n]
  BY DEF ReadAll, Each
<1>6. \A i \in 1..n : \A t \in good[i - 1] : do[i][t] = Do(t, list[i])
  <2> HIDE DEF good, n, Do
  <2> QED OBVIOUS
<1>7. n = Len(list)
  OBVIOUS
<1> HIDE DEF good, do, n, Do, list
<1>8. Loops(n, good, first, do)
  BY <1>1, <1>2, <1>3, <1>6 DEF Loops
<1>9. PICK r : /\ r = [i \in 0..n |-> IF i = 0 THEN first ELSE do[i][r[i - 1]]]
               /\ \A i \in 1..n : r[i - 1] \in good[i - 1] /\ i \in 0..n /\ i - 1 \in 0..n /\ i # 0
  BY <1>8, LoopRuns
<1>10. Run(r)
  <2>1. \A i \in 0..n : i = 0 \/ i \in 1..n
    BY <1>1
  <2>2. \A i \in 0..n : (IF i = 0 THEN first ELSE do[i][r[i - 1]]) = IF i = 0 THEN first ELSE Do(r[i - 1], list[i])
    BY <1>6, <1>9, <2>1
  <2> QED BY <1>7, <1>9, <2>2
<1> HIDE DEF Run
<1>11. Run(k)
  BY <1>10
<1> HIDE DEF k
<1>12. k[0] \in good[0] /\ \A i \in 1..n : k[i - 1] \in good[i - 1] => k[i] \in good[i]
  <2>1. 0 \in 0..n
    BY <1>1
  <2>2. k[0] = first /\ \A i \in 1..n : k[i] = Do(k[i - 1], list[i])
    BY <1>7, <1>9, <1>11, <2>1 DEF Run
  <2> QED BY <1>2, <1>3, <2>2
<1>13. k[n] \in good[n]
  BY <1>1, <1>12, LoopStays
<1>14. Good(n, ReadAll(m, s, x))
  BY <1>4, <1>5, <1>13
<1> HIDE DEF Good
<1>15. ReadUp(o, s, Seen(n), ReadAll(m, s, x))
  BY <1>14 DEF Good
<1>16. Seen(n) = AllLasting(s)
  <2>1. \A p \in DOMAIN s.rec : s.rec[p].hs \in s.up
    BY DEF Kept, Filed, Core, Sane
  <2>2. \A p \in AllLasting(s) : p \in Lasting(s, s.rec[p].hs) /\ s.rec[p].hs \in s.up
    BY <2>1 DEF AllLasting, Lasting, RequestsAt
  <2>3. \A i \in 1..n : Lasting(s, list[i]) \subseteq AllLasting(s)
    BY DEF AllLasting, Lasting, RequestsAt
  <2>4. \A p \in AllLasting(s) : \E i \in 1..n : p \in Lasting(s, list[i])
    BY <1>1, <2>2
  <2> QED BY <2>3, <2>4
<1> QED BY <1>15, <1>16

\* The bots before their requests are read.
Begun(m, s) ==
  LET known == {m.name[h] : h \in Handles}
      Still(f) == [x \in DOMAIN f \cap known |-> f[x]] IN
  [s EXCEPT !.rec = <<>>, !.requests = [b \in Bots |-> <<>>],
            !.unhandled = [b \in Bots |-> <<>>], !.bynick = <<>>, !.byhand = <<>>,
            !.staff = [b \in Bots |-> Still(s.staff[b])],
            !.empty = [b \in Bots |-> FALSE],
            !.timer = [b \in Bots |-> IF b \in s.up /\ s.opt[b].interval THEN 1 ELSE 0]]

\* A restart begins with empty tables and reads what was written.
LEMMA BackIs ==
  ASSUME NEW m, NEW s
  PROVE  ReadBack(m, s) = ReadAll(m, s, Begun(m, s))
BY Zenon DEF ReadBack, ReadAll, ReadBot, Begun

\* The same, table by table.
BegunAs(m, s, x) ==
  /\ x \in Tables /\ x.rec = <<>> /\ x.bynick = <<>> /\ x.byhand = <<>>
  /\ x.up = s.up /\ x.made = s.made /\ x.now = s.now
  /\ \A b \in Bots : /\ x.requests[b] = <<>> /\ x.unhandled[b] = <<>>
                     /\ DOMAIN x.staff[b] = DOMAIN s.staff[b] \cap {m.name[h] : h \in Handles}

\* What the tables are when a restart begins to read.
LEMMA BegunIs ==
  ASSUME NEW m, NEW s \in Tables
  PROVE  BegunAs(m, s, Begun(m, s))
<1> DEFINE known == {m.name[h] : h \in Handles}
           Still(f) == [x \in DOMAIN f \cap known |-> f[x]]
           none == <<>>
           r == [b \in Bots |-> none]
           q == [b \in Bots |-> none]
           f == [b \in Bots |-> Still(s.staff[b])]
           e == [b \in Bots |-> FALSE]
           g == [b \in Bots |-> IF b \in s.up /\ s.opt[b].interval THEN 1 ELSE 0]
           x == [s EXCEPT !.rec = none, !.requests = r, !.unhandled = q, !.bynick = none, !.byhand = none,
                          !.staff = f, !.empty = e, !.timer = g]
<1>1. Begun(m, s) = x
  BY Zenon DEF Begun
<1>2. none \in Records /\ none \in Dicts(Nat, Nat) /\ none \in Dicts(Nicks, Seq(Nat)) /\ none \in Dicts(Names, Seq(Nat))
      /\ none \in Seq(Nat)
  <2>1. none \in Records
    BY NothingIn DEF Records
  <2>2. none \in Dicts(Nat, Nat) /\ none \in Dicts(Nicks, Seq(Nat)) /\ none \in Dicts(Names, Seq(Nat))
    BY NothingIn
  <2>3. none \in Seq(Nat)
    OBVIOUS
  <2> QED BY <2>1, <2>2, <2>3
<1>3. ASSUME NEW b \in Bots
      PROVE  Still(s.staff[b]) \in Dicts(Names, HlTrial..HlOwner) /\ DOMAIN Still(s.staff[b]) = DOMAIN s.staff[b] \cap known
  <2> DEFINE w == s.staff[b]
             y == Still(w)
  <2>1. w \in Dicts(Names, HlTrial..HlOwner)
    BY DEF Tables
  <2> HIDE DEF w, known
  <2>2. DOMAIN w \subseteq Names /\ \A z \in DOMAIN w : w[z] \in HlTrial..HlOwner
    BY <2>1, DictIs
  <2>3. DOMAIN y = DOMAIN w \cap known /\ y = [z \in DOMAIN y |-> y[z]] /\ \A z \in DOMAIN y : y[z] \in HlTrial..HlOwner
    BY <2>2
  <2> HIDE DEF y
  <2>4. y \in Dicts(Names, HlTrial..HlOwner)
    BY <2>2, <2>3, DictIs
  <2> QED BY <2>3, <2>4 DEF y, w
<1> HIDE DEF none
<1>4. /\ r \in [Bots -> Dicts(Nat, Nat)] /\ q \in [Bots -> Seq(Nat)] /\ e \in [Bots -> BOOLEAN] /\ g \in [Bots -> Nat]
      /\ \A b \in Bots : r[b] = none /\ q[b] = none
  BY <1>2
<1> HIDE DEF r, q, e, g, Still, known
<1>5. f \in [Bots -> Dicts(Names, HlTrial..HlOwner)] /\ \A b \in Bots : DOMAIN f[b] = DOMAIN s.staff[b] \cap known
  BY <1>3
<1> HIDE DEF f
<1>6. /\ x.rec = none /\ x.bynick = none /\ x.byhand = none
      /\ x.up = s.up /\ x.made = s.made /\ x.now = s.now
      /\ x.requests = r /\ x.unhandled = q /\ x.staff = f
  BY DEF Tables
<1>7. x \in Tables
  BY <1>2, <1>4, <1>5 DEF Tables
<1> HIDE DEF x
<1>8. BegunAs(m, s, x)
  BY <1>4, <1>5, <1>6, <1>7, Zenon DEF BegunAs, none, known
<1> QED BY <1>1, <1>8

\* Nothing has been read then, and the staff is the one of before, as far as
\* its accounts exist.
LEMMA BegunUp ==
  ASSUME NEW n, NEW s, Kept(n, s), NEW m, m.name = n.name
  PROVE  ReadUp(n, s, {}, Begun(m, s))
<1> DEFINE x == Begun(m, s)
           none == <<>>
<1>1. s \in Tables
  BY KeptIs
<1>2. BegunAs(m, s, x)
  BY <1>1, BegunIs
<1> HIDE DEF x
<1>3. /\ x \in Tables /\ x.rec = none /\ x.bynick = none /\ x.byhand = none
      /\ x.up = s.up /\ x.made = s.made /\ x.now = s.now
      /\ \A b \in Bots : /\ x.requests[b] = none /\ x.unhandled[b] = none
                         /\ DOMAIN x.staff[b] = DOMAIN s.staff[b] \cap {n.name[h] : h \in Handles}
  BY <1>2, Zenon DEF BegunAs, none
<1>4. DOMAIN none = {} /\ Holds(none, {}) /\ \A rec : InOrder(none, rec)
  BY NothingIn, HoldsNone
<1>5. Lists(none, ByName(n.name, x.rec))
  <2>1. DOMAIN x.rec = {}
    BY <1>3, <1>4
  <2>2. \A k \in DOMAIN ByName(n.name, x.rec) : ByName(n.name, x.rec)[k] = {}
    BY <2>1 DEF ByName, AtName
  <2> QED BY <2>2, ListsNothing
<1> HIDE DEF none
<1>6. DOMAIN x.rec = {}
  BY <1>3, <1>4
<1>7. \A b \in Bots : InLine(x, b) /\ Tabled(x, b)
  <2> SUFFICES ASSUME NEW b \in Bots PROVE InLine(x, b) /\ Tabled(x, b)
    OBVIOUS
  <2>1. Waiting(x.rec, b) = {} /\ RequestsAt(x, b) = {}
    BY <1>6 DEF Waiting, RequestsAt
  <2>2. InLine(x, b)
    BY <1>3, <1>4, <2>1 DEF InLine
  <2>3. DOMAIN x.requests[b] = {}
    BY <1>3, <1>4
  <2> QED BY <2>1, <2>2, <2>3, FS_EmptySet DEF Tabled
<1>8. Core(x, Bots)
  BY <1>3, <1>6, <1>7 DEF Core, Sane
<1>9. x.bynick = <<>>
  BY <1>3 DEF none
<1>10. ReadUp(n, s, {}, x)
  BY <1>3, <1>5, <1>6, <1>8, <1>9 DEF ReadUp
<1> QED BY <1>10 DEF x

\* What has been read back satisfies the invariant: it belongs to an account,
\* and its helper is staff.
LEMMA ReadUpKept ==
  ASSUME NEW n, NetOk(n), NEW s, Kept(n, s), NEW m, m.name = n.name, NEW T, NEW x, ReadUp(n, s, T, x)
  PROVE  Kept(m, x)
<1>1. Core(x, Bots) /\ x \in Tables /\ DOMAIN x.rec = T /\ x.bynick = <<>> /\ T \subseteq DOMAIN s.rec
  BY DEF ReadUp, Core
<1>2. \A p \in DOMAIN x.rec : /\ p \in DOMAIN s.rec /\ s.rec[p].handle # NULL /\ x.rec[p].user = NULL
                              /\ x.rec[p].hs = s.rec[p].hs /\ x.rec[p].handle = s.rec[p].handle
                              /\ x.rec[p].helper = s.rec[p].helper
  BY DEF ReadUp
<1>3. Tied(m, x.rec)
  BY <1>2 DEF Tied, Kept, Filed
<1>4. Followed(m, x.rec)
  BY <1>2 DEF Followed
<1>5. Lists(x.bynick, ByNick(m.nick, x.rec))
  <2>1. \A k \in DOMAIN ByNick(m.nick, x.rec) : ByNick(m.nick, x.rec)[k] = {}
    BY <1>2 DEF ByNick, AtNick
  <2> QED BY <1>1, <2>1, ListsNothing
<1>6. Lists(x.byhand, ByName(m.name, x.rec))
  BY DEF ReadUp
<1>7. Staffed(m, x)
  <2> SUFFICES ASSUME NEW p \in DOMAIN x.rec, x.rec[p].helper # NULL
               PROVE  Level(m, x, x.rec[p].hs, x.rec[p].helper) > 0
    BY DEF Staffed
  <2>1. n.name[s.rec[p].helper] \in DOMAIN s.staff[s.rec[p].hs]
    BY <1>2, HelperListed
  <2>2. x.rec[p].hs \in Bots /\ x.rec[p].helper \in Handles
    BY <1>1, RequestIs DEF Optional
  <2>3. n.name[x.rec[p].helper] \in DOMAIN x.staff[x.rec[p].hs]
    BY <1>2, <2>1, <2>2 DEF ReadUp
  <2> QED BY <1>1, <2>2, <2>3, LevelIs
<1> QED BY <1>1, <1>3, <1>4, <1>5, <1>6, <1>7 DEF Kept, Filed

\* A restart that loses no account keeps the invariant, and loses no request
\* that was to be kept nor its helper.
LEMMA BackKeeps ==
  ASSUME NEW n, NetOk(n), NEW s, Kept(n, s), NEW m, m.name = n.name
  PROVE  LET t == ReadBack(m, s) IN
         /\ Kept(m, t) /\ t.made = s.made
         /\ \A p \in DOMAIN s.rec : s.rec[p].handle # NULL /\ s.opt[s.rec[p].hs].req = "close" =>
              p \in DOMAIN t.rec /\ t.rec[p].helper = s.rec[p].helper
<1> DEFINE t == ReadBack(m, s)
<1>1. ReadUp(n, s, {}, Begun(m, s))
  BY BegunUp
<1>2. ReadUp(n, s, AllLasting(s), ReadAll(m, s, Begun(m, s)))
  BY <1>1, ReadAllKeeps
<1>3. ReadUp(n, s, AllLasting(s), t)
  BY <1>2, BackIs
<1> HIDE DEF t
<1>4. Kept(m, t)
  BY <1>3, ReadUpKept
<1>5. \A p \in DOMAIN s.rec : s.rec[p].handle # NULL /\ s.opt[s.rec[p].hs].req = "close" =>
        p \in DOMAIN t.rec /\ t.rec[p].helper = s.rec[p].helper
  BY <1>3 DEF ReadUp, AllLasting
<1>6. t.made = s.made
  BY <1>3 DEF ReadUp
<1> QED BY <1>4, <1>5, <1>6 DEF t

-----------------------------------------------------------------------------
(* The inductive invariant, and the theorems.                               *)

\* The inductive invariant. Each index is exact for the requests as they are,
\* not only the lists the properties speak of: free_request takes a request
\* out of the lists its fields name, so every handler must keep lists and
\* fields together; and names and nicks must be unique, who is logged in be
\* online, for the lists of two of them not to mix.
Inv == NetOk(net) /\ Kept(net, hs)

\* The staff of a bot at the start: by name, what is given by account.
LEMMA FirstStaffIs ==
  ASSUME NEW name \in [Handles -> Names], IsInjective(name), NEW given \in [Handles -> Levels \cup {0}]
  PROVE  [n \in {name[h] : h \in {g \in Handles : given[g] # 0}} |-> given[CHOOSE h \in Handles : name[h] = n]]
           \in Dicts(Names, HlTrial..HlOwner)
<1> DEFINE D == {name[h] : h \in {g \in Handles : given[g] # 0}}
           f == [n \in D |-> given[CHOOSE h \in Handles : name[h] = n]]
<1>1. D \subseteq Names
  OBVIOUS
<1>2. ASSUME NEW n \in D PROVE f[n] \in HlTrial..HlOwner
  <2>1. PICK h \in Handles : given[h] # 0 /\ name[h] = n
    OBVIOUS
  <2> DEFINE c == CHOOSE g \in Handles : name[g] = n
  <2>2. c \in Handles /\ name[c] = n
    BY <2>1
  <2>3. c = h
    BY <2>1, <2>2 DEF IsInjective
  <2>4. f[n] = given[c]
    OBVIOUS
  <2> HIDE DEF c, f
  <2>5. given[h] \in Levels
    BY <2>1
  <2> QED BY <2>3, <2>4, <2>5, HelpServAssumption
<1>3. DOMAIN f = D /\ f = [x \in DOMAIN f |-> f[x]]
  OBVIOUS
<1> HIDE DEF f, D
<1>4. f \in Dicts(Names, HlTrial..HlOwner)
  BY <1>1, <1>2, <1>3, DictIs
<1> QED BY <1>4 DEF f, D

\* Without requests the invariant holds.
LEMMA NoneKept ==
  ASSUME NEW n, NEW s \in Tables, s.rec = <<>>, s.bynick = <<>>, s.byhand = <<>>,
         \A b \in Bots : s.requests[b] = <<>> /\ s.unhandled[b] = <<>>
  PROVE  Kept(n, s)
<1> DEFINE none == <<>>
<1>1. DOMAIN none = {} /\ Holds(none, {}) /\ \A rec : InOrder(none, rec)
  BY NothingIn, HoldsNone
<1>2. s.rec = none /\ \A b \in Bots : s.requests[b] = none /\ s.unhandled[b] = none
  OBVIOUS
<1> HIDE DEF none
<1>3. DOMAIN s.rec = {}
  BY <1>1, <1>2
<1>4. \A b \in Bots : InLine(s, b) /\ Tabled(s, b)
  <2> SUFFICES ASSUME NEW b \in Bots PROVE InLine(s, b) /\ Tabled(s, b)
    OBVIOUS
  <2>1. Waiting(s.rec, b) = {} /\ RequestsAt(s, b) = {}
    BY <1>3 DEF Waiting, RequestsAt
  <2>2. InLine(s, b)
    BY <1>1, <1>2, <2>1 DEF InLine
  <2>3. DOMAIN s.requests[b] = {}
    BY <1>1, <1>2
  <2> QED BY <2>1, <2>2, <2>3, FS_EmptySet DEF Tabled
<1>5. Core(s, Bots)
  BY <1>3, <1>4 DEF Core, Sane
<1>6. Lists(s.bynick, ByNick(n.nick, s.rec)) /\ Lists(s.byhand, ByName(n.name, s.rec))
  <2>1. \A k \in DOMAIN ByNick(n.nick, s.rec) : ByNick(n.nick, s.rec)[k] = {}
    BY <1>3 DEF ByNick, AtNick
  <2>2. \A k \in DOMAIN ByName(n.name, s.rec) : ByName(n.name, s.rec)[k] = {}
    BY <1>3 DEF ByName, AtName
  <2> QED BY <2>1, <2>2, ListsNothing
<1>7. Tied(n, s.rec) /\ Followed(n, s.rec) /\ Staffed(n, s)
  BY <1>3 DEF Tied, Followed, Staffed
<1> QED BY <1>5, <1>6, <1>7 DEF Kept, Filed

\* The invariant holds at the start.
LEMMA InitInv == Init => Inv
<1> SUFFICES ASSUME Init PROVE Inv
  OBVIOUS
<1>1. PICK nick \in [Users -> Nicks], name \in [Handles -> Names] :
        /\ IsInjective(nick) /\ IsInjective(name)
        /\ net = [nick |-> nick, name |-> name, acct |-> [u \in Users |-> NULL], on |-> [u \in Users |-> {}]]
  BY DEF Init
<1>2. /\ net.nick = nick /\ net.name = name /\ net \in Nets
      /\ \A u \in Users : net.acct[u] = NULL
  BY <1>1 DEF Nets, Optional
<1>3. NetOk(net)
  BY <1>1, <1>2 DEF NetOk, IsInjective
<1> DEFINE First(staff) == [b \in Bots |->
                             [n \in {net.name[h] : h \in {g \in Handles : staff[b][g] # 0}} |->
                                staff[b][CHOOSE h \in Handles : net.name[h] = n]]]
           none == <<>>
<1>4. PICK opt \in [Bots -> Opts], staff \in [Bots -> [Handles -> Levels \cup {0}]] :
        hs = [rec |-> none, requests |-> [b \in Bots |-> none],
              unhandled |-> [b \in Bots |-> none], bynick |-> none, byhand |-> none,
              staff |-> First(staff),
              last |-> [b \in Bots |-> 0], opt |-> opt,
              empty |-> [b \in Bots |-> FALSE],
              timer |-> [b \in Bots |-> IF opt[b].interval THEN 1 ELSE 0],
              up |-> Bots, made |-> 0, now |-> 0]
  BY Zenon DEF Init
<1>5. \A b \in Bots : First(staff)[b] \in Dicts(Names, HlTrial..HlOwner)
  <2> SUFFICES ASSUME NEW b \in Bots PROVE First(staff)[b] \in Dicts(Names, HlTrial..HlOwner)
    OBVIOUS
  <2> DEFINE given == staff[b]
  <2>1. given \in [Handles -> Levels \cup {0}]
    OBVIOUS
  <2>2. First(staff)[b] = [n \in {net.name[h] : h \in {g \in Handles : given[g] # 0}} |->
                             given[CHOOSE h \in Handles : net.name[h] = n]]
    OBVIOUS
  <2>3. net.name \in [Handles -> Names] /\ IsInjective(net.name)
    BY <1>1, <1>2, Zenon
  <2> HIDE DEF given, First
  <2>4. [n \in {net.name[h] : h \in {g \in Handles : given[g] # 0}} |-> given[CHOOSE h \in Handles : net.name[h] = n]]
          \in Dicts(Names, HlTrial..HlOwner)
    BY <2>1, <2>3, FirstStaffIs, Zenon
  <2> QED BY <2>2, <2>4, Zenon
<1>6. First(staff) \in [Bots -> Dicts(Names, HlTrial..HlOwner)]
  <2> DEFINE f == First(staff)
  <2>1. DOMAIN f = Bots /\ f = [b \in DOMAIN f |-> f[b]] /\ \A b \in Bots : f[b] \in Dicts(Names, HlTrial..HlOwner)
    BY <1>5, Zenon
  <2> HIDE DEF f, First
  <2> QED BY <2>1 DEF f
<1>7. none \in Records /\ none \in Dicts(Nat, Nat) /\ none \in Dicts(Nicks, Seq(Nat)) /\ none \in Dicts(Names, Seq(Nat))
      /\ none \in Seq(Nat)
  <2>1. none \in Records
    BY NothingIn DEF Records
  <2>2. none \in Dicts(Nat, Nat) /\ none \in Dicts(Nicks, Seq(Nat)) /\ none \in Dicts(Names, Seq(Nat))
    BY NothingIn
  <2> QED BY <2>1, <2>2
<1>8. opt \in [Bots -> Options]
  BY HelpServAssumption
<1> HIDE DEF First, none
<1>9. hs \in Tables
  BY <1>4, <1>6, <1>7, <1>8 DEF Tables
<1>10. /\ hs.rec = none /\ hs.bynick = none /\ hs.byhand = none
       /\ \A b \in Bots : hs.requests[b] = none /\ hs.unhandled[b] = none
  BY <1>4
<1>11. Kept(net, hs)
  BY <1>9, <1>10, NoneKept DEF none
<1> QED BY <1>3, <1>11 DEF Inv

\* What the invariant says about the network and the types, in one place.
LEMMA NetIs ==
  ASSUME Inv
  PROVE  /\ NetOk(net) /\ Kept(net, hs) /\ net \in Nets /\ hs \in Tables /\ hs.up \subseteq Bots
         /\ \A u \in Users : net.nick[u] \in Optional(Nicks) /\ net.acct[u] \in Optional(Handles)
                             /\ net.on[u] \subseteq Bots
         /\ \A h \in Handles : net.name[h] \in Optional(Names)
<1>1. NetOk(net) /\ Kept(net, hs)
  BY DEF Inv
<1>2. net \in Nets
  BY <1>1 DEF NetOk
<1>3. hs \in Tables /\ hs.up \subseteq Bots
  BY <1>1, KeptIs
<1> QED BY <1>1, <1>2, <1>3 DEF Nets

\* The invariant is kept by what users do and by what happens to them:
\* arrivals, joins, parts, quits, nicks, logins, messages.
LEMMA UserActInv ==
  ASSUME Inv, NEW u \in Users, UserAct(u)
  PROVE  Inv'
<1> USE NetIs
<1>1. ASSUME Connect(u) PROVE Inv'
  <2>1. PICK nick \in FreeNicks : net' = [net EXCEPT !.nick[u] = nick]
    BY <1>1 DEF Connect
  <2>2. nick \in Nicks /\ \A v \in Users : net.nick[v] # nick
    BY <2>1 DEF FreeNicks
  <2>3. net.nick[u] = NULL /\ hs' = hs
    BY <1>1 DEF Connect, Online
  <2>4. LET m == [net EXCEPT !.nick[u] = nick] IN NetOk(m) /\ Kept(m, hs)
    BY <2>2, <2>3, ConnectKeeps
  <2> QED BY <2>1, <2>3, <2>4, Zenon DEF Inv
<1>2. ASSUME NEW b \in Bots, Join(u, b) PROVE Inv'
  <2> DEFINE m == [net EXCEPT !.on[u] = net.on[u] \cup {b}]
  <2>1. net' = m /\ net.nick[u] # NULL
    BY <1>2, Zenon DEF Join, Online
  <2>2. net.on[u] \cup {b} \in SUBSET Bots
    OBVIOUS
  <2>3. NetOk(m) /\ SameNet(net, m)
    BY <2>2, OnChanges, Zenon
  <2>4. IF b \in hs.up THEN hs' \in HandleJoin(net', hs, u, b) ELSE hs' = hs
    BY <1>2, Zenon DEF Join
  <2> HIDE DEF m
  <2>5. Kept(m, hs) /\ m.nick[u] # NULL
    BY <2>1, <2>3, NetSame DEF SameNet
  <2>6. ASSUME b \in hs.up PROVE \A t \in HandleJoin(m, hs, u, b) : Kept(m, t)
    BY <2>3, <2>5, <2>6, JoinKeeps
  <2>7. Kept(m, hs')
    BY <2>1, <2>4, <2>5, <2>6, Zenon
  <2> QED BY <2>1, <2>3, <2>7, Zenon DEF Inv
<1>3. ASSUME NEW b \in Bots, Part(u, b) PROVE Inv'
  <2> DEFINE l == Leaves(net, hs, u, b)
  <2>1. NetOk(l.n) /\ Kept(l.n, l.s)
    BY LeavesKeeps
  <2>2. net' = l.n /\ hs' = l.s
    BY <1>3, Zenon DEF Part
  <2> HIDE DEF l
  <2> QED BY <2>1, <2>2 DEF Inv
<1>4. ASSUME Quit(u) PROVE Inv'
  <2> DEFINE l == LeaveAll(net, hs, u)
             m == [l.n EXCEPT !.nick[u] = NULL, !.acct[u] = NULL]
  <2>1. NetOk(l.n) /\ SameNet(net, l.n) /\ Kept(l.n, l.s)
    BY LeaveAllKeeps
  <2>2. hs' = HandleQuit(l.n, l.s, u) /\ net' = m /\ net.nick[u] # NULL
    BY <1>4, Zenon DEF Quit, LeaveAll, Online
  <2>3. l.n.nick[u] # NULL
    BY <2>1, <2>2 DEF SameNet
  <2>4. NetOk(m) /\ Kept(m, HandleQuit(l.n, l.s, u))
    <3> HIDE DEF l
    <3> QED BY <2>1, <2>3, QuitKeeps
  <2> HIDE DEF l, m
  <2> QED BY <2>2, <2>4 DEF Inv
<1>5. ASSUME NEW nick \in Nicks, NickChange(u, nick) PROVE Inv'
  <2> DEFINE m == [net EXCEPT !.nick[u] = nick]
  <2>1. net' = m /\ hs' = HandleNickChange(hs, net.nick[u], nick) /\ net.nick[u] # NULL /\ nick \in FreeNicks
    BY <1>5, Zenon DEF NickChange, Online
  <2>2. \A v \in Users : net.nick[v] # nick
    BY <2>1 DEF FreeNicks
  <2>3. NetOk(m) /\ Kept(m, HandleNickChange(hs, net.nick[u], nick))
    BY <2>1, <2>2, NickChangeKeeps
  <2> HIDE DEF m
  <2> QED BY <2>1, <2>3 DEF Inv
<1>6. ASSUME NEW h \in Handles, Auth(u, h) PROVE Inv'
  <2> DEFINE m == [net EXCEPT !.acct[u] = h]
  <2>1. /\ net' = m /\ hs' = HandleAuth(net', hs, u, net.acct[u])
        /\ net.nick[u] # NULL /\ net.name[h] # NULL /\ net.acct[u] # h
    BY <1>6, Zenon DEF Auth, Online, Registered
  <2>2. NetOk(m) /\ Kept(m, HandleAuth(m, hs, u, net.acct[u]))
    BY <2>1, AuthKeeps
  <2> HIDE DEF m
  <2> QED BY <2>1, <2>2 DEF Inv
<1>7. ASSUME NEW b \in Bots, Speak(u, b) PROVE Inv'
  <2>1. b \in hs.up /\ net.nick[u] # NULL /\ hs' \in UserMsg(net, hs, u, b) /\ net' = net
    BY <1>7, Zenon DEF Speak, Online
  <2>2. \A t \in UserMsg(net, hs, u, b) : Kept(net, t)
    BY <2>1, UserMsgKeeps
  <2> QED BY <2>1, <2>2 DEF Inv
<1> QED BY <1>1, <1>2, <1>3, <1>4, <1>5, <1>6, <1>7, Zenon DEF UserAct

\* The invariant is kept by what happens to accounts: registration, renaming,
\* unregistration, merging.
LEMMA AccountActInv ==
  ASSUME Inv, AccountAct
  PROVE  Inv'
<1> USE NetIs
<1>1. ASSUME NEW h \in Handles, NEW name \in Names, Rename(h, name) PROVE Inv'
  <2> DEFINE m == [net EXCEPT !.name[h] = name]
  <2>1. net' = m /\ hs' = HandleRename(hs, net.name[h], name) /\ net.name[h] # NULL /\ name \in FreeNames
    BY <1>1, Zenon DEF Rename, Registered
  <2>2. \A g \in Handles : net.name[g] # name
    BY <2>1 DEF FreeNames
  <2>3. NetOk(m) /\ Kept(m, HandleRename(hs, net.name[h], name))
    BY <2>1, <2>2, RenameKeeps
  <2> HIDE DEF m
  <2> QED BY <2>1, <2>3 DEF Inv
<1>2. ASSUME NEW h \in Handles, NEW name \in Names, Register(h, name) PROVE Inv'
  <2> DEFINE m == [net EXCEPT !.name[h] = name]
  <2>1. net' = m /\ hs' = hs /\ net.name[h] = NULL /\ name \in FreeNames
    BY <1>2, Zenon DEF Register, Registered
  <2>2. \A g \in Handles : net.name[g] # name
    BY <2>1 DEF FreeNames
  <2>3. NetOk(m) /\ Kept(m, hs)
    BY <2>1, <2>2, RegisterKeeps
  <2> HIDE DEF m
  <2> QED BY <2>1, <2>3 DEF Inv
<1>3. ASSUME NEW h \in Handles, NEW actor \in Users \cup {NULL}, Unregister(actor, h) PROVE Inv'
  <2> DEFINE S == Sessions(net, h)
             m == Unregistered(net, h)
  <2>1. net.name[h] # NULL /\ net' = m
    BY <1>3, Zenon DEF Unregister, Registered
  <2>2. PICK session \in IF S = {} THEN {NULL} ELSE S : hs' = HandleUnreg(net, hs, actor, h, session)
    BY <1>3, Zenon DEF Unregister
  <2>3. session \in Optional(Users) /\ (session # NULL => net.acct[session] = h) /\ actor \in Optional(Users)
    BY DEF Sessions, Optional
  <2> HIDE DEF S
  <2>4. NetOk(m) /\ Kept(m, HandleUnreg(net, hs, actor, h, session))
    BY <2>1, <2>3, UnregKeeps
  <2> HIDE DEF m
  <2> QED BY <2>1, <2>2, <2>4 DEF Inv
<1>4. ASSUME NEW to \in Handles, NEW from \in Handles, Merge(to, from) PROVE Inv'
  <2> DEFINE j == Joined(net, to, from)
             m == Unregistered(j, from)
             t == HandleUnreg(j, HandleMerge(net, hs, to, from), NULL, from, NULL)
  <2>1. to # from /\ net.name[to] # NULL /\ net.name[from] # NULL /\ net' = m /\ hs' = t
    BY <1>4, Zenon DEF Merge, Registered, Joined
  <2>2. NetOk(m) /\ Kept(m, t)
    BY <2>1, MergeKeeps
  <2> HIDE DEF m, t
  <2> QED BY <2>1, <2>2 DEF Inv
<1> QED BY <1>1, <1>2, <1>3, <1>4, Zenon DEF AccountAct

\* The invariant is kept by what helpers do: NEXT, PICKUP, REASSIGN, CLOSE.
LEMMA HelperActInv ==
  ASSUME Inv, NEW u \in Users, NEW b \in Bots, HelperAct(u, b)
  PROVE  Inv'
<1> USE NetIs
<1>1. ASSUME NEW v \in Users, NEW p \in RequestsAt(hs, b), NEW actor, StaffOf(v, b), Assign(v, b, p, actor) PROVE Inv'
  <2> DEFINE g == net.acct[v]
             t == Assigned(hs, b, p, g)
  <2>1. Level(net, hs, b, g) > 0
    BY <1>1, Zenon DEF StaffOf
  <2>2. net' = net /\ hs' = t
    BY <1>1, Zenon DEF Assign, Assigned
  <2>3. g \in Handles
    <3>1. g # NULL
      BY <2>1, LevelIs
    <3> QED BY <3>1 DEF Optional
  <2> HIDE DEF g
  <2>4. Kept(net, t)
    BY <2>1, <2>3, AssignKeeps
  <2> HIDE DEF t
  <2> QED BY <2>2, <2>4 DEF Inv
<1>2. ASSUME NextRequest(u, b) PROVE Inv'
  <2>1. hs.unhandled[b] # <<>> /\ StaffOf(u, b) /\ Assign(u, b, Head(hs.unhandled[b]), u)
    BY <1>2, Zenon DEF NextRequest
  <2>2. Head(hs.unhandled[b]) \in RequestsAt(hs, b)
    BY <2>1, HeadWaits
  <2> QED BY <1>1, <2>1, <2>2, Zenon
<1>3. ASSUME NEW p \in Live, Pickup(u, b, p) PROVE Inv'
  <2>1. p \in ToSet(ById(hs, b)) /\ StaffOf(u, b) /\ Assign(u, b, p, u)
    BY <1>3, Zenon DEF Pickup
  <2>2. p \in RequestsAt(hs, b)
    BY <2>1, ByIdNames
  <2> QED BY <1>1, <2>1, <2>2, Zenon
<1>4. ASSUME NEW p \in Live, NEW target \in Users, Reassign(u, b, p, target) PROVE Inv'
  <2>1. p \in ToSet(ById(hs, b)) /\ StaffOf(target, b) /\ Assign(target, b, p, u)
    BY <1>4, Zenon DEF Reassign
  <2>2. p \in RequestsAt(hs, b)
    BY <2>1, ByIdNames
  <2> QED BY <1>1, <2>1, <2>2, Zenon
<1>5. ASSUME NEW p \in Live, Close(u, b, p) PROVE Inv'
  <2>1. hs' = RemoveRequest(net, hs, p) /\ net' = net
    BY <1>5, Zenon DEF Close
  <2>2. p \in DOMAIN hs.rec
    BY DEF Live
  <2>3. Kept(net, RemoveRequest(net, hs, p))
    BY <2>2, RemoveStaysKept
  <2> QED BY <2>1, <2>3 DEF Inv
<1> QED BY <1>2, <1>3, <1>4, <1>5, Zenon DEF HelperAct

\* The invariant is kept by changes of the staff.
LEMMA ManagerActInv ==
  ASSUME Inv, NEW u \in Users \cup {NULL}, NEW b \in Bots, ManagerAct(u, b)
  PROVE  Inv'
<1>0. NetOk(net) /\ Kept(net, hs)
  BY NetIs
<1>1. ASSUME NEW h \in Handles, DelUser(u, b, h) PROVE Inv'
  <2>1. net.name[h] # NULL /\ hs' = FreeUser(net, hs, b, h) /\ net' = net
    BY <1>1, Zenon DEF DelUser, Registered
  <2>2. Kept(net, FreeUser(net, hs, b, h))
    BY <1>0, <2>1, FreeUserKeeps
  <2> QED BY <1>0, <2>1, <2>2 DEF Inv
<1>2. ASSUME NEW h \in Handles, GiveOwnership(u, b, h) PROVE Inv'
  <2> DEFINE level(g) == Level(net, hs, b, g)
             owners == {g \in Handles : Registered(net, g) /\ level(g) = HlOwner}
             old == IF u = NULL THEN owners ELSE {net.acct[u]}
             t == PassedOn(net, hs, b, h, old)
  <2>1. net' = net /\ hs' = t
    BY <1>2, Zenon DEF GiveOwnership, PassedOn
  <2> HIDE DEF old
  <2>2. Kept(net, t)
    BY <1>0, OwnerKeeps
  <2> HIDE DEF t
  <2> QED BY <1>0, <2>1, <2>2 DEF Inv
<1>3. ASSUME NEW h \in Handles, NEW level \in Levels, AddUser(u, b, h, level) PROVE Inv'
  <2>1. /\ net' = net /\ net.name[h] # NULL
        /\ hs' = [hs EXCEPT !.staff[b] = Put(hs.staff[b], net.name[h], level)]
    BY <1>3, Zenon DEF AddUser, Registered
  <2>2. level \in HlTrial..HlOwner
    BY HelpServAssumption
  <2>3. Kept(net, hs')
    BY <1>0, <2>1, <2>2, LevelsChange, Zenon
  <2> QED BY <1>0, <2>1, <2>3 DEF Inv
<1>4. ASSUME NEW h \in Handles, NEW level \in Levels, Clvl(u, b, h, level) PROVE Inv'
  <2>1. /\ net' = net /\ net.name[h] # NULL /\ Level(net, hs, b, h) > 0
        /\ hs' = [hs EXCEPT !.staff[b][net.name[h]] = level]
    BY <1>4, Zenon DEF Clvl, Registered
  <2>2. level \in HlTrial..HlOwner
    BY HelpServAssumption
  <2>3. Kept(net, hs')
    BY <1>0, <2>1, <2>2, LevelsChange, Zenon
  <2> QED BY <1>0, <2>1, <2>3 DEF Inv
<1> QED BY <1>1, <1>2, <1>3, <1>4, Zenon DEF ManagerAct

\* The invariant is kept by settings, the alert, and bots that come and go.
LEMMA BotActInv ==
  ASSUME Inv, NEW b \in Bots, BotAct(b)
  PROVE  Inv'
<1> USE NetIs
<1>0. hs.timer[b] \in Nat
  <2>1. hs.timer \in [Bots -> Nat]
    BY DEF Tables
  <2> QED BY <2>1
<1>1. ASSUME NEW o \in Opts, SetOption(b, o) PROVE Inv'
  <2> DEFINE x == CASE o.interval /\ ~hs.opt[b].interval -> hs.timer[b] + 1
                    [] ~o.interval /\ hs.opt[b].interval -> 0
                    [] o.interval = hs.opt[b].interval -> hs.timer[b]
  <2>1. net' = net /\ hs' = [hs EXCEPT !.opt[b] = o, !.timer[b] = x]
    BY <1>1, Zenon DEF SetOption
  <2>2. o \in Options
    BY HelpServAssumption
  <2>3. x \in Nat
    <3>1. o.interval \in BOOLEAN /\ hs.opt[b].interval \in BOOLEAN
      <4>1. hs.opt \in [Bots -> Options]
        BY DEF Tables
      <4> QED BY <2>2, <4>1 DEF Options
    <3> QED BY <1>0, <3>1
  <2> HIDE DEF x
  <2>4. Kept(net, hs')
    BY <2>1, <2>2, <2>3, OptionKeeps, Zenon
  <2> QED BY <2>1, <2>4 DEF Inv
<1>2. ASSUME EmptyAlert(b) PROVE Inv'
  <2> DEFINE s == [hs EXCEPT !.timer[b] = hs.timer[b] - 1]
             t == RunEmpty(net, s, b)
  <2>1. net' = net /\ hs' = t /\ hs.timer[b] > 0
    BY <1>2, Zenon DEF EmptyAlert
  <2>2. s \in Tables /\ SameRequests(hs, s)
    <3>1. hs.timer[b] - 1 \in Nat
      BY <1>0, <2>1
    <3> QED BY <3>1 DEF Tables, SameRequests
  <2> HIDE DEF s
  <2>3. Kept(net, s)
    BY <2>2, SameKeeps
  <2>4. t \in Tables /\ SameRequests(s, t)
    BY <2>2, AlertIs
  <2> HIDE DEF t
  <2>5. Kept(net, t)
    BY <2>3, <2>4, SameKeeps
  <2> QED BY <2>1, <2>5 DEF Inv
<1>3. ASSUME UnregisterBot(b) PROVE Inv'
  <2> DEFINE t == Emptied(FreeAll(net, hs, b), b, hs.up \ {b})
  <2>1. net' = net /\ hs' = t
    BY <1>3, Zenon DEF UnregisterBot, Emptied, FreeAll
  <2>2. Kept(net, t)
    BY UnregisterBotKeeps
  <2> HIDE DEF t
  <2> QED BY <2>1, <2>2 DEF Inv
<1>4. ASSUME NEW h \in Handles, RegisterBot(b, h) PROVE Inv'
  <2> DEFINE o == [req |-> "part", helper |-> "part", interval |-> FALSE, on_join |-> FALSE]
  <2>1. /\ net' = net /\ net.name[h] # NULL /\ b \notin hs.up
        /\ hs' = [hs EXCEPT !.up = hs.up \cup {b}, !.staff[b] = Put(<<>>, net.name[h], HlOwner), !.opt[b] = o]
    BY <1>4, Zenon DEF RegisterBot, Registered
  <2>2. o \in Options
    BY DEF Options, Persistence
  <2> HIDE DEF o
  <2>3. Kept(net, hs')
    BY <2>1, <2>2, RegisterBotKeeps, Zenon
  <2> QED BY <2>1, <2>3 DEF Inv
<1> QED BY <1>1, <1>2, <1>3, <1>4, Zenon DEF BotAct

\* At a restart nobody is connected and every account has its name.
LEMMA RestartedIs ==
  ASSUME Inv
  PROVE  NetOk(Restarted({})) /\ Restarted({}).name = net.name
<1> DEFINE m == Restarted({})
<1>1. net.name \in [Handles -> Optional(Names)] /\ net \in Nets
  BY NetIs DEF Nets
<1>2. /\ m.nick = [u \in Users |-> NULL] /\ m.acct = [u \in Users |-> NULL] /\ m.on = [u \in Users |-> {}]
      /\ m.name = [h \in Handles |-> net.name[h]] /\ m \in Nets
  <2>1. [h \in Handles |-> IF h \in {} THEN NULL ELSE net.name[h]] = [h \in Handles |-> net.name[h]]
    OBVIOUS
  <2> QED BY <1>1, <2>1 DEF Restarted, Nets, Optional
<1>3. m.name = net.name
  BY <1>1, <1>2
<1> HIDE DEF m
<1>4. NetOk(m)
  BY <1>2, <1>3, NetIs DEF NetOk
<1> QED BY <1>3, <1>4 DEF m

\* The invariant is inductive: every step of users, accounts, staff, bots and
\* timers, and a restart, keeps it.
LEMMA NextInv == Inv /\ [Next]_vars => Inv'
<1> SUFFICES ASSUME Inv, [Next]_vars PROVE Inv'
  OBVIOUS
<1>1. ASSUME NEW u \in Users, UserAct(u) PROVE Inv'
  BY <1>1, UserActInv
<1>2. ASSUME AccountAct PROVE Inv'
  BY <1>2, AccountActInv
<1>3. ASSUME NEW u \in Users, NEW b \in Bots, HelperAct(u, b) PROVE Inv'
  BY <1>3, HelperActInv
<1>4. ASSUME NEW u \in Users \cup {NULL}, NEW b \in Bots, ManagerAct(u, b) PROVE Inv'
  BY <1>4, ManagerActInv
<1>5. ASSUME NEW b \in Bots, BotAct(b) PROVE Inv'
  BY <1>5, BotActInv
<1>6. ASSUME Restart PROVE Inv'
  <2> DEFINE m == Restarted({})
  <2>1. net' = m /\ hs' = ReadBack(net', hs)
    BY <1>6, Zenon DEF Restart
  <2>2. NetOk(m) /\ m.name = net.name
    BY RestartedIs
  <2> HIDE DEF m
  <2>3. Kept(m, ReadBack(m, hs))
    BY <2>2, NetIs, BackKeeps
  <2> QED BY <2>1, <2>2, <2>3 DEF Inv
<1>7. ASSUME UNCHANGED vars PROVE Inv'
  BY <1>7 DEF vars, Inv
<1> QED BY <1>1, <1>2, <1>3, <1>4, <1>5, <1>6, <1>7, Zenon DEF Next

\* Where the invariant holds every request is where it must be, in each list
\* once, and in no other.
LEMMA KeptIsFiled ==
  ASSUME NEW n, NetOk(n), NEW s, Kept(n, s)
  PROVE  FiledExactly(n, s)
<1>1. s \in Tables /\ Tied(n, s.rec)
      /\ Lists(s.bynick, ByNick(n.nick, s.rec)) /\ Lists(s.byhand, ByName(n.name, s.rec))
  BY KeptIs DEF Kept, Filed
<1>2. SUFFICES ASSUME NEW p \in 1..s.made
      PROVE LET live == p \in DOMAIN s.rec
                Once(list, here) == Occurs(list, p) = IF live /\ here THEN 1 ELSE 0 IN
            /\ live => s.rec[p].user # NULL \/ s.rec[p].handle # NULL
            /\ \A b \in Bots :
                 /\ Once(ById(s, b), live /\ s.rec[p].hs = b)
                 /\ Once(s.unhandled[b], live /\ s.rec[p].hs = b /\ s.rec[p].helper = NULL)
            /\ \A k \in Nicks :
                 Once(Listed(s.bynick, k), live /\ s.rec[p].user # NULL /\ n.nick[s.rec[p].user] = k)
            /\ \A k \in Names :
                 Once(Listed(s.byhand, k), live /\ s.rec[p].handle # NULL /\ n.name[s.rec[p].handle] = k)
  BY Zenon DEF FiledExactly
<1>3. p \in DOMAIN s.rec => s.rec[p].user # NULL \/ s.rec[p].handle # NULL
  BY <1>1 DEF Tied
<1>4. ASSUME NEW b \in Bots
      PROVE  /\ Occurs(ById(s, b), p) = IF p \in DOMAIN s.rec /\ s.rec[p].hs = b THEN 1 ELSE 0
             /\ Occurs(s.unhandled[b], p) =
                  IF p \in DOMAIN s.rec /\ s.rec[p].hs = b /\ s.rec[p].helper = NULL THEN 1 ELSE 0
  <2>1. Holds(ById(s, b), RequestsAt(s, b)) /\ Holds(s.unhandled[b], Waiting(s.rec, b))
    BY KeptIs
  <2>2. /\ Occurs(ById(s, b), p) = IF p \in RequestsAt(s, b) THEN 1 ELSE 0
        /\ Occurs(s.unhandled[b], p) = IF p \in Waiting(s.rec, b) THEN 1 ELSE 0
    BY <2>1, OccursOnce
  <2>3. /\ p \in RequestsAt(s, b) <=> p \in DOMAIN s.rec /\ s.rec[p].hs = b
        /\ p \in Waiting(s.rec, b) <=> p \in DOMAIN s.rec /\ s.rec[p].hs = b /\ s.rec[p].helper = NULL
    BY DEF RequestsAt, Waiting
  <2> QED BY <2>2, <2>3, Zenon
<1>5. ASSUME NEW k \in Nicks
      PROVE  Occurs(Listed(s.bynick, k), p) =
               IF p \in DOMAIN s.rec /\ s.rec[p].user # NULL /\ n.nick[s.rec[p].user] = k THEN 1 ELSE 0
  <2>1. Holds(Listed(s.bynick, k), AtNick(n.nick, s.rec, k))
    BY <1>1 DEF Lists, ByNick
  <2>2. Occurs(Listed(s.bynick, k), p) = IF p \in AtNick(n.nick, s.rec, k) THEN 1 ELSE 0
    BY <2>1, OccursOnce
  <2>3. p \in AtNick(n.nick, s.rec, k) <=> p \in DOMAIN s.rec /\ s.rec[p].user # NULL /\ n.nick[s.rec[p].user] = k
    BY DEF AtNick
  <2> QED BY <2>2, <2>3, Zenon
<1>6. ASSUME NEW k \in Names
      PROVE  Occurs(Listed(s.byhand, k), p) =
               IF p \in DOMAIN s.rec /\ s.rec[p].handle # NULL /\ n.name[s.rec[p].handle] = k THEN 1 ELSE 0
  <2>1. Holds(Listed(s.byhand, k), AtName(n.name, s.rec, k))
    BY <1>1 DEF Lists, ByName
  <2>2. Occurs(Listed(s.byhand, k), p) = IF p \in AtName(n.name, s.rec, k) THEN 1 ELSE 0
    BY <2>1, OccursOnce
  <2>3. p \in AtName(n.name, s.rec, k) <=> p \in DOMAIN s.rec /\ s.rec[p].handle # NULL /\ n.name[s.rec[p].handle] = k
    BY DEF AtName
  <2> QED BY <2>2, <2>3, Zenon
<1> QED BY <1>3, <1>4, <1>5, <1>6, Zenon

\* The inductive invariant implies the three properties: of the lists, of the
\* people and of a restart.
LEMMA InvMeans ==
  Inv => QueuesExact /\ RequestsHaveTheirPeople /\ RestartKeepsRequests
<1> SUFFICES ASSUME Inv PROVE QueuesExact /\ RequestsHaveTheirPeople /\ RestartKeepsRequests
  OBVIOUS
<1>1. NetOk(net) /\ Kept(net, hs) /\ hs \in Tables
  BY NetIs
<1>2. RequestsFiledExactly
  BY <1>1, KeptIsFiled DEF RequestsFiledExactly
<1>3. QueueInOrder
  <2> SUFFICES ASSUME NEW b \in Bots, NEW i \in DOMAIN hs.unhandled[b], NEW j \in DOMAIN hs.unhandled[b], i < j
               PROVE  hs.rec[hs.unhandled[b][i]].opened <= hs.rec[hs.unhandled[b][j]].opened
    BY Zenon DEF QueueInOrder
  <2>1. Holds(hs.unhandled[b], Waiting(hs.rec, b)) /\ InOrder(hs.unhandled[b], hs.rec)
    BY <1>1 DEF Kept, Filed, Core, InLine
  <2>2. DOMAIN hs.unhandled[b] = 1..Len(hs.unhandled[b])
    BY <2>1 DEF Holds
  <2> QED BY <2>1, <2>2 DEF InOrder
<1>4. RequestsFollowLogin
  BY <1>1 DEF Kept, Filed, Tied, Followed, RequestsFollowLogin, Live, Online
<1>5. HelpersAreStaff
  BY <1>1, Zenon DEF Kept, Staffed, HelpersAreStaff, Live
<1>6. RestartKeepsRequests
  <2> DEFINE m == Restarted({})
             t == ReadBack(m, hs)
  <2>1. NetOk(m) /\ m.name = net.name
    BY RestartedIs
  <2> HIDE DEF m
  <2>2. /\ Kept(m, t)
        /\ \A p \in DOMAIN hs.rec : hs.rec[p].handle # NULL /\ hs.opt[hs.rec[p].hs].req = "close" =>
             p \in DOMAIN t.rec /\ t.rec[p].helper = hs.rec[p].helper
    BY <1>1, <2>1, BackKeeps
  <2> HIDE DEF t
  <2>3. FiledExactly(m, t)
    BY <2>1, <2>2, KeptIsFiled
  <2> QED BY <2>2, <2>3, Zenon DEF RestartKeepsRequests, Live, m, t
<1> QED BY <1>2, <1>3, <1>4, <1>5, <1>6 DEF QueuesExact, RequestsHaveTheirPeople

\* Whatever users, helpers, accounts and bots do, every request is in its
\* bot's table, in its queue exactly while nobody has taken it, and exactly
\* once in the lists of its nick and its account, no list holds one that was
\* freed, and the queue is in the order of opening: for any number of bots,
\* users and accounts, any bound of ids and any options.
THEOREM QueuesStayExact == Spec => []QueuesExact
<1>1. Inv => QueuesExact
  BY InvMeans
<1> QED BY InitInv, NextInv, <1>1, PTL DEF Spec

\* A request of somebody who is connected always belongs to the account they
\* are logged in to, and who helps with a request is always on the staff of
\* its bot: after any sequence of logins, renames, merges, unregistrations,
\* quits, returns and changes of the staff.
THEOREM RequestsStayWithTheirPeople == Spec => []RequestsHaveTheirPeople
<1>1. Inv => RequestsHaveTheirPeople
  BY InvMeans
<1> QED BY InitInv, NextInv, <1>1, PTL DEF Spec

\* At every moment a restart would lose no request of an account whose bot
\* keeps them, assign each to the helper it had and file it exactly
\* (helpserv_bot_write, request_read_helper).
THEOREM RestartsKeepRequests == Spec => []RestartKeepsRequests
<1>1. Inv => RestartKeepsRequests
  BY InvMeans
<1> QED BY InitInv, NextInv, <1>1, PTL DEF Spec
=============================================================================
