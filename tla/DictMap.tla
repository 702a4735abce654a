------------------------------- MODULE DictMap --------------------------------
(***************************************************************************)
(* What a dictionary promises: a map from keys to data that frees what it  *)
(* replaces or removes, and iteration in the order of the keys.            *)
(***************************************************************************)
EXTENDS Integers

CONSTANTS Keys, MaxItems, NULL

VARIABLES
  map,    \* key -> item
  freed,  \* items that were freed
  made,   \* how many items were inserted; they are numbered
  it      \* the key an iteration stands at

vars == <<map, freed, made, it>>

Init == map = <<>> /\ freed = {} /\ made = 0 /\ it = NULL

Held(k) == IF k \in DOMAIN map THEN {map[k]} ELSE {}

Insert(k) ==
  /\ made < MaxItems
  /\ map' = [x \in DOMAIN map \cup {k} |-> IF x = k THEN made + 1 ELSE map[x]]
  /\ freed' = freed \cup Held(k) /\ made' = made + 1 /\ UNCHANGED it

\* The entry an iteration stands at is not removed.
Remove(k, dispose) ==
  /\ k \in DOMAIN map /\ k # it
  /\ map' = [x \in DOMAIN map \ {k} |-> map[x]]
  /\ freed' = IF dispose THEN freed \cup Held(k) ELSE freed
  /\ UNCHANGED <<made, it>>

\* An iteration goes to the next key there is now.
Step ==
  LET later == {k \in DOMAIN map : it = NULL \/ k > it} IN
  /\ it' = IF later = {} THEN NULL ELSE CHOOSE k \in later : \A j \in later : k <= j
  /\ UNCHANGED <<map, freed, made>>

Delete == /\ it = NULL /\ map' = <<>> /\ freed' = freed \cup {map[k] : k \in DOMAIN map}
          /\ UNCHANGED <<made, it>>

Next == \/ \E k \in Keys : Insert(k)
        \/ \E k \in Keys, dispose \in BOOLEAN : Remove(k, dispose)
        \/ Step \/ Delete

Spec == Init /\ [][Next]_vars
=============================================================================
