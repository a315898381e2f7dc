------------------------------ MODULE DictKeys ------------------------------
(***************************************************************************)
(* Abstract specification of the dict (hash table) as the set type uses   *)
(* it when a set is dict-encoded: a set of keys.  setTypeAdd replies 1    *)
(* when the key was new, setTypeRemove 1 when it was present,             *)
(* setTypeIsMember 1 when it is present.  How the keys are spread over two *)
(* tables, when they migrate and how far a rehash has got are invisible   *)
(* here; Dict is checked to implement this module.                        *)
(***************************************************************************)
EXTENDS Naturals

CONSTANT Keys

VARIABLES
  keys,   \* the keys the dict holds
  last    \* the last operation: its name, its key and its result

Op(name, k, res) == [op |-> name, key |-> k, res |-> res]

NoOp == Op("", "", 0)

\* A dict is created holding the members of the intset it converts.
Init == keys \in SUBSET Keys /\ last = NoOp

Bit(b) == IF b THEN 1 ELSE 0

Add(k)      == /\ keys' = keys \cup {k}
               /\ last' = Op("add", k, Bit(k \notin keys))
Remove(k)   == /\ keys' = keys \ {k}
               /\ last' = Op("remove", k, Bit(k \in keys))
IsMember(k) == /\ UNCHANGED keys
               /\ last' = Op("ismember", k, Bit(k \in keys))

Next == \E k \in Keys : Add(k) \/ Remove(k) \/ IsMember(k)

Spec == Init /\ [][Next]_<<keys, last>>

====
