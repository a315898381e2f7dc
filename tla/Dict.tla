-------------------------------- MODULE Dict --------------------------------
(***************************************************************************)
(* The dict of dict.h as the set type uses it for a dict-encoded set      *)
(* (setTypeAdd / setTypeRemove / setTypeIsMember in t_set.c), with the    *)
(* dict.c behaviour the design document gives (section 4.1): two tables   *)
(* ht[0] and ht[1], incremental rehashing driven by rehashidx, one rehash *)
(* step piggy-backed on every add, find and delete while no safe iterator *)
(* is held, the periodic dictRehashMilliseconds, safe iterators, and the  *)
(* reverse-binary dictScan cursor.  dict.c is not in the repository.      *)
(*                                                                         *)
(* A table is [size, used, table]; table[i] is the chain of bucket i, a   *)
(* set of keys (the order inside a chain matters to no property: rehash   *)
(* moves a whole chain and scan emits a whole bucket).  Values are left    *)
(* out: a set's dict has none.                                             *)
(***************************************************************************)
EXTENDS Integers, FiniteSets, Bitwise
LOCAL FSX == INSTANCE FiniteSetsExt

CONSTANTS
  Keys,                  \* set members (sds keys of the dict)
  Hash,                  \* [Keys -> 0..2^CursorBits-1]: dictHashKey, low bits
  DICT_HT_INITIAL_SIZE,  \* dict.h: 4
  DictForceResizeRatio,  \* dict_force_resize_ratio (dict.c): 5
  HashtableMinFill,      \* HASHTABLE_MIN_FILL (server.h): 10 percent
  CursorBits,            \* width of the unsigned long scan cursor
  MaxIterators           \* most safe iterators held at once

ASSUME Hash \in [Keys -> 0..(2^CursorBits - 1)]

VARIABLES
  d,          \* the dict: [ht, rehashidx, iterators]
  canResize,  \* dict_can_resize (dictEnableResize / dictDisableResize)
  last,       \* the last set operation and its result (see DictKeys)
  scan        \* a client's SSCAN: cursor, and ghost state for its guarantee

vars == <<d, canResize, last, scan>>

NewHt(size) == [size |-> size, used |-> 0, table |-> [i \in 0..(size - 1) |-> {}]]
EmptyHt     == NewHt(0)   \* _dictReset

\* The bucket of k: dictHashKey(d, k) & sizemask.
Idx(t, k) == Hash[k] & (t.size - 1)

HtKeys(t) == UNION {t.table[i] : i \in DOMAIN t.table}

dictIsRehashing(x) == x.rehashidx # -1
dictSize(x)        == x.ht[0].used + x.ht[1].used
dictSlots(x)       == x.ht[0].size + x.ht[1].size

\* The tables a lookup consults: ht[1] only while rehashing.
Searched(x) == IF dictIsRehashing(x) THEN {0, 1} ELSE {0}

Lookup(x, k) == \E t \in Searched(x) : k \in x.ht[t].table[Idx(x.ht[t], k)]

\* _dictNextPower: the first power of two from DICT_HT_INITIAL_SIZE up.
RECURSIVE NextPowerFrom(_, _)
NextPowerFrom(i, size) == IF i >= size THEN i ELSE NextPowerFrom(2 * i, size)
dictNextPower(size) == NextPowerFrom(DICT_HT_INITIAL_SIZE, size)

\* dictExpand: the first allocation becomes ht[0]; later ones ht[1], and
\* rehashing starts at bucket 0.
dictExpand(x, size) ==
  LET realsize == dictNextPower(size)
  IN CASE dictIsRehashing(x) \/ x.ht[0].used > size -> x
       [] realsize = x.ht[0].size -> x
       [] x.ht[0].size = 0 -> [x EXCEPT !.ht[0] = NewHt(realsize)]
       [] OTHER -> [x EXCEPT !.ht[1] = NewHt(realsize), !.rehashidx = 0]

\* _dictExpandIfNeeded: grow to used*2 once used reaches size, unless
\* resizing is disabled and the load is still under the force ratio.
dictExpandIfNeeded(x) ==
  CASE dictIsRehashing(x) -> x
    [] x.ht[0].size = 0 -> dictExpand(x, DICT_HT_INITIAL_SIZE)
    [] /\ x.ht[0].used >= x.ht[0].size
       /\ canResize \/ x.ht[0].used \div x.ht[0].size > DictForceResizeRatio
       -> dictExpand(x, x.ht[0].used * 2)
    [] OTHER -> x

\* Mutant: the chain rehashed with the sizemask of ht[0].
MoveBucket_oldMask(x) ==
  LET b == x.ht[0].table[x.rehashidx]
  IN [x EXCEPT !.ht[0].table[x.rehashidx] = {},
               !.ht[0].used = @ - Cardinality(b),
               !.ht[1].table = [i \in DOMAIN x.ht[1].table |->
                                  @[i] \cup {k \in b : Idx(x.ht[0], k) = i}],
               !.ht[1].used = @ + Cardinality(b),
               !.rehashidx = @ + 1]

\* Move the chain of bucket rehashidx of ht[0] into ht[1], each key to its
\* bucket of ht[1].
MoveBucket(x) ==
  LET b == x.ht[0].table[x.rehashidx]
  IN [x EXCEPT !.ht[0].table[x.rehashidx] = {},
               !.ht[0].used = @ - Cardinality(b),
               !.ht[1].table = [i \in DOMAIN x.ht[1].table |->
                                  @[i] \cup {k \in b : Idx(x.ht[1], k) = i}],
               !.ht[1].used = @ + Cardinality(b),
               !.rehashidx = @ + 1]

\* The loop of dictRehash: n buckets, giving up after `visits` empty ones.
RECURSIVE RehashLoop(_, _, _)
RehashLoop(x, n, visits) ==
  CASE n = 0 \/ x.ht[0].used = 0 -> [d |-> x, more |-> FALSE]
    [] x.ht[0].table[x.rehashidx] # {} -> RehashLoop(MoveBucket(x), n - 1, visits)
    [] visits = 1 -> [d |-> [x EXCEPT !.rehashidx = @ + 1], more |-> TRUE]
    [] OTHER -> RehashLoop([x EXCEPT !.rehashidx = @ + 1], n, visits - 1)

\* dictRehash(d, n): when ht[0] is drained, ht[1] becomes ht[0] and the
\* rehash ends.
dictRehash(x, n) ==
  IF ~dictIsRehashing(x) THEN x
  ELSE LET r == RehashLoop(x, n, n * 10)
       IN IF ~r.more /\ r.d.ht[0].used = 0
          THEN [r.d EXCEPT !.ht[0] = r.d.ht[1], !.ht[1] = EmptyHt, !.rehashidx = -1]
          ELSE r.d

\* `if (dictIsRehashing(d)) _dictRehashStep(d)` at the head of dictAddRaw,
\* dictFind and dictGenericDelete: one bucket, unless a safe iterator is held.
RehashStep(x) ==
  IF dictIsRehashing(x) /\ x.iterators = 0 THEN dictRehash(x, 1) ELSE x

\* dictAddRaw: the key goes to the head of its chain in ht[1] while
\* rehashing, else in ht[0]; _dictKeyIndex expands first, and finds an
\* existing key in either table.
dictAddRaw(x, k) ==
  LET x1 == dictExpandIfNeeded(RehashStep(x))
      t  == IF dictIsRehashing(x1) THEN 1 ELSE 0
  IN IF Lookup(x1, k) THEN [d |-> x1, added |-> FALSE]
     ELSE [d |-> [x1 EXCEPT !.ht[t].table[Idx(x1.ht[t], k)] = @ \cup {k},
                            !.ht[t].used = @ + 1],
           added |-> TRUE]

\* Mutant: a find that looks in ht[0] only, even while rehashing.
dictFind_ht0Only(x, k) ==
  IF dictSize(x) = 0 THEN [d |-> x, found |-> FALSE]
  ELSE LET x1 == RehashStep(x)
       IN [d |-> x1, found |-> k \in x1.ht[0].table[Idx(x1.ht[0], k)]]

\* Mutant: a find that never takes the piggy-backed rehash step.
dictFind_noStep(x, k) == [d |-> x, found |-> Lookup(x, k)]

\* dictFind: an empty dict answers at once, without a rehash step.
dictFind(x, k) ==
  IF dictSize(x) = 0 THEN [d |-> x, found |-> FALSE]
  ELSE LET x1 == RehashStep(x) IN [d |-> x1, found |-> Lookup(x1, k)]

\* dictGenericDelete: unlinks k from the first table holding it.
dictDelete(x, k) ==
  IF dictSize(x) = 0 THEN [d |-> x, deleted |-> FALSE]
  ELSE LET x1 == RehashStep(x)
           T  == {t \in Searched(x1) : k \in x1.ht[t].table[Idx(x1.ht[t], k)]}
       IN IF T = {} THEN [d |-> x1, deleted |-> FALSE]
          ELSE LET t == CHOOSE t \in T : TRUE
               IN [d |-> [x1 EXCEPT !.ht[t].table[Idx(x1.ht[t], k)] = @ \ {k},
                                    !.ht[t].used = @ - 1],
                   deleted |-> TRUE]

\* htNeedsResize (server.c): the fill of both tables is under the minimum.
htNeedsResize(x) ==
  /\ dictSlots(x) > DICT_HT_INITIAL_SIZE
  /\ (dictSize(x) * 100) \div dictSlots(x) < HashtableMinFill

\* dictResize: shrink (or grow) to the smallest table holding ht[0].used.
dictResize(x) ==
  IF ~canResize \/ dictIsRehashing(x) THEN x
  ELSE dictExpand(x, IF x.ht[0].used < DICT_HT_INITIAL_SIZE
                     THEN DICT_HT_INITIAL_SIZE ELSE x.ht[0].used)

dictCreate == [ht |-> [t \in 0..1 |-> EmptyHt], rehashidx |-> -1, iterators |-> 0]

\* setTypeConvert: a dict pre-sized by dictExpand for the intset's length,
\* then one dictAdd per member (none of them can expand the table).
setTypeConvert(S) ==
  FSX!FoldSet(LAMBDA k, x : dictAddRaw(x, k).d,
              dictExpand(dictCreate, Cardinality(S)), S)

(***************************************************************************)
(* dictScan.  The cursor v is emitted in the (smaller) table, and while    *)
(* rehashing in every bucket of the larger table that expands it; then     *)
(* the bits above the mask are set and the cursor is incremented in        *)
(* reversed bit order, within the CursorBits width of an unsigned long.    *)
(***************************************************************************)
CursorMax == 2^CursorBits - 1
NotMask(m) == CursorMax - m                  \* ~m

RECURSIVE RevAcc(_, _, _)
RevAcc(v, i, acc) == IF i = CursorBits THEN acc
                     ELSE RevAcc(v \div 2, i + 1, 2 * acc + (v % 2))
rev(v) == RevAcc(v, 0, 0)

\* Mutant: a plain forward increment of the cursor.
ScanNext_forward(v, m) == ((v | NotMask(m)) + 1) % (CursorMax + 1)

\* v |= ~m; v = rev(v); v++; v = rev(v);
ScanNext(v, m) == rev((rev(v | NotMask(m)) + 1) % (CursorMax + 1))

\* The do ... while over the buckets of the larger table t1.
RECURSIVE ScanExpansion(_, _, _, _, _)
ScanExpansion(t1, m0, m1, v, acc) ==
  LET emitted == acc \cup t1.table[v & m1]
      v2      == ScanNext(v, m1)
  IN IF (v2 & (m0 ^^ m1)) # 0 THEN ScanExpansion(t1, m0, m1, v2, emitted)
     ELSE [v |-> v2, keys |-> emitted]

dictScan(x, v) ==
  CASE dictSize(x) = 0 -> [v |-> 0, keys |-> {}]
    [] ~dictIsRehashing(x) ->
         LET m0 == x.ht[0].size - 1
         IN [v |-> ScanNext(v, m0), keys |-> x.ht[0].table[v & m0]]
    [] OTHER ->
         LET s  == IF x.ht[0].size > x.ht[1].size THEN 1 ELSE 0
             t0 == x.ht[s]
             t1 == x.ht[1 - s]
             r  == ScanExpansion(t1, t0.size - 1, t1.size - 1, v, {})
         IN [v |-> r.v, keys |-> t0.table[v & (t0.size - 1)] \cup r.keys]

(* The refinement mapping: the abstract dict is the keys of both tables. *)
DictKeysOf == HtKeys(d.ht[0]) \cup HtKeys(d.ht[1])
Abs == INSTANCE DictKeys WITH keys <- DictKeysOf

NoScan == [running |-> FALSE, v |-> 0, visited |-> {}, stable |-> {}]

Init == /\ d \in {setTypeConvert(S) : S \in SUBSET Keys}
        /\ canResize = TRUE
        /\ last = Abs!NoOp
        /\ scan = NoScan

\* setTypeAdd on a dict-encoded set: dictAddRaw, 1 when the key is new.
SetTypeAdd(k) ==
  LET r == dictAddRaw(d, k)
  IN /\ d' = r.d
     /\ last' = Abs!Op("add", k, Abs!Bit(r.added))
     /\ UNCHANGED <<canResize, scan>>

\* setTypeRemove: dictDelete, then a shrink when htNeedsResize.  The scan's
\* ghost `stable` forgets the key: it is no longer present throughout.
SetTypeRemove(k) ==
  LET r == dictDelete(d, k)
  IN /\ d' = IF r.deleted /\ htNeedsResize(r.d) THEN dictResize(r.d) ELSE r.d
     /\ last' = Abs!Op("remove", k, Abs!Bit(r.deleted))
     /\ scan' = [scan EXCEPT !.stable = @ \ {k}]
     /\ UNCHANGED canResize

\* setTypeIsMember: dictFind.
SetTypeIsMember(k) ==
  LET r == dictFind(d, k)
  IN /\ d' = r.d
     /\ last' = Abs!Op("ismember", k, Abs!Bit(r.found))
     /\ UNCHANGED <<canResize, scan>>

\* dictRehashMilliseconds from the server cron: dictRehash(d, 100) until
\* done or out of time (one call migrates every bucket of these tables).
\* Rehashing is suspended while a safe iterator is held.
RehashMilliseconds ==
  /\ dictIsRehashing(d)
  /\ d.iterators = 0
  /\ d' = dictRehash(d, 100)
  /\ UNCHANGED <<canResize, last, scan>>

\* dictNext on a fresh safe iterator counts it in d->iterators;
\* dictReleaseIterator of a started safe iterator uncounts it.
SafeIteratorStart ==
  /\ d.iterators < MaxIterators
  /\ d' = [d EXCEPT !.iterators = @ + 1]
  /\ UNCHANGED <<canResize, last, scan>>

\* Mutants: a release that leaves the iterator counted, and one that
\* uncounts an iterator that was never counted.
dictReleaseIterator_leak ==
  /\ d.iterators > 0
  /\ UNCHANGED <<d, canResize, last, scan>>
dictReleaseIterator_unguarded ==
  /\ d' = [d EXCEPT !.iterators = @ - 1]
  /\ UNCHANGED <<canResize, last, scan>>

dictReleaseIterator ==
  /\ d.iterators > 0
  /\ d' = [d EXCEPT !.iterators = @ - 1]
  /\ UNCHANGED <<canResize, last, scan>>

\* dictEnableResize / dictDisableResize (while a child process runs).
SetResizePolicy(b) == canResize' = b /\ UNCHANGED <<d, last, scan>>

\* One dictScan call of an SSCAN: cursor 0 starts a scan, and the keys
\* present then are the ones it must return.  A returned 0 ends it.
ScanCall ==
  LET v0      == IF scan.running THEN scan.v ELSE 0
      stable0 == IF scan.running THEN scan.stable ELSE DictKeysOf
      seen0   == IF scan.running THEN scan.visited ELSE {}
      r       == dictScan(d, v0)
  IN /\ scan' = [running |-> r.v # 0, v |-> r.v,
                 visited |-> seen0 \cup r.keys, stable |-> stable0]
     /\ UNCHANGED <<d, canResize, last>>

\* The steps that change the dict.
DictNext ==
  \/ \E k \in Keys : SetTypeAdd(k) \/ SetTypeRemove(k) \/ SetTypeIsMember(k)
  \/ RehashMilliseconds
  \/ SafeIteratorStart
  \/ dictReleaseIterator
  \/ \E b \in BOOLEAN : SetResizePolicy(b)

Next == DictNext \/ ScanCall

\* The set type's calls on its dict.
SetOpStep == \E k \in Keys : SetTypeAdd(k) \/ SetTypeRemove(k) \/ SetTypeIsMember(k)

\* The steps the dict of a set key takes: the set type's calls and the
\* resize policy.  Its iterators are unsafe (setTypeInitIterator uses
\* dictGetIterator) and the server cron rehashes only the keyspace dicts,
\* so nothing else migrates its buckets.
SetDictNext == SetOpStep \/ \E b \in BOOLEAN : SetResizePolicy(b)

SetDictSpec == Init /\ [][SetDictNext]_vars

Spec == Init /\ [][Next]_vars

(***************************************************************************)
(* Fairness.  Every command that takes a safe iterator releases it before *)
(* it returns (weak fairness of the release).  The server cron runs       *)
(* between commands, so it keeps finding the iterator count at zero while *)
(* iterators are taken and released: strong fairness of the cron rehash.   *)
(* A scan call changes only `scan`, which no dict step reads, so the      *)
(* liveness of the dict is checked over the dict steps alone.             *)
(***************************************************************************)
FairSpec == /\ Init /\ [][DictNext]_vars
            /\ WF_vars(dictReleaseIterator) /\ SF_vars(RehashMilliseconds)

------------------------------------------------------------------------------
Sizes == {0} \cup {2^i : i \in 0..CursorBits}

TypeOK ==
  /\ \A t \in 0..1 : /\ d.ht[t].size \in Sizes
                    /\ d.ht[t].used \in 0..Cardinality(Keys)
                    /\ d.ht[t].table \in [0..(d.ht[t].size - 1) -> SUBSET Keys]
  /\ d.rehashidx \in -1..(2^CursorBits - 1)
  /\ d.iterators \in 0..MaxIterators
  /\ canResize \in BOOLEAN
  /\ scan \in [running : BOOLEAN, v : 0..CursorMax,
               visited : SUBSET Keys, stable : SUBSET Keys]

\* The representation the dict code relies on (design document, section 3):
\* every key sits in the bucket its hash gives in exactly one table, each
\* `used` counts its table, ht[1] exists only while rehashing, and the
\* buckets of ht[0] below rehashidx have all been migrated.
TablesConsistent ==
  /\ \A t \in 0..1 : \A i \in DOMAIN d.ht[t].table :
        \A k \in d.ht[t].table[i] : Idx(d.ht[t], k) = i
  /\ \A t \in 0..1 : d.ht[t].used = Cardinality(HtKeys(d.ht[t]))
  /\ HtKeys(d.ht[0]) \cap HtKeys(d.ht[1]) = {}
  /\ ~dictIsRehashing(d) => d.ht[1] = EmptyHt
  /\ dictIsRehashing(d) =>
        \A i \in 0..(d.rehashidx - 1) : d.ht[0].table[i] = {}

\* Whatever the tables and the rehash do, adds, removes and membership
\* tests on the dict behave as on a plain set of keys: every key stays
\* findable at every intermediate step of a rehash.
DictKeysRefinement == Abs!Spec

\* The SCAN guarantee (design document, section 4.1): a scan that has
\* returned cursor 0 has visited every key present for its whole duration,
\* however the tables grew, shrank or rehashed between its calls.
ScanGuarantee == ~scan.running => scan.stable \subseteq scan.visited

\* A rehash that has started completes: the cron keeps migrating buckets
\* whenever no safe iterator is held.
RehashCompletes == dictIsRehashing(d) ~> ~dictIsRehashing(d)

\* Without the cron, a set's dict finishes each rehash it starts (ht[0]
\* reaches the size of the ht[1] it was migrating to) as long as clients
\* keep operating on the set, even when the call that finishes one starts
\* the next.  When its last member goes, SREM / SPOP / SMOVE delete the key
\* and the dict with it (t_set.c:334).
ClientDrivenRehashCompletes ==
  []<><<SetOpStep>>_vars =>
     \A s \in Sizes :
        (dictIsRehashing(d) /\ d.ht[1].size = s /\ dictSize(d) > 0)
           ~> (d.ht[0].size = s \/ dictSize(d) = 0)

====
