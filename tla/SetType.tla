------------------------------ MODULE SetType ------------------------------
(***************************************************************************)
(* The set type of t_set.c over a small keyspace.  A set is an intset      *)
(* (sorted integers) while every member is an integer and there are at     *)
(* most set-max-intset-entries of them, and a dict otherwise; the model    *)
(* keeps each key's encoding and members, and every branch of the          *)
(* commands: the SPOP / SRANDMEMBER strategies, the order in which SINTER  *)
(* and SUNION/SDIFF look their operands up, the SDIFF algorithm choice,   *)
(* and the (unsigned) and -count conversions of the count argument.  The   *)
(* random element functions are a nondeterministic choice.                 *)
(***************************************************************************)
EXTENDS Integers, Sequences, FiniteSets, Bags
LOCAL FSX == INSTANCE FiniteSetsExt

CONSTANTS
  Keys, StrKeys, Members, Counts, MaxArgs, NIL,
  SetMaxIntsetEntries,          \* server.set_max_intset_entries
  SPOP_MOVE_STRATEGY_MUL,       \* #define in t_set.c (5)
  SRANDMEMBER_SUB_STRATEGY_MUL, \* #define in t_set.c (3)
  LongBits,                     \* width of a C long
  UIntBits                      \* width of a C unsigned int

VARIABLES
  db,      \* [Keys -> object]: type, encoding and members of each key
  cmd,     \* the command executed last (see SetKeyspace)
  reply

vars == <<db, cmd, reply>>

NoKey  == [type |-> "none",   enc |-> "none", ms |-> {}]
StrObj == [type |-> "string", enc |-> "raw",  ms |-> {}]

\* isSdsRepresentableAsLongLong: members are integers or model values.
IsInt(v) == v \in Int

createIntsetObject == [type |-> "set", enc |-> "intset", ms |-> {}]
createSetObject    == [type |-> "set", enc |-> "ht",     ms |-> {}]

setTypeCreate(v) == IF IsInt(v) THEN createIntsetObject ELSE createSetObject

setTypeConvert(o) == [o EXCEPT !.enc = "ht"]

setTypeSize(o) == Cardinality(o.ms)

setTypeIsMember(o, v) == (o.enc = "ht" \/ IsInt(v)) /\ v \in o.ms

\* A plausible bug: the intset never converts when it grows too large.
setTypeAdd_noConvert(o, v) ==
  CASE v \in o.ms -> [o |-> o, added |-> FALSE]
    [] o.enc = "ht" \/ IsInt(v) -> [o |-> [o EXCEPT !.ms = @ \cup {v}], added |-> TRUE]
    [] OTHER -> [o |-> [setTypeConvert(o) EXCEPT !.ms = @ \cup {v}], added |-> TRUE]

\* setTypeAdd: an intset takes an integer and converts when it then holds
\* more than set-max-intset-entries; a non-integer converts it first.
setTypeAdd(o, v) ==
  LET grown == [o EXCEPT !.ms = @ \cup {v}]
  IN CASE v \in o.ms -> [o |-> o, added |-> FALSE]
       [] o.enc = "ht" -> [o |-> grown, added |-> TRUE]
       [] IsInt(v) -> [o |-> IF setTypeSize(grown) > SetMaxIntsetEntries
                             THEN setTypeConvert(grown) ELSE grown,
                       added |-> TRUE]
       [] OTHER -> [o |-> [setTypeConvert(o) EXCEPT !.ms = @ \cup {v}], added |-> TRUE]

setTypeRemove(o, v) ==
  [o |-> [o EXCEPT !.ms = @ \ {v}], removed |-> setTypeIsMember(o, v)]

\* Add every member of the set S, in some order (the result does not
\* depend on it: conversion only ever goes from intset to dict).
AddAll(o, S) == FSX!FoldSet(LAMBDA v, acc : setTypeAdd(acc, v).o, o, S)

\* The key is deleted when its set became empty.
DeleteIfEmpty_keep(o) == o
DeleteIfEmpty_typeOnly(o) ==
  IF o.type = "set" /\ setTypeSize(o) = 0 THEN [o EXCEPT !.type = "none"] ELSE o
DeleteIfEmpty(o) == IF o.type = "set" /\ setTypeSize(o) = 0 THEN NoKey ELSE o

(* The refinement mapping: the abstract keyspace forgets the encodings.   *)
SetsOf == [k \in Keys |-> IF db[k].type = "set" THEN db[k].ms ELSE {}]
StrsOf == {k \in Keys : db[k].type = "string"}
Abs == INSTANCE SetKeyspace WITH sets <- SetsOf, strs <- StrsOf, StrictTypeCheck <- FALSE

IntReply(n)   == Abs!IntReply(n)
BulkReply(v)  == Abs!BulkReply(v)
MultiReply(B) == Abs!MultiReply(B)
EmptyMulti    == Abs!EmptyMulti
WrongType     == Abs!WrongType
SetArgLists(S) == Abs!SetArgLists(S)
Cmd(op, keys, ms, n) == Abs!Cmd(op, keys, ms, n)

Type(k) == db[k].type

\* checkType failing on a present key of another type.
Err == reply' = WrongType /\ UNCHANGED db

\* The saddCommand loop over argv[2..].
RECURSIVE AddSeq(_, _, _)
AddSeq(o, ms, added) ==
  IF ms = << >> THEN [o |-> o, added |-> added]
  ELSE LET r == setTypeAdd(o, Head(ms))
       IN AddSeq(r.o, Tail(ms), added + (IF r.added THEN 1 ELSE 0))

\* The sremCommand loop, which stops at the member that empties the set.
RECURSIVE RemSeq(_, _, _)
RemSeq(o, ms, deleted) ==
  IF ms = << >> THEN [o |-> o, deleted |-> deleted]
  ELSE LET r == setTypeRemove(o, Head(ms))
           d == deleted + (IF r.removed THEN 1 ELSE 0)
       IN IF r.removed /\ setTypeSize(r.o) = 0 THEN [o |-> r.o, deleted |-> d]
          ELSE RemSeq(r.o, Tail(ms), d)

SAdd(k, ms) ==
  IF Type(k) = "string" THEN Err
  ELSE LET set == IF Type(k) = "none" THEN setTypeCreate(ms[1]) ELSE db[k]
           r   == AddSeq(set, ms, 0)
       IN db' = [db EXCEPT ![k] = r.o] /\ reply' = IntReply(r.added)

SRem(k, ms) ==
  CASE Type(k) = "none" -> reply' = IntReply(0) /\ UNCHANGED db
    [] Type(k) # "set"  -> Err
    [] OTHER -> LET r == RemSeq(db[k], ms, 0)
                IN /\ db' = [db EXCEPT ![k] = DeleteIfEmpty(r.o)]
                   /\ reply' = IntReply(r.deleted)

SMove(src, dst, m) ==
  LET rm == setTypeRemove(db[src], m)
      db1 == [db EXCEPT ![src] = DeleteIfEmpty(rm.o)]
      dstset == IF Type(dst) = "none" THEN setTypeCreate(m) ELSE db[dst]
  IN CASE Type(src) = "none" -> reply' = IntReply(0) /\ UNCHANGED db
       [] Type(src) # "set" \/ Type(dst) = "string" -> Err
       [] src = dst -> reply' = IntReply(IF setTypeIsMember(db[src], m) THEN 1 ELSE 0)
                       /\ UNCHANGED db
       [] ~rm.removed -> reply' = IntReply(0) /\ UNCHANGED db
       [] OTHER -> /\ db' = [db1 EXCEPT ![dst] = setTypeAdd(dstset, m).o]
                   /\ reply' = IntReply(1)

\* SISMEMBER and SCARD: lookupKeyReadOrReply(czero), then checkType.
SIsMember(k, m) ==
  /\ CASE Type(k) = "none" -> reply' = IntReply(0)
       [] Type(k) # "set" -> reply' = WrongType
       [] OTHER -> reply' = IntReply(IF setTypeIsMember(db[k], m) THEN 1 ELSE 0)
  /\ UNCHANGED db

SCard(k) ==
  /\ CASE Type(k) = "none" -> reply' = IntReply(0)
       [] Type(k) # "set" -> reply' = WrongType
       [] OTHER -> reply' = IntReply(setTypeSize(db[k]))
  /\ UNCHANGED db

\* SPOP key: setTypeRandomElement picks any member.
SPop(k) ==
  CASE Type(k) = "none" -> reply' = Abs!NoReply /\ UNCHANGED db
    [] Type(k) # "set" -> Err
    [] OTHER -> \E m \in db[k].ms :
                  /\ db' = [db EXCEPT ![k] = DeleteIfEmpty(setTypeRemove(db[k], m).o)]
                  /\ reply' = BulkReply(m)

SRandMember(k) ==
  /\ CASE Type(k) = "none" -> reply' = Abs!NoReply
       [] Type(k) # "set" -> reply' = WrongType
       [] OTHER -> \E m \in db[k].ms : reply' = BulkReply(m)
  /\ UNCHANGED db

\* A long read into an unsigned int / unsigned long (two's complement).
ToUnsigned(l)  == l % (2^UIntBits)
ToULong(l)     == l % (2^LongBits)

\* Mutant: case 3 adds each survivor to the new set but never removes it
\* from the old one, so the reply lists the whole set.
SPopCount_keepSurvivors(k, l) ==
  LET count     == ToUnsigned(l)
      set       == db[k]
      size      == setTypeSize(set)
      remaining == size - count
  IN CASE l < 0 -> reply' = Abs!OutOfRange /\ UNCHANGED db
       [] Type(k) = "none" -> reply' = EmptyMulti /\ UNCHANGED db
       [] Type(k) # "set" -> Err
       [] count = 0 -> reply' = EmptyMulti /\ UNCHANGED db
       [] count >= size -> /\ db' = [db EXCEPT ![k] = NoKey]
                           /\ reply' = MultiReply(SetToBag(set.ms))
       [] remaining * SPOP_MOVE_STRATEGY_MUL > count ->
            \E R \in FSX!kSubset(count, set.ms) :
               /\ db' = [db EXCEPT ![k] = [set EXCEPT !.ms = @ \ R]]
               /\ reply' = MultiReply(SetToBag(R))
       [] OTHER ->
            \E keep \in FSX!kSubset(remaining, set.ms) : \E first \in keep :
               /\ db' = [db EXCEPT ![k] = AddAll(setTypeCreate(first), keep)]
               /\ reply' = MultiReply(SetToBag(set.ms))

(***************************************************************************)
(* spopWithCountCommand.  Case 1 (count >= size) replies the whole set and *)
(* deletes the key; case 2 removes count random members one by one; case 3 *)
(* draws the `remaining` survivors into a new set built by setTypeCreate / *)
(* setTypeAdd (from the first survivor drawn) and dbOverwrites the key.    *)
(***************************************************************************)
SPopCount(k, l) ==
  LET count     == ToUnsigned(l)
      set       == db[k]
      size      == setTypeSize(set)
      remaining == size - count
  IN CASE l < 0 -> reply' = Abs!OutOfRange /\ UNCHANGED db
       [] Type(k) = "none" -> reply' = EmptyMulti /\ UNCHANGED db
       [] Type(k) # "set" -> Err
       [] count = 0 -> reply' = EmptyMulti /\ UNCHANGED db
       [] count >= size -> /\ db' = [db EXCEPT ![k] = NoKey]
                           /\ reply' = MultiReply(SetToBag(set.ms))
       [] remaining * SPOP_MOVE_STRATEGY_MUL > count ->
            \E R \in FSX!kSubset(count, set.ms) :
               /\ db' = [db EXCEPT ![k] = [set EXCEPT !.ms = @ \ R]]
               /\ reply' = MultiReply(SetToBag(R))
       [] OTHER ->
            \E keep \in FSX!kSubset(remaining, set.ms) : \E first \in keep :
               /\ db' = [db EXCEPT ![k] = AddAll(setTypeCreate(first), keep)]
               /\ reply' = MultiReply(SetToBag(set.ms \ keep))

(***************************************************************************)
(* srandmemberWithCountCommand.  A negative count is negated (-LONG_MIN    *)
(* wraps) and allows repetitions; otherwise the reply is the whole set     *)
(* when count >= size, and count distinct members else (case 3 removes    *)
(* random members from a copy, case 4 adds random members to an empty     *)
(* dict; both give any count-subset).                                      *)
(***************************************************************************)
SRandMemberCount(k, l) ==
  LET uniq  == l >= 0
      count == IF uniq THEN ToUnsigned(l) ELSE ToULong(-l)
      set   == db[k]
      size  == setTypeSize(set)
  IN /\ CASE Type(k) = "none" -> reply' = EmptyMulti
          [] Type(k) # "set" -> reply' = WrongType
          [] count = 0 -> reply' = EmptyMulti
          [] ~uniq -> \E draws \in [1..count -> set.ms] :
                        reply' = MultiReply(Abs!BagOfSeq(draws))
          [] count >= size -> reply' = MultiReply(SetToBag(set.ms))
          [] count * SRANDMEMBER_SUB_STRATEGY_MUL > size ->
               \E R \in FSX!kSubset(count, set.ms) : reply' = MultiReply(SetToBag(R))
          [] OTHER ->
               \E R \in FSX!kSubset(count, set.ms) : reply' = MultiReply(SetToBag(R))
     /\ UNCHANGED db

\* Store the result object at dstkey: dbDelete, then dbAdd if non-empty.
StoreResult(dst, dstset) ==
  /\ db' = [db EXCEPT ![dst] = IF setTypeSize(dstset) > 0 THEN dstset ELSE NoKey]
  /\ reply' = IntReply(setTypeSize(dstset))

\* A plausible bug: a missing operand replies 0 but leaves dstkey alone.
SInter_keepDst(dst, keys) ==
  LET bad == {j \in DOMAIN keys : Type(keys[j]) # "set"}
      S(j) == db[keys[j]]
  IN CASE bad # {} /\ Type(keys[FSX!Min(bad)]) = "none" ->
            reply' = (IF dst = NIL THEN EmptyMulti ELSE IntReply(0)) /\ UNCHANGED db
       [] bad # {} -> Err
       [] OTHER ->
            \E first \in DOMAIN keys :
              /\ \A j \in DOMAIN keys : setTypeSize(S(first)) <= setTypeSize(S(j))
              /\ LET R == {m \in S(first).ms : \A j \in DOMAIN keys :
                             keys[j] = keys[first] \/ setTypeIsMember(S(j), m)}
                 IN IF dst = NIL THEN reply' = MultiReply(SetToBag(R)) /\ UNCHANGED db
                    ELSE StoreResult(dst, AddAll(createIntsetObject, R))

(***************************************************************************)
(* sinterGenericCommand.  The operands are looked up in order; the first  *)
(* missing one ends the command with an empty result (deleting dstkey),   *)
(* the first one of another type with WRONGTYPE.  qsort puts a smallest   *)
(* set first; its members are probed in every other operand, skipping     *)
(* operands that are the same object (sets[j] == sets[0]).                *)
(***************************************************************************)
SInter(dst, keys) ==
  LET bad == {j \in DOMAIN keys : Type(keys[j]) # "set"}
      S(j) == db[keys[j]]
  IN CASE bad # {} /\ Type(keys[FSX!Min(bad)]) = "none" ->
            IF dst = NIL THEN reply' = EmptyMulti /\ UNCHANGED db
            ELSE StoreResult(dst, createIntsetObject)
       [] bad # {} -> Err
       [] OTHER ->
            \E first \in DOMAIN keys :
              /\ \A j \in DOMAIN keys : setTypeSize(S(first)) <= setTypeSize(S(j))
              /\ LET R == {m \in S(first).ms : \A j \in DOMAIN keys :
                             keys[j] = keys[first] \/ setTypeIsMember(S(j), m)}
                 IN IF dst = NIL THEN reply' = MultiReply(SetToBag(R)) /\ UNCHANGED db
                    ELSE StoreResult(dst, AddAll(createIntsetObject, R))

SET_OP_UNION == Abs!SET_OP_UNION
SET_OP_DIFF  == Abs!SET_OP_DIFF

\* setTypeRemove of every member of S.
RemAll(o, S) == FSX!FoldSet(LAMBDA v, acc : setTypeRemove(acc, v).o, o, S)

\* DIFF algorithm 2: add the first set's members, remove those of every
\* later existing operand, and stop as soon as the result is empty.
RECURSIVE DiffAlgo2(_, _, _)
DiffAlgo2(o, keys, j) ==
  IF j > Len(keys) THEN o
  ELSE IF Type(keys[j]) # "set" THEN DiffAlgo2(o, keys, j + 1)
  ELSE LET o2 == IF j = 1 THEN AddAll(o, db[keys[1]].ms) ELSE RemAll(o, db[keys[j]].ms)
       IN IF setTypeSize(o2) = 0 THEN o2 ELSE DiffAlgo2(o2, keys, j + 1)

(***************************************************************************)
(* sunionDiffGenericCommand.  Missing operands are empty sets and any     *)
(* operand of another type is WRONGTYPE.  For SDIFF with an existing first *)
(* set the algorithm is chosen by algo_one_work / 2 <= algo_two_work;     *)
(* algorithm 1 keeps a member of the first set when no other existing     *)
(* operand has it and stops at an operand that is the first set itself.   *)
(***************************************************************************)
SUnionDiff(op, dst, keys) ==
  LET present   == {j \in DOMAIN keys : Type(keys[j]) = "set"}
      S(j)      == db[keys[j]]
      size(j)   == setTypeSize(S(j))
      algo_one_work == (Cardinality(present) * size(1)) \div 2
      algo_two_work == FSX!MapThenFoldSet(+, 0, size, LAMBDA X : CHOOSE x \in X : TRUE, present)
      diff_algo == IF algo_one_work <= algo_two_work THEN 1 ELSE 2
      algo1 == {m \in S(1).ms :
                  \A j \in 2..Len(keys) :
                    j \notin present \/ (keys[j] # keys[1] /\ ~setTypeIsMember(S(j), m))}
      dstset ==
        CASE op = SET_OP_UNION ->
               AddAll(createIntsetObject, UNION {S(j).ms : j \in present})
          [] 1 \notin present -> createIntsetObject
          [] diff_algo = 1 -> AddAll(createIntsetObject, algo1)
          [] OTHER -> DiffAlgo2(createIntsetObject, keys, 1)
  IN CASE \E j \in DOMAIN keys : Type(keys[j]) = "string" -> Err
       [] dst = NIL -> reply' = MultiReply(SetToBag(dstset.ms)) /\ UNCHANGED db
       [] OTHER -> StoreResult(dst, dstset)

Init == /\ db = [k \in Keys |-> IF k \in StrKeys THEN StrObj ELSE NoKey]
        /\ cmd = Cmd("", << >>, << >>, 0)
        /\ reply = Abs!NoReply

Next ==
  \/ \E k \in Keys, ms \in Abs!MemberLists :
        \/ cmd' = Cmd("SADD", <<k>>, ms, 0) /\ SAdd(k, ms)
        \/ cmd' = Cmd("SREM", <<k>>, ms, 0) /\ SRem(k, ms)
  \/ \E src, dst \in Keys, m \in Members :
        cmd' = Cmd("SMOVE", <<src, dst>>, <<m>>, 0) /\ SMove(src, dst, m)
  \/ \E k \in Keys, m \in Members :
        cmd' = Cmd("SISMEMBER", <<k>>, <<m>>, 0) /\ SIsMember(k, m)
  \/ \E k \in Keys :
        \/ cmd' = Cmd("SCARD", <<k>>, << >>, 0) /\ SCard(k)
        \/ cmd' = Cmd("SPOP", <<k>>, << >>, 0) /\ SPop(k)
        \/ cmd' = Cmd("SRANDMEMBER", <<k>>, << >>, 0) /\ SRandMember(k)
  \/ \E k \in Keys, l \in Counts :
        \/ cmd' = Cmd("SPOP", <<k>>, << >>, l) /\ SPopCount(k, l)
        \/ cmd' = Cmd("SRANDMEMBER", <<k>>, << >>, l) /\ SRandMemberCount(k, l)
  \/ \E dst \in Keys \cup {NIL}, keys \in Abs!KeyLists :
        \/ cmd' = Cmd(Abs!SET_OP_INTER, <<dst>> \o keys, << >>, 0) /\ SInter(dst, keys)
        \/ \E op \in {SET_OP_UNION, SET_OP_DIFF} :
              cmd' = Cmd(op, <<dst>> \o keys, << >>, 0) /\ SUnionDiff(op, dst, keys)

Spec == Init /\ [][Next]_vars

-----------------------------------------------------------------------------
TypeOK ==
  /\ db \in [Keys -> [type : {"none", "set", "string"},
                       enc : {"none", "raw", "intset", "ht"},
                       ms : SUBSET Members]]
  /\ \A k \in Keys : (Type(k) = "set") <=> (db[k].enc \in {"intset", "ht"})
  /\ \A k \in Keys : Type(k) # "set" => db[k].ms = {}

\* No key holds an empty set: every command that removes members (SREM,
\* SMOVE, SPOP, the STOREs) deletes the key when its set becomes empty.
NoEmptySets == \A k \in Keys : Type(k) = "set" => db[k].ms # {}

\* An intset holds only integers and never more than set-max-intset-entries
\* of them, whichever command (SADD, SMOVE, a STORE, SPOP's new set) built it.
IntsetOK ==
  \A k \in Keys : db[k].enc = "intset" =>
     /\ \A m \in db[k].ms : IsInt(m)
     /\ setTypeSize(db[k]) <= SetMaxIntsetEntries

\* Every command, with whatever encodings, strategy and algorithm the code
\* picks, gives the reply and the keyspace the abstract SetKeyspace allows.
SetKeyspaceRefinement == Abs!Spec

\* The design document (section 7) says a multi-operand set operation
\* validates the types of all its operands before any mutation, so that a
\* WRONGTYPE operand never lets SINTERSTORE / SUNIONSTORE / SDIFFSTORE
\* touch the destination: the abstract keyspace with StrictTypeCheck.
Strict == INSTANCE SetKeyspace WITH sets <- SetsOf, strs <- StrsOf, StrictTypeCheck <- TRUE
StrictTypeCheckRefinement == Strict!Spec

====
