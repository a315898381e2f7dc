------------------------------ MODULE HashType ------------------------------
(***************************************************************************)
(* The hash value type of t_hash.c for one key: a ziplist of field/value  *)
(* pairs while small, converted once and for all to a dict when an entry  *)
(* count or an argument length passes the configured maximum.  Each       *)
(* command is one atomic action (the server is single-threaded and runs   *)
(* a command to completion).  The ziplist is a sequence of <<field,       *)
(* value>> pairs in list order; the dict is its content as a function     *)
(* (its incremental rehashing is modelled in Dict).  Byte strings are     *)
(* model values with a length; integers are held as integers.             *)
(***************************************************************************)
EXTENDS Integers, Sequences, FiniteSets, TLC, Sds
LOCAL SeqX == INSTANCE SequencesExt

CONSTANTS
  Fields, StrValues, StrLen, LongBits, InputValues, IncrValues,
  FloatIncrValues, MaxArgs, FloatBound, NIL,
  FieldLen,                 \* [Fields -> Nat]: byte length of each field name
  HashMaxZiplistEntries,    \* server.hash_max_ziplist_entries
  HashMaxZiplistValue       \* server.hash_max_ziplist_value

ASSUME HashMaxZiplistEntries \in Nat /\ HashMaxZiplistValue \in Nat

VARIABLES
  obj,     \* the robj stored at the key: [encoding, zl, dict]; encoding
           \* "none" when the key does not exist, "panic" once the server
           \* has stopped on a serverPanic / serverAssert
  cmd,     \* the command executed last (see HashMap)
  reply    \* the reply of the last command

vars == <<obj, cmd, reply>>

EmptyDict == [f \in {} |-> NIL]
NoKey     == [encoding |-> "none", zl |-> << >>, dict |-> EmptyDict]

(***************************************************************************)
(* ziplist helpers                                                        *)
(***************************************************************************)
\* ziplistFind(fptr, field, len, 1): index of the pair holding field, or 0.
ZlFind(zl, f) ==
  IF \E i \in DOMAIN zl : zl[i][1] = f
  THEN CHOOSE i \in DOMAIN zl : zl[i][1] = f /\ \A j \in 1..i-1 : zl[j][1] # f
  ELSE 0

\* hashTypeConvertZiplist: iterate the ziplist and dictAdd every pair into a
\* fresh dict; a field already in the dict is "Ziplist corruption detected".
RECURSIVE ZlToDict(_, _)
ZlToDict(zl, d) ==
  IF zl = << >> THEN [ok |-> TRUE, dict |-> d]
  ELSE IF Head(zl)[1] \in DOMAIN d THEN [ok |-> FALSE, dict |-> d]
  ELSE ZlToDict(Tail(zl), (Head(zl)[1] :> Head(zl)[2]) @@ d)

\* Mutant of hashTypeConvert: the ziplist blob is not released when the
\* dict replaces it.
hashTypeConvert_keepZl(o) ==
  LET r == ZlToDict(o.zl, EmptyDict)
  IN IF r.ok THEN [o EXCEPT !.encoding = "ht", !.dict = r.dict]
     ELSE [o EXCEPT !.encoding = "panic"]

hashTypeConvert(o) ==
  LET r == ZlToDict(o.zl, EmptyDict)
  IN IF r.ok THEN [encoding |-> "ht", zl |-> << >>, dict |-> r.dict]
     ELSE [o EXCEPT !.encoding = "panic"]

\* Only string arguments are checked, and only against the value maximum.
hashTypeTryConversion(o, lens) ==
  IF o.encoding = "ziplist" /\ \E l \in lens : l > HashMaxZiplistValue
  THEN hashTypeConvert(o) ELSE o

hashTypeLength(o) ==
  IF o.encoding = "ziplist" THEN Len(o.zl) ELSE Cardinality(DOMAIN o.dict)

\* hashTypeGetValue: the value of f, or NIL.
hashTypeGetValue(o, f) ==
  IF o.encoding = "ziplist"
  THEN IF ZlFind(o.zl, f) = 0 THEN NIL ELSE o.zl[ZlFind(o.zl, f)][2]
  ELSE IF f \in DOMAIN o.dict THEN o.dict[f] ELSE NIL

\* Mutant of hashTypeSet: the ziplist branch pushes the pair without
\* looking the field up first.
hashTypeSet_noFind(o, f, v) ==
  CASE o.encoding = "ziplist" ->
         LET zl == Append(o.zl, <<f, v>>)
             o1 == [o EXCEPT !.zl = zl]
         IN [o |-> IF Len(zl) > HashMaxZiplistEntries THEN hashTypeConvert(o1) ELSE o1,
             update |-> FALSE]
    [] o.encoding = "ht" ->
         [o |-> [o EXCEPT !.dict = (f :> v) @@ o.dict],
          update |-> f \in DOMAIN o.dict]
    [] OTHER -> [o |-> o, update |-> FALSE]

(***************************************************************************)
(* hashTypeSet: replace the value in place or append the pair, then       *)
(* convert when the ziplist holds more than the maximum entries.          *)
(* Returns the new object and the update flag.                            *)
(***************************************************************************)
hashTypeSet(o, f, v) ==
  CASE o.encoding = "ziplist" ->
         LET i  == ZlFind(o.zl, f)
             zl == IF i # 0 THEN [o.zl EXCEPT ![i] = <<f, v>>]
                   ELSE Append(o.zl, <<f, v>>)
             o1 == [o EXCEPT !.zl = zl]
         IN [o |-> IF Len(zl) > HashMaxZiplistEntries THEN hashTypeConvert(o1) ELSE o1,
             update |-> i # 0]
    [] o.encoding = "ht" ->
         [o |-> [o EXCEPT !.dict = (f :> v) @@ o.dict],
          update |-> f \in DOMAIN o.dict]
    [] OTHER -> [o |-> o, update |-> FALSE]

\* hashTypeDelete: excise the pair, or dictDelete (and the dictResize that
\* follows, which leaves the content alone).
hashTypeDelete(o, f) ==
  IF o.encoding = "ziplist"
  THEN LET i == ZlFind(o.zl, f)
       IN [o |-> IF i = 0 THEN o ELSE [o EXCEPT !.zl = SeqX!RemoveAt(o.zl, i)],
           deleted |-> i # 0]
  ELSE [o |-> [o EXCEPT !.dict = [g \in DOMAIN o.dict \ {f} |-> o.dict[g]]],
        deleted |-> f \in DOMAIN o.dict]

(***************************************************************************)
(* Refinement mapping: the content a client sees, whatever the encoding.  *)
(***************************************************************************)
Content(o) ==
  CASE o.encoding = "ziplist" ->
         [f \in {o.zl[i][1] : i \in DOMAIN o.zl} |-> hashTypeGetValue(o, f)]
    [] o.encoding = "ht" -> o.dict
    [] OTHER -> EmptyDict

Abs == INSTANCE HashMap WITH content <- Content(obj)
LLONG_MIN   == Abs!LLONG_MIN
LLONG_MAX   == Abs!LLONG_MAX
ValueLen(v) == Abs!ValueLen(v)
ArgLists(S) == Abs!ArgLists(S)

\* long long arithmetic of the build: two's complement wrap-around.
Wrap(x) == ((x - LLONG_MIN) % (2^LongBits)) + LLONG_MIN

\* hashTypeLookupWriteOrCreate: a missing key gets a new ziplist hash.
LookupWriteOrCreate ==
  IF obj.encoding = "none" THEN [NoKey EXCEPT !.encoding = "ziplist"] ELSE obj

\* string2ll on a stored value: numeric strings inside the long long range.
IsLongLong(v) == v \notin StrValues /\ v \in LLONG_MIN..LLONG_MAX

(***************************************************************************)
(* Commands.  Every action is guarded by the server still running.        *)
(***************************************************************************)
Running == obj.encoding # "panic"

RECURSIVE SetPairs(_, _, _)
SetPairs(o, args, created) ==
  IF args = << >> THEN [o |-> o, created |-> created]
  ELSE LET r == hashTypeSet(o, Head(args)[1], Head(args)[2])
       IN SetPairs(r.o, Tail(args), created + (IF r.update THEN 0 ELSE 1))

\* hsetCommand: create the key, convert if any argument is too long, then
\* set every pair; the reply counts the pairs that created a field.
HSet(args) ==
  LET o == hashTypeTryConversion(LookupWriteOrCreate,
             {FieldLen[args[i][1]] : i \in DOMAIN args} \cup
             {ValueLen(args[i][2]) : i \in DOMAIN args})
      r == SetPairs(o, args, 0)
  IN /\ obj' = r.o
     /\ reply' = Abs!IntReply(r.created)

\* hsetnxCommand: the conversion check runs before the existence check.
HSetNx(f, v) ==
  LET o == hashTypeTryConversion(LookupWriteOrCreate, {FieldLen[f], ValueLen(v)})
  IN IF hashTypeGetValue(o, f) # NIL
     THEN obj' = o /\ reply' = Abs!IntReply(0)
     ELSE obj' = hashTypeSet(o, f, v).o /\ reply' = Abs!IntReply(1)

\* hincrbyCommand: no hashTypeTryConversion; the new value is the decimal
\* string of the sum and is set with HASH_SET_TAKE_VALUE.
HIncrBy(f, incr) ==
  LET o        == LookupWriteOrCreate
      cur      == hashTypeGetValue(o, f)
      oldvalue == IF cur = NIL THEN 0 ELSE cur
  IN CASE cur # NIL /\ ~IsLongLong(cur) ->
            obj' = o /\ reply' = Abs!ErrNotInt
       [] \/ incr < 0 /\ oldvalue < 0 /\ incr < Wrap(LLONG_MIN - oldvalue)
          \/ incr > 0 /\ oldvalue > 0 /\ incr > Wrap(LLONG_MAX - oldvalue) ->
            obj' = o /\ reply' = Abs!ErrOverflow
       [] OTHER ->
            obj' = hashTypeSet(o, f, Wrap(oldvalue + incr)).o
            /\ reply' = Abs!IntReply(Wrap(oldvalue + incr))

\* hincrbyfloatCommand: long double sum, formatted by ld2string in human
\* friendly form (an integral sum prints as its decimal digits), set
\* without a conversion check.  Results beyond FloatBound are not explored.
HIncrByFloat(f, incr) ==
  LET o     == LookupWriteOrCreate
      cur   == hashTypeGetValue(o, f)
      value == IF cur = NIL THEN 0 ELSE cur
  IN IF cur # NIL /\ cur \in StrValues
     THEN obj' = o /\ reply' = Abs!ErrNotFloat
     ELSE /\ value + incr \in -FloatBound..FloatBound
          /\ obj' = hashTypeSet(o, f, value + incr).o
          /\ reply' = Abs!BulkReply(value + incr)

\* Mutant of DelFields: the hash left empty is not removed from the db.
RECURSIVE DelFields_keepEmpty(_, _, _)
DelFields_keepEmpty(o, fs, deleted) ==
  IF fs = << >> THEN [o |-> o, deleted |-> deleted]
  ELSE LET r == hashTypeDelete(o, Head(fs))
       IN DelFields_keepEmpty(r.o, Tail(fs), deleted + (IF r.deleted THEN 1 ELSE 0))

RECURSIVE DelFields(_, _, _)
DelFields(o, fs, deleted) ==
  IF fs = << >> THEN [o |-> o, deleted |-> deleted]
  ELSE LET r == hashTypeDelete(o, Head(fs))
       IN IF r.deleted /\ hashTypeLength(r.o) = 0
          THEN [o |-> NoKey, deleted |-> deleted + 1]
          ELSE DelFields(r.o, Tail(fs), deleted + (IF r.deleted THEN 1 ELSE 0))

\* hdelCommand: delete field by field; the key is removed, and the loop
\* stopped, as soon as the hash is empty.
HDel(fs) ==
  IF obj.encoding = "none"
  THEN reply' = Abs!IntReply(0) /\ UNCHANGED obj
  ELSE LET r == DelFields(obj, fs, 0)
       IN obj' = r.o /\ reply' = Abs!IntReply(r.deleted)

\* Read commands (addHashFieldToReply, hexists, hlen, hstrlen, hgetall).
HGet(f) ==
  /\ reply' = Abs!BulkReply(IF obj.encoding = "none" THEN NIL ELSE hashTypeGetValue(obj, f))
  /\ UNCHANGED obj

HExists(f) ==
  /\ reply' = Abs!IntReply(IF obj.encoding # "none" /\ hashTypeGetValue(obj, f) # NIL THEN 1 ELSE 0)
  /\ UNCHANGED obj

HLen ==
  /\ reply' = Abs!IntReply(IF obj.encoding = "none" THEN 0 ELSE hashTypeLength(obj))
  /\ UNCHANGED obj

\* hashTypeGetValueLength: sdigits10 of an integer held in the ziplist,
\* sdslen of a dict value; 0 for a missing field.
HStrLen(f) ==
  /\ reply' = Abs!IntReply(IF obj.encoding = "none" \/ hashTypeGetValue(obj, f) = NIL THEN 0
                            ELSE ValueLen(hashTypeGetValue(obj, f)))
  /\ UNCHANGED obj

\* hmgetCommand: a missing key is an empty hash, so every field gets a null
\* bulk (addHashFieldToReply with o == NULL) rather than an error.
HMGet(fs) ==
  /\ reply' = Abs!MultiReply([i \in DOMAIN fs |->
                 IF obj.encoding = "none" THEN NIL ELSE hashTypeGetValue(obj, fs[i])])
  /\ UNCHANGED obj

\* The pairs hashTypeNext yields: the ziplist in list order, the dict in
\* the order of its iterator (any order).
Iterated(o) ==
  IF o.encoding = "ziplist" THEN o.zl
  ELSE SeqX!SetToSeq({<<f, o.dict[f]>> : f \in DOMAIN o.dict})

(***************************************************************************)
(* genericHgetallCommand(flags), flags a subset of {"key", "value"}: HKEYS,*)
(* HVALS or HGETALL.  The reply is what the iterator yields for each pair  *)
(* (addHashIteratorCursorToReply); serverAssert(count == length) stops the *)
(* server if the iteration and hashTypeLength * multiplier disagree.       *)
(***************************************************************************)
GenericHgetall(flags) ==
  LET it     == Iterated(obj)
      length == hashTypeLength(obj) * Cardinality(flags)
      count  == Len(it) * Cardinality(flags)
  IN /\ reply' = Abs!MultiReply(
                   CASE flags = {"key"}   -> {it[i][1] : i \in DOMAIN it}
                     [] flags = {"value"} -> Abs!BagOf([i \in DOMAIN it |-> it[i][2]])
                     [] OTHER             -> {it[i] : i \in DOMAIN it})
     /\ obj' = IF obj.encoding = "none" \/ count = length THEN obj
               ELSE [obj EXCEPT !.encoding = "panic"]

Init == obj = NoKey /\ cmd = Abs!Cmd("", << >>, << >>, 0) /\ reply = Abs!NoReply

Next ==
  /\ Running
  /\ \/ \E args \in ArgLists(Fields \X InputValues) :
           cmd' = Abs!Cmd("HSET", << >>, args, 0) /\ HSet(args)
     \/ \E f \in Fields, v \in InputValues :
           cmd' = Abs!Cmd("HSETNX", << >>, <<<<f, v>>>>, 0) /\ HSetNx(f, v)
     \/ \E f \in Fields, i \in IncrValues :
           cmd' = Abs!Cmd("HINCRBY", <<f>>, << >>, i) /\ HIncrBy(f, i)
     \/ \E f \in Fields, i \in FloatIncrValues :
           cmd' = Abs!Cmd("HINCRBYFLOAT", <<f>>, << >>, i) /\ HIncrByFloat(f, i)
     \/ \E fs \in ArgLists(Fields) : cmd' = Abs!Cmd("HDEL", fs, << >>, 0) /\ HDel(fs)
     \/ \E f \in Fields :
           \/ cmd' = Abs!Cmd("HGET", <<f>>, << >>, 0) /\ HGet(f)
           \/ cmd' = Abs!Cmd("HEXISTS", <<f>>, << >>, 0) /\ HExists(f)
           \/ cmd' = Abs!Cmd("HSTRLEN", <<f>>, << >>, 0) /\ HStrLen(f)
     \/ cmd' = Abs!Cmd("HLEN", << >>, << >>, 0) /\ HLen
     \/ \E fs \in ArgLists(Fields) : cmd' = Abs!Cmd("HMGET", fs, << >>, 0) /\ HMGet(fs)
     \/ cmd' = Abs!Cmd("HGETALL", << >>, << >>, 0) /\ GenericHgetall({"key", "value"})
     \/ cmd' = Abs!Cmd("HKEYS", << >>, << >>, 0) /\ GenericHgetall({"key"})
     \/ cmd' = Abs!Cmd("HVALS", << >>, << >>, 0) /\ GenericHgetall({"value"})

Spec == Init /\ [][Next]_vars

(***************************************************************************)
(* Properties                                                             *)
(***************************************************************************)
Values == StrValues \cup (-FloatBound..FloatBound)
TypeOK ==
  /\ obj.encoding \in {"none", "ziplist", "ht", "panic"}
  /\ obj.zl \in Seq(Fields \X Values)
  /\ \E D \in SUBSET Fields : obj.dict \in [D -> Values]
  /\ obj.encoding = "ht" => obj.zl = << >>
  /\ obj.encoding \in {"none", "ziplist"} => obj.dict = EmptyDict
  /\ reply \in [int : {NIL} \cup Int, bulk : {NIL} \cup Values, err : STRING,
                multi : SUBSET (Fields \X Values) \cup SUBSET Fields
                        \cup Seq(Values \cup {NIL})
                        \cup SUBSET (Values \X (1..Cardinality(Fields)))]

\* A key never holds an empty hash: every command that can remove the last
\* field (HDEL) deletes the key, and no other path leaves it empty.
NoEmptyKey == obj.encoding \in {"ziplist", "ht"} => hashTypeLength(obj) > 0

\* Whatever the encoding and whenever the ziplist is converted, the hash
\* commands behave as operations on a plain field -> value map: the same
\* content, the same replies (created/deleted counts, HINCRBY results and
\* overflow errors, HGET/HSTRLEN/HGETALL answers).
HashMapRefinement == Abs!Spec

\* The spec's promotion rule: while a hash is a ziplist it holds at most
\* hash_max_ziplist_entries pairs and no field or value longer than
\* hash_max_ziplist_value bytes.
ZiplistWithinLimits ==
  obj.encoding = "ziplist" =>
    /\ Len(obj.zl) <= HashMaxZiplistEntries
    /\ \A i \in DOMAIN obj.zl :
         /\ FieldLen[obj.zl[i][1]] <= HashMaxZiplistValue
         /\ ValueLen(obj.zl[i][2]) <= HashMaxZiplistValue

====
