------------------------------ MODULE HashMap ------------------------------
(***************************************************************************)
(* Abstract specification of one hash-typed key: what the hash commands   *)
(* promise to a client, with no notion of encoding.  The key's content is *)
(* a partial function from fields to values; the key exists exactly when  *)
(* that function is non-empty.  HashType (the ziplist / dict dual          *)
(* encoding of t_hash.c) is checked to implement this module.              *)
(***************************************************************************)
EXTENDS Integers, Sequences, FiniteSets, TLC, Sds

CONSTANTS
  Fields,          \* field names (model values)
  StrValues,       \* non-numeric value strings (model values)
  StrLen,          \* [StrValues -> Nat]: byte length of each string value
  LongBits,        \* width of a C long long in the model
  InputValues,     \* values a client passes to HSET / HSETNX
  IncrValues,      \* increments a client passes to HINCRBY
  FloatIncrValues, \* increments a client passes to HINCRBYFLOAT
  MaxArgs,         \* most field/value pairs (or fields) in one command
  FloatBound,      \* the model explores float results up to this magnitude
  NIL              \* "no value" / null bulk reply

LLONG_MIN == -(2^(LongBits - 1))
LLONG_MAX == 2^(LongBits - 1) - 1

\* Byte length of a value: integers are held as their decimal string.
ValueLen(v) == IF v \in StrValues THEN StrLen[v] ELSE Sdsll2strLen(v, LongBits)

\* Non-empty argument lists of at most MaxArgs elements of S.
ArgLists(S) == UNION {[1..n -> S] : n \in 1..MaxArgs}

VARIABLES
  content,       \* [D -> Values] for the fields D present in the key
  cmd,           \* the last command: its name, fields, pairs and number
  reply          \* the reply of the last command

vars == <<content, cmd, reply>>

Cmd(op, fs, pairs, n) == [op |-> op, fields |-> fs, pairs |-> pairs, n |-> n]

(* A reply keeps each RESP kind in its own field so that replies of       *)
(* different kinds compare without mixing integers, strings and sets.     *)
IntReply(n)   == [int |-> n,   bulk |-> NIL, err |-> "",  multi |-> {}]
BulkReply(v)  == [int |-> NIL, bulk |-> v,   err |-> "",  multi |-> {}]
ErrReply(e)   == [int |-> NIL, bulk |-> NIL, err |-> e,   multi |-> {}]
MultiReply(S) == [int |-> NIL, bulk |-> NIL, err |-> "",  multi |-> S]
NoReply       == BulkReply(NIL)

ErrNotInt   == ErrReply("ERR hash value is not an integer")
ErrOverflow == ErrReply("ERR increment or decrement would overflow")
ErrNotFloat == ErrReply("ERR hash value is not a float")

Present(f) == f \in DOMAIN content
Old(f)     == IF Present(f) THEN content[f] ELSE 0

\* Overwrite the given fields, keeping the others.
Put(c, upd) == [f \in DOMAIN c \cup DOMAIN upd |->
                  IF f \in DOMAIN upd THEN upd[f] ELSE c[f]]

Init == content = << >> /\ cmd = Cmd("", << >>, << >>, 0) /\ reply = NoReply

\* HSET: the last value given for a field wins; the reply counts the fields
\* that were not present before.
HSet(args) ==
  LET given == {args[i][1] : i \in DOMAIN args}
      last(f) == CHOOSE i \in DOMAIN args :
                   args[i][1] = f /\ \A j \in DOMAIN args : args[j][1] = f => j <= i
  IN /\ content' = Put(content, [f \in given |-> args[last(f)][2]])
     /\ reply' = IntReply(Cardinality(given \ DOMAIN content))

HSetNx(f, v) ==
  IF Present(f) THEN reply' = IntReply(0) /\ UNCHANGED content
  ELSE content' = Put(content, [g \in {f} |-> v]) /\ reply' = IntReply(1)

\* HINCRBY: integers outside the long long range are not integers, and a
\* result outside the range is refused.
HIncrBy(f, incr) ==
  IF Old(f) \in StrValues \/ Old(f) \notin LLONG_MIN..LLONG_MAX
  THEN reply' = ErrNotInt /\ UNCHANGED content
  ELSE IF Old(f) + incr \notin LLONG_MIN..LLONG_MAX
  THEN reply' = ErrOverflow /\ UNCHANGED content
  ELSE /\ content' = Put(content, [g \in {f} |-> Old(f) + incr])
       /\ reply' = IntReply(Old(f) + incr)

HIncrByFloat(f, incr) ==
  IF Old(f) \in StrValues
  THEN reply' = ErrNotFloat /\ UNCHANGED content
  ELSE /\ Old(f) + incr \in -FloatBound..FloatBound
       /\ content' = Put(content, [g \in {f} |-> Old(f) + incr])
       /\ reply' = BulkReply(Old(f) + incr)

\* HDEL: the reply counts the distinct present fields named.
HDel(fs) ==
  LET gone == {fs[i] : i \in DOMAIN fs} \cap DOMAIN content
  IN /\ content' = [f \in DOMAIN content \ gone |-> content[f]]
     /\ reply' = IntReply(Cardinality(gone))

HGet(f)    == reply' = BulkReply(IF Present(f) THEN content[f] ELSE NIL) /\ UNCHANGED content
HExists(f) == reply' = IntReply(IF Present(f) THEN 1 ELSE 0) /\ UNCHANGED content
HLen       == reply' = IntReply(Cardinality(DOMAIN content)) /\ UNCHANGED content
HGetAll    == reply' = MultiReply({<<f, content[f]>> : f \in DOMAIN content}) /\ UNCHANGED content
HKeys      == reply' = MultiReply(DOMAIN content) /\ UNCHANGED content

\* The values of a function as a bag, written as the set of pairs of each
\* value and the number of arguments mapped to it (HVALS may return one
\* value several times).
BagOf(F) == {<<v, Cardinality({x \in DOMAIN F : F[x] = v})>> : v \in {F[x] : x \in DOMAIN F}}

HVals == reply' = MultiReply(BagOf(content)) /\ UNCHANGED content

\* HMGET: one bulk per field named, in order, null for an absent field.
HMGet(fs) ==
  /\ reply' = MultiReply([i \in DOMAIN fs |-> IF Present(fs[i]) THEN content[fs[i]] ELSE NIL])
  /\ UNCHANGED content

HStrLen(f) ==
  reply' = IntReply(IF Present(f) THEN ValueLen(content[f]) ELSE 0) /\ UNCHANGED content

\* Each step executes one command; cmd records which, with its arguments.
Next ==
  \/ \E args \in ArgLists(Fields \X InputValues) :
        cmd' = Cmd("HSET", << >>, args, 0) /\ HSet(args)
  \/ \E f \in Fields, v \in InputValues :
        cmd' = Cmd("HSETNX", << >>, <<<<f, v>>>>, 0) /\ HSetNx(f, v)
  \/ \E f \in Fields, i \in IncrValues :
        cmd' = Cmd("HINCRBY", <<f>>, << >>, i) /\ HIncrBy(f, i)
  \/ \E f \in Fields, i \in FloatIncrValues :
        cmd' = Cmd("HINCRBYFLOAT", <<f>>, << >>, i) /\ HIncrByFloat(f, i)
  \/ \E fs \in ArgLists(Fields) : cmd' = Cmd("HDEL", fs, << >>, 0) /\ HDel(fs)
  \/ \E f \in Fields :
        \/ cmd' = Cmd("HGET", <<f>>, << >>, 0) /\ HGet(f)
        \/ cmd' = Cmd("HEXISTS", <<f>>, << >>, 0) /\ HExists(f)
        \/ cmd' = Cmd("HSTRLEN", <<f>>, << >>, 0) /\ HStrLen(f)
  \/ cmd' = Cmd("HLEN", << >>, << >>, 0) /\ HLen
  \/ \E fs \in ArgLists(Fields) : cmd' = Cmd("HMGET", fs, << >>, 0) /\ HMGet(fs)
  \/ cmd' = Cmd("HGETALL", << >>, << >>, 0) /\ HGetAll
  \/ cmd' = Cmd("HKEYS", << >>, << >>, 0) /\ HKeys
  \/ cmd' = Cmd("HVALS", << >>, << >>, 0) /\ HVals

Spec == Init /\ [][Next]_vars

====
