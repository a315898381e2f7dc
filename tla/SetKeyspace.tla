---------------------------- MODULE SetKeyspace ----------------------------
(***************************************************************************)
(* Abstract specification of the set commands over a small keyspace: what *)
(* each command promises to a client, with no notion of encoding, of the  *)
(* strategy SPOP / SRANDMEMBER / SDIFF pick, or of the order in which      *)
(* SINTER probes its operands.  A key holds a set of members, a value of   *)
(* another type (a string, which no set command can change except by       *)
(* overwriting it with a STORE), or nothing; a missing key reads as the    *)
(* empty set.  SetType (t_set.c) is checked to implement this module.      *)
(***************************************************************************)
EXTENDS Integers, Sequences, FiniteSets, Bags
LOCAL FSX == INSTANCE FiniteSetsExt

CONSTANTS
  Keys,        \* key names (model values)
  StrKeys,     \* the keys that initially hold a string value
  Members,     \* members a client passes: integers and model values
  Counts,      \* the count arguments of SPOP / SRANDMEMBER
  MaxArgs,     \* most members (or operand keys) in one command
  StrictTypeCheck, \* TRUE: every multi-key command checks all operand types
                   \* before it does anything (design document, section 7)
  NIL

ASSUME StrKeys \subseteq Keys

\* Non-empty argument lists of at most MaxArgs elements of S.
SetArgLists(S) == UNION {[1..n -> S] : n \in 1..MaxArgs}

\* The argument lists of the commands (constants, computed once).
MemberLists == SetArgLists(Members)
KeyLists    == SetArgLists(Keys)

VARIABLES
  sets,     \* [Keys -> SUBSET Members]: {} when the key holds no set
  strs,     \* the keys holding a string
  cmd,      \* the last command: its name, key arguments, members and count
  reply     \* the reply to the last command

vars == <<sets, strs, cmd, reply>>

Cmd(op, keys, ms, n) == [op |-> op, keys |-> keys, ms |-> ms, n |-> n]

(* Replies keep each RESP kind in a field of its own; a multi-bulk reply  *)
(* is the bag of the elements it lists, in whatever order.                 *)
IntReply(n)   == [int |-> n,   bulk |-> NIL, err |-> "",  multi |-> EmptyBag]
BulkReply(v)  == [int |-> NIL, bulk |-> v,   err |-> "",  multi |-> EmptyBag]
ErrReply(e)   == [int |-> NIL, bulk |-> NIL, err |-> e,   multi |-> EmptyBag]
MultiReply(B) == [int |-> NIL, bulk |-> NIL, err |-> "",  multi |-> B]
NoReply       == BulkReply(NIL)
EmptyMulti    == MultiReply(EmptyBag)

WrongType  == ErrReply("WRONGTYPE")
OutOfRange == ErrReply("ERR value is out of range, must be positive")

SET_OP_UNION == "union"
SET_OP_DIFF  == "diff"
SET_OP_INTER == "inter"

Elems(seq) == {seq[i] : i \in DOMAIN seq}

\* The bag of the members a sequence of picks lists.
BagOfSeq(seq) == [m \in Elems(seq) |-> Cardinality({i \in DOMAIN seq : seq[i] = m})]

\* The bags that n independent draws from S can give.
Draws(S, n) == {BagOfSeq(seq) : seq \in [1..n -> S]}

Missing(k)   == sets[k] = {} /\ k \notin strs

\* Write the set S at key k (an empty S removes the key).
Store(k, S) == /\ sets' = [sets EXCEPT ![k] = S]
               /\ strs' = strs \ {k}

Init == /\ sets = [k \in Keys |-> {}]
        /\ strs = StrKeys
        /\ cmd = Cmd("", << >>, << >>, 0)
        /\ reply = NoReply

Card(k)      == Cardinality(sets[k])
Min2(a, b)   == IF a < b THEN a ELSE b

\* SADD: the reply counts the members that were not in the set.
SAdd(k, ms) ==
  IF k \in strs THEN reply' = WrongType /\ UNCHANGED <<sets, strs>>
  ELSE /\ sets' = [sets EXCEPT ![k] = @ \cup Elems(ms)]
       /\ reply' = IntReply(Cardinality(Elems(ms) \ sets[k]))
       /\ UNCHANGED strs

\* SREM: the reply counts the members that were in the set.
SRem(k, ms) ==
  /\ IF k \in strs THEN reply' = WrongType /\ UNCHANGED sets
     ELSE /\ sets' = [sets EXCEPT ![k] = @ \ Elems(ms)]
          /\ reply' = IntReply(Cardinality(Elems(ms) \cap sets[k]))
  /\ UNCHANGED strs

\* SMOVE: a missing source replies 0 before any type check.
SMove(src, dst, m) ==
  /\ CASE Missing(src) -> reply' = IntReply(0) /\ UNCHANGED sets
       [] src \in strs \/ dst \in strs -> reply' = WrongType /\ UNCHANGED sets
       [] m \notin sets[src] -> reply' = IntReply(0) /\ UNCHANGED sets
       [] src = dst -> reply' = IntReply(1) /\ UNCHANGED sets
       [] OTHER -> /\ sets' = [sets EXCEPT ![src] = @ \ {m}, ![dst] = @ \cup {m}]
                   /\ reply' = IntReply(1)
  /\ UNCHANGED strs

\* A read of key k: missing keys give `none`, strings WRONGTYPE.
Read(k, none, r) ==
  /\ reply' = CASE Missing(k) -> none [] k \in strs -> WrongType [] OTHER -> r
  /\ UNCHANGED <<sets, strs>>

SIsMember(k, m) == Read(k, IntReply(0), IntReply(IF m \in sets[k] THEN 1 ELSE 0))
SCard(k)        == Read(k, IntReply(0), IntReply(Card(k)))

\* SPOP key: removes and returns one member.
SPop(k) ==
  IF Missing(k) \/ k \in strs THEN Read(k, NoReply, NoReply)
  ELSE \E m \in sets[k] : /\ sets' = [sets EXCEPT ![k] = @ \ {m}]
                          /\ reply' = BulkReply(m)
                          /\ UNCHANGED strs

\* SPOP key count: removes and returns min(count, |S|) distinct members.
SPopCount(k, l) ==
  CASE l < 0 -> reply' = OutOfRange /\ UNCHANGED <<sets, strs>>
    [] Missing(k) \/ k \in strs \/ l = 0 -> Read(k, EmptyMulti, EmptyMulti)
    [] OTHER -> \E R \in FSX!kSubset(Min2(l, Card(k)), sets[k]) :
                   /\ sets' = [sets EXCEPT ![k] = @ \ R]
                   /\ reply' = MultiReply(SetToBag(R))
                   /\ UNCHANGED strs

SRandMember(k) ==
  IF Missing(k) \/ k \in strs THEN Read(k, NoReply, NoReply)
  ELSE \E m \in sets[k] : Read(k, NoReply, BulkReply(m))

\* SRANDMEMBER key count: min(count, |S|) distinct members for count >= 0,
\* -count draws with repetition for count < 0.
SRandMemberCount(k, l) ==
  IF Missing(k) \/ k \in strs \/ l = 0 THEN Read(k, EmptyMulti, EmptyMulti)
  ELSE IF l > 0
  THEN \E R \in FSX!kSubset(Min2(l, Card(k)), sets[k]) :
          Read(k, EmptyMulti, MultiReply(SetToBag(R)))
  ELSE \E B \in Draws(sets[k], -l) : Read(k, EmptyMulti, MultiReply(B))

\* The result of a set operation over the operand keys.
SetOpResult(op, keys) ==
  LET S(i) == sets[keys[i]]
  IN CASE op = SET_OP_UNION -> UNION {S(i) : i \in DOMAIN keys}
       [] op = SET_OP_INTER -> {m \in S(1) : \A i \in DOMAIN keys : m \in S(i)}
       [] op = SET_OP_DIFF  -> S(1) \ UNION {S(i) : i \in 2..Len(keys)}

\* Whether the operands make the operation fail with WRONGTYPE: without
\* StrictTypeCheck, SINTER examines the operands in order and the first one
\* that holds no set decides (a missing one gives the empty result); SUNION
\* and SDIFF treat every missing operand as empty and fail on any string.
SetOpTypeError(op, keys) ==
  IF op = SET_OP_INTER /\ ~StrictTypeCheck
  THEN \E i \in DOMAIN keys : /\ keys[i] \in strs
                              /\ \A j \in 1..(i - 1) : ~Missing(keys[j])
  ELSE \E i \in DOMAIN keys : keys[i] \in strs

\* SINTER / SUNION / SDIFF (dst = NIL) and their STORE forms.
SetOp(op, dst, keys) ==
  LET R == SetOpResult(op, keys)
  IN CASE SetOpTypeError(op, keys) -> reply' = WrongType /\ UNCHANGED <<sets, strs>>
       [] dst = NIL -> reply' = MultiReply(SetToBag(R)) /\ UNCHANGED <<sets, strs>>
       [] OTHER -> Store(dst, R) /\ reply' = IntReply(Cardinality(R))

\* Each step executes one command; cmd records which (and with which
\* arguments), so that replies of different commands are never confused.
Next ==
  \/ \E k \in Keys, ms \in MemberLists :
        \/ cmd' = Cmd("SADD", <<k>>, ms, 0) /\ SAdd(k, ms)
        \/ cmd' = Cmd("SREM", <<k>>, ms, 0) /\ SRem(k, ms)
  \/ \E src, dst \in Keys, m \in Members :
        cmd' = Cmd("SMOVE", <<src, dst>>, <<m>>, 0) /\ SMove(src, dst, m)
  \/ \E k \in Keys, m \in Members :
        cmd' = Cmd("SISMEMBER", <<k>>, <<m>>, 0) /\ SIsMember(k, m)
  \/ \E k \in Keys :
        \/ cmd' = Cmd("SCARD", <<k>>, << >>, 0) /\ SCard(k)
        \/ cmd' = Cmd("SPOP", <<k>>, << >>, 0) /\ SPop(k)
        \/ cmd' = Cmd("SRANDMEMBER", <<k>>, << >>, 0) /\ SRandMember(k)
  \/ \E k \in Keys, l \in Counts :
        \/ cmd' = Cmd("SPOP", <<k>>, << >>, l) /\ SPopCount(k, l)
        \/ cmd' = Cmd("SRANDMEMBER", <<k>>, << >>, l) /\ SRandMemberCount(k, l)
  \/ \E op \in {SET_OP_UNION, SET_OP_DIFF, SET_OP_INTER}, dst \in Keys \cup {NIL},
        keys \in KeyLists :
        cmd' = Cmd(op, <<dst>> \o keys, << >>, 0) /\ SetOp(op, dst, keys)

Spec == Init /\ [][Next]_vars

====
