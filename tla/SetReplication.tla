--------------------------- MODULE SetReplication ---------------------------
(***************************************************************************)
(* A master running the set commands of t_set.c (SetType) and a replica   *)
(* running the same code on its own keyspace, joined by the replication   *)
(* stream: the commands the master propagates, delivered in order (one    *)
(* TCP link) and applied by the replica one per step, possibly long after *)
(* the master executed them.  A command is propagated verbatim when it     *)
(* changed the dataset (server.dirty grew), except SPOP, whose random      *)
(* choice a replica must not repeat: t_set.c rewrites SPOP key as SREM key *)
(* ele, SPOP key count as DEL key when it takes the whole set, and as one  *)
(* SREM per popped member otherwise, suppressing the SPOP itself.          *)
(***************************************************************************)
EXTENDS SetType
LOCAL SX == INSTANCE SequencesExt

CONSTANT MaxBacklog   \* the master runs a command only while fewer than
                      \* MaxBacklog commands are in flight

VARIABLES
  stream,   \* commands propagated by the master and not yet applied
  rdb,      \* the replica's keyspace, and its last command and reply
  rcmd,
  rreply

replVars == <<db, cmd, reply, stream, rdb, rcmd, rreply>>

Replica == INSTANCE SetType WITH db <- rdb, cmd <- rcmd, reply <- rreply

SREMCmd(k, m) == Cmd("SREM", <<k>>, <<m>>, 0)
DELCmd(k)     == Cmd("DEL", <<k>>, << >>, 0)

\* One SREM key ele per member of S, as the alsoPropagate loops emit them.
SREMs(k, S) == LET s == SX!SetToSeq(S) IN [i \in DOMAIN s |-> SREMCmd(k, s[i])]

\* spopCommand: a popped member is propagated as SREM key ele; a missing
\* key or a WRONGTYPE reply leaves server.dirty alone.
SPopPropagate(k) ==
  IF Type(k) = "set" THEN <<SREMCmd(k, reply'.bulk)>> ELSE << >>

\* Mutant: case 3 propagates the members of the new set it built.
SPopCountPropagate_newset(k, l) ==
  LET count == ToUnsigned(l)
      size  == setTypeSize(db[k])
  IN CASE l < 0 \/ Type(k) # "set" \/ count = 0 -> << >>
       [] count >= size -> <<DELCmd(k)>>
       [] (size - count) * SPOP_MOVE_STRATEGY_MUL > count ->
            SREMs(k, db[k].ms \ db'[k].ms)
       [] OTHER -> SREMs(k, db'[k].ms)

\* Mutant: without preventCommandPropagation, call() also propagates the
\* SPOP key count itself after the SREMs of cases 2 and 3.
SPopCountPropagate_noPrevent(k, l) ==
  LET count == ToUnsigned(l)
      size  == setTypeSize(db[k])
  IN CASE l < 0 \/ Type(k) # "set" \/ count = 0 -> << >>
       [] count >= size -> <<DELCmd(k)>>
       [] OTHER -> SREMs(k, db[k].ms \ db'[k].ms) \o <<cmd'>>

\* spopWithCountCommand: nothing for the early returns; case 1 rewrites the
\* command as DEL key; case 2 propagates an SREM for each member it removes;
\* case 3 iterates the old set, which then holds exactly the popped members.
\* preventCommandPropagation keeps the SPOP itself off the stream.
SPopCountPropagate(k, l) ==
  LET count == ToUnsigned(l)
      size  == setTypeSize(db[k])
  IN CASE l < 0 \/ Type(k) # "set" \/ count = 0 -> << >>
       [] count >= size -> <<DELCmd(k)>>
       [] (size - count) * SPOP_MOVE_STRATEGY_MUL > count ->
            SREMs(k, db[k].ms \ db'[k].ms)
       [] OTHER -> SREMs(k, db[k].ms \ db'[k].ms)

\* The master executes one command and appends what it propagates.
MasterStep ==
  /\ Len(stream) < MaxBacklog
  /\ \/ /\ Next
        /\ cmd'.op # "SPOP"
        /\ stream' = IF db' # db THEN Append(stream, cmd') ELSE stream
     \/ \E k \in Keys :
           /\ cmd' = Cmd("SPOP", <<k>>, << >>, 0) /\ SPop(k)
           /\ stream' = stream \o SPopPropagate(k)
     \/ \E k \in Keys, l \in Counts :
           /\ cmd' = Cmd("SPOP", <<k>>, << >>, l) /\ SPopCount(k, l)
           /\ stream' = stream \o SPopCountPropagate(k, l)
  /\ UNCHANGED <<rdb, rcmd, rreply>>

\* DEL key on the replica (delCommand, db.c): the key is removed.
ReplicaDel(k) ==
  /\ rdb' = [rdb EXCEPT ![k] = NoKey]
  /\ rreply' = IntReply(IF rdb[k] = NoKey THEN 0 ELSE 1)

\* The replica executes the oldest command of the stream.
ReplicaApply ==
  /\ stream # << >>
  /\ LET c == Head(stream) IN
       /\ rcmd' = c
       /\ CASE c.op = "SADD"  -> Replica!SAdd(c.keys[1], c.ms)
            [] c.op = "SREM"  -> Replica!SRem(c.keys[1], c.ms)
            [] c.op = "SMOVE" -> Replica!SMove(c.keys[1], c.keys[2], c.ms[1])
            [] c.op = "DEL"   -> ReplicaDel(c.keys[1])
            [] c.op = Abs!SET_OP_INTER -> Replica!SInter(c.keys[1], Tail(c.keys))
            [] OTHER -> Replica!SUnionDiff(c.op, c.keys[1], Tail(c.keys))
  /\ stream' = Tail(stream)
  /\ UNCHANGED <<db, cmd, reply>>

ReplInit == Init /\ Replica!Init /\ stream = << >>

ReplNext == MasterStep \/ ReplicaApply

ReplSpec == ReplInit /\ [][ReplNext]_replVars

-----------------------------------------------------------------------------
ReplTypeOK ==
  /\ TypeOK
  /\ Replica!TypeOK
  /\ stream \in Seq([op : {"SADD", "SREM", "SMOVE", "DEL", SET_OP_UNION,
                            SET_OP_DIFF, Abs!SET_OP_INTER},
                     keys : Seq(Keys \cup {NIL}), ms : Seq(Members), n : {0}])

\* Whenever the replica has applied everything the master propagated, it
\* holds the same sets and strings as the master, whatever members SPOP
\* picked at random and however the master re-encoded the survivors
\* (spopCommand / spopWithCountCommand's SREM and DEL rewriting).
ReplicaConsistent ==
  stream = << >> => /\ Replica!SetsOf = SetsOf
                    /\ Replica!StrsOf = StrsOf

====
