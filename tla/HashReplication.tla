-------------------------- MODULE HashReplication --------------------------
(***************************************************************************)
(* A master running the hash commands of t_hash.c (HashType) on one key   *)
(* and a replica running the same handlers on its own copy, joined by the *)
(* replication stream: the commands call() propagates, in order, applied  *)
(* by the replica one per step.  A command is propagated when it raised   *)
(* server.dirty.  HINCRBYFLOAT is the one command t_hash.c rewrites: it   *)
(* goes out as HSET key field <the string ld2string wrote>, so that a     *)
(* replica stores the master's formatted result instead of redoing the    *)
(* long double sum.                                                        *)
(***************************************************************************)
EXTENDS HashType

CONSTANT MaxBacklog   \* the master runs a command only while fewer than
                      \* MaxBacklog commands are in flight

VARIABLES
  stream,   \* commands propagated by the master and not yet applied
  robj,     \* the replica's hash, and its last command and reply
  rcmd,
  rreply

replVars == <<obj, cmd, reply, stream, robj, rcmd, rreply>>

Replica == INSTANCE HashType WITH obj <- robj, cmd <- rcmd, reply <- rreply

\* Mutant: server.dirty++ placed before hincrbyCommand's checks.
Dirtied_early(c, r) ==
  CASE c.op = "HSET"    -> TRUE
    [] c.op = "HSETNX"  -> r.int = 1
    [] c.op = "HINCRBY" -> TRUE
    [] c.op = "HDEL"    -> r.int > 0
    [] OTHER            -> FALSE

\* The server.dirty increments of the write commands: hsetCommand always,
\* hsetnxCommand when it set the field, hincrbyCommand after its checks,
\* hdelCommand by the number of fields deleted; reads never.
Dirtied(c, r) ==
  CASE c.op = "HSET"    -> TRUE
    [] c.op = "HSETNX"  -> r.int = 1
    [] c.op = "HINCRBY" -> r.err = ""
    [] c.op = "HDEL"    -> r.int > 0
    [] OTHER            -> FALSE

\* Mutant: only argv[0] is rewritten, so the increment goes out as the value.
Propagated_keepIncr(c, r) ==
  CASE c.op = "HINCRBYFLOAT" /\ r.err = "" ->
         <<Abs!Cmd("HSET", << >>, <<<<c.fields[1], c.n>>>>, 0)>>
    [] Dirtied(c, r) -> <<c>>
    [] OTHER -> << >>

\* What reaches the stream for command c with reply r: a successful
\* HINCRBYFLOAT as HSET key field buf (rewriteClientCommandArgument of
\* argv[0] and argv[3]; buf is also the reply), any other command verbatim
\* when it dirtied the dataset.
Propagated(c, r) ==
  CASE c.op = "HINCRBYFLOAT" /\ r.err = "" ->
         <<Abs!Cmd("HSET", << >>, <<<<c.fields[1], r.bulk>>>>, 0)>>
    [] Dirtied(c, r) -> <<c>>
    [] OTHER -> << >>

\* The master executes one command and appends what call() propagates.
MasterStep ==
  /\ Len(stream) < MaxBacklog
  /\ Next
  /\ stream' = stream \o Propagated(cmd', reply')
  /\ UNCHANGED <<robj, rcmd, rreply>>

\* The replica executes the oldest command of the stream with its own copy
\* of the handler.
ReplicaApply ==
  /\ stream # << >>
  /\ Replica!Running
  /\ LET c == Head(stream) IN
       /\ rcmd' = c
       /\ CASE c.op = "HSET"    -> Replica!HSet(c.pairs)
            [] c.op = "HSETNX"  -> Replica!HSetNx(c.pairs[1][1], c.pairs[1][2])
            [] c.op = "HINCRBY" -> Replica!HIncrBy(c.fields[1], c.n)
            [] c.op = "HDEL"    -> Replica!HDel(c.fields)
  /\ stream' = Tail(stream)
  /\ UNCHANGED <<obj, cmd, reply>>

ReplInit == Init /\ Replica!Init /\ stream = << >>

ReplNext == MasterStep \/ ReplicaApply

ReplSpec == ReplInit /\ [][ReplNext]_replVars

-----------------------------------------------------------------------------
ReplTypeOK ==
  /\ TypeOK
  /\ Replica!TypeOK
  /\ stream \in Seq([op : {"HSET", "HSETNX", "HINCRBY", "HDEL"},
                     fields : Seq(Fields), pairs : Seq(Fields \X Values),
                     n : Int])

\* Whenever the replica has applied everything the master propagated, its
\* hash has the master's content, though HINCRBYFLOAT reached it as an HSET
\* and the two copies may hold it in different encodings.
ReplicaConsistent ==
  stream = << >> => Replica!Content(robj) = Content(obj)

\* The replica never answers a propagated command with an error: only
\* commands that succeeded on the master, and so raised server.dirty, are
\* on the stream, and on an equal copy they succeed again.
ReplicaNoErrors == rreply.err = ""

====
