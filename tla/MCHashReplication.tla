------------------------- MODULE MCHashReplication -------------------------
(* Model-checking instance of HashReplication over the fields and values  *)
(* of MCHashType.                                                          *)
EXTENDS HashReplication, MCHashType

\* The commands and replies are written by every step and read by none
\* (rreply is read by ReplicaNoErrors only, in the state it is written).
ReplView == <<obj, stream, robj, rreply.err>>
====
