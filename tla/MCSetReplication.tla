-------------------------- MODULE MCSetReplication --------------------------
(* Model-checking instance of SetReplication over the keys and members of  *)
(* MCSetType.                                                               *)
EXTENDS SetReplication, MCSetType

\* The commands and replies are written by every step and read by none.
ReplView == <<db, stream, rdb>>
====
