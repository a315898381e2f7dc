------------------------------- MODULE MCDict -------------------------------
(***************************************************************************)
(* Model-checking instance of Dict: three keys whose hashes collide in    *)
(* small tables and spread in large ones, tables from 1 to 8 buckets and  *)
(* a 3-bit scan cursor.                                                    *)
(***************************************************************************)
EXTENDS Dict, TLC

CONSTANTS k1, k2, k3

MCKeys == {k1, k2, k3}

\* Low bits of the hashes: 001, 100, 110.  In a 2-bucket table k2 and k3
\* share bucket 0; in 4 buckets the three are apart; in 8 as well.
MCHash == (k1 :> 1) @@ (k2 :> 4) @@ (k3 :> 6)

\* `last` is written by every step and read by none.
View == <<d, canResize, scan>>
====
