---------------------------- MODULE MCHashType ----------------------------
(***************************************************************************)
(* Model-checking instance of HashType: two short fields and one long     *)
(* field, one short and one long string value, a 4-bit long long and     *)
(* limits small enough that both conversions (entry count and length)     *)
(* happen within a few commands.                                          *)
(***************************************************************************)
EXTENDS HashType

CONSTANTS fa, fb, flong, sx, slong

MCFields      == {fa, fb, flong}
MCFieldLen    == (fa :> 1) @@ (fb :> 1) @@ (flong :> 3)
MCStrValues   == {sx, slong}
MCStrLen      == (sx :> 1) @@ (slong :> 3)
MCInputValues == {sx, slong}
MCIncrValues  == {-4, -1, 2}

\* The command and the reply are written by every step and read by none:
\* states that differ only in them have the same successors.
View == obj
====
