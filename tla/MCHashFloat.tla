---------------------------- MODULE MCHashFloat ----------------------------
(* Model-checking instance of HashFloat: increments of a fraction, a large *)
(* value and both infinities, on the scaled long double of MCSds with a    *)
(* BufLen of 6 bytes, so that "%.2Lf" runs out of room from 100 upwards as  *)
(* the real "%.17Lf" does in 256 bytes from about 10^237, below LDBL_MAX.  *)
EXTENDS HashFloat

MCIncrStrs == {<<"1", ".", "5">>, <<"6", "0">>, <<"i", "n", "f">>, <<"-", "i", "n", "f">>}
====
