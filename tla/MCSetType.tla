----------------------------- MODULE MCSetType -----------------------------
(* Model-checking instance of SetType: two keys that hold sets, one that  *)
(* starts as a string, two integer members and one non-integer member.    *)
EXTENDS SetType

CONSTANTS k1, k2, ks, a, b

MCKeys    == {k1, k2, ks}
MCStrKeys == {ks}
MCMembers == {1, 2, a}

\* Counts cover each SPOP / SRANDMEMBER branch for sets of up to 3
\* members, the negative (repetition / out of range) forms, and LONG_MIN,
\* whose negation in srandmemberWithCountCommand overflows.
LONG_MIN  == -(2^(LongBits - 1))
MCCounts  == {-2, -1, 0, 1, 2, 3, LONG_MIN}

\* A count that (unsigned) truncates to 0.
MCTruncCounts == {2^UIntBits}
\* One key and seven members, for the strategy multipliers of t_set.c
\* itself: SPOP count 5 of 6 or 6 of 7 rebuilds from the one survivor
\* (1 * 5 <= count), and SRANDMEMBER count 1 or 2 of 6 or 7 takes case 4
\* (count * 3 <= size).
MCOneKey       == {k1}
MCNoStrKeys    == {}
MCSevenMembers == {1, 2, 3, 4, 5, a, b}
MCRealCounts   == {-2, 1, 2, 5, 6}

\* The command and the reply are written by every step and read by none:
\* states that differ only in them have the same successors.
View == db
====
