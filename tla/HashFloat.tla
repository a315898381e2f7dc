----------------------------- MODULE HashFloat -----------------------------
(***************************************************************************)
(* hincrbyfloatCommand of t_hash.c on one field of one hash, with the      *)
(* field's value held as the string the command stores and the long double *)
(* arithmetic, formatting and parsing of LdString: the increment is parsed *)
(* as a long double, the field's string by string2ld, the sum rounded to a *)
(* long double (overflowing to an infinity, inf + -inf giving a NaN), and  *)
(* the result written back as the human friendly string ld2string makes of *)
(* it in a buffer of BufLen bytes.  A field string that looks like an      *)
(* integer is held by a ziplist as a long long and read back as              *)
(* (long double)ll, the value string2ld gives it, so one reading serves.   *)
(***************************************************************************)
EXTENDS LdString

CONSTANTS
  IncrStrs,  \* the increments a client sends, as strings
  NIL        \* the field is absent

VARIABLES
  stored,    \* the field's string, or NIL
  sum,       \* the long double the last successful command computed
  reply      \* "" after a success, the error otherwise

vars == <<stored, sum, reply>>

Signed(x) == IF x.neg THEN -x.n ELSE x.n

\* A finite sum of s units rounded to the nearest long double: past
\* LDBL_MAX it overflows to an infinity; an exact zero is -0 only when both
\* addends are.
RoundedOf(s, mag, bothNeg) ==
  CASE s = 0        -> LD(bothNeg, 0)
    [] mag > MaxMag -> Inf(s < 0)
    [] OTHER        -> LD(s < 0, mag)

\* value += incr: the long doubles the addition can give.  A NaN operand,
\* or infinities of opposite signs, give a NaN whose sign bit depends on
\* the FPU (the x87 default NaN has it set, others do not).
LdAdd(x, y) ==
  CASE x.nan \/ y.nan \/ (x.inf /\ y.inf /\ x.neg # y.neg) -> {NaN(b) : b \in BOOLEAN}
    [] x.inf -> {x}
    [] y.inf -> {y}
    [] OTHER -> {RoundedOf(Signed(x) + Signed(y),
                           NearestMag(IF Signed(x) + Signed(y) < 0
                                      THEN -(Signed(x) + Signed(y))
                                      ELSE Signed(x) + Signed(y), 1),
                           x.neg /\ y.neg)}

\* new = sdsnewlen(buf,len): the bytes ld2string reports, none after "No
\* room".
Written(r) == SubSeq(r.buf, 1, r.ret)

\* hashTypeGetValue and the conversion of what it finds: 0 for an absent
\* field, string2ld's verdict on a present one.
FieldValue == IF stored = NIL THEN [ok |-> TRUE, val |-> LD(FALSE, 0)] ELSE string2ld(stored)

(***************************************************************************)
(* HINCRBYFLOAT key field incr: an increment getLongDoubleFromObjectOrReply *)
(* rejects, or a field string string2ld rejects, is answered with an error *)
(* and changes nothing; otherwise value (0 for an absent field) += incr,   *)
(* and the string ld2string(buf,sizeof(buf),value,1) wrote, of length len, *)
(* is stored with hashTypeSet and sent as the reply, whatever len is.      *)
(***************************************************************************)
HIncrByFloat(s) ==
  \/ /\ ~string2ld(s).ok
     /\ reply' = "ERR value is not a valid float"
     /\ UNCHANGED <<stored, sum>>
  \/ /\ string2ld(s).ok
     /\ ~FieldValue.ok
     /\ reply' = "ERR hash value is not a float"
     /\ UNCHANGED <<stored, sum>>
  \/ /\ string2ld(s).ok
     /\ FieldValue.ok
     /\ \E v \in LdAdd(FieldValue.val, string2ld(s).val) :
          /\ sum' = v
          /\ stored' = Written(ld2string(BufLen, v, TRUE))
     /\ reply' = ""

Init == stored = NIL /\ sum = LD(FALSE, 0) /\ reply = ""

Next == \E s \in IncrStrs : HIncrByFloat(s)

Spec == Init /\ [][Next]_vars

-----------------------------------------------------------------------------
\* The value a string denotes when read back: an infinity as itself, a
\* finite value as strtold reads its %.<Prec>Lf decimals.
Denoted(x) == IF x.inf THEN x ELSE strtold(FmtF(x, Prec)).val

\* After HINCRBYFLOAT succeeds, its field holds the sum it computed: the
\* stored string is one string2ld (and so the next HINCRBYFLOAT) accepts,
\* and it denotes the sum to Prec decimals.  The reply promises as much:
\* it is the new value of the field.
FieldHoldsSum ==
  stored # NIL => string2ld(stored).ok /\ string2ld(stored).val = Denoted(sum)
====
