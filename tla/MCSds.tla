------------------------------- MODULE MCSds -------------------------------
(***************************************************************************)
(* Checks the sds helpers of tests/ against reference definitions:        *)
(*  - sdsll2str (tests/lltostr.c) for every value of a Bits-wide long     *)
(*    long;                                                                *)
(*  - sdstrim (tests/sdstrim.c) on every string of up to MaxLen bytes     *)
(*    over Chars with every cset drawn from CsetChars, plus two 33-byte   *)
(*    strings (type-8 headers);                                            *)
(*  - sdsnewlen's header on lengths at each type boundary;                *)
(*  - ld2string and string2ld (tests/ld2string.c) on long doubles with     *)
(*    significands from LdMants in every binade, and on the decimals a     *)
(*    user types with up to Prec decimals.                                 *)
(* Each initial state draws the inputs of one helper; the inputs of the   *)
(* others keep a default (0, the empty string, the empty cset), which is  *)
(* an input they are checked on as well.                                   *)
(***************************************************************************)
EXTENDS Sds, SdsTrim, LdString, Integers, Sequences

CONSTANTS
  Bits,       \* width of the long long
  Chars,      \* bytes of the strings sdstrim is given
  CsetChars,  \* bytes of its csets
  MaxLen,     \* the longest such string, besides LongStrs
  LdMants,    \* significands of the long doubles given to ld2string
  TypedQs     \* typed decimals are q / 10^Prec for q in TypedQs

LLMin == -(2^(Bits - 1))
LLMax == 2^(Bits - 1) - 1

\* 33 bytes: one kept byte in the middle, or none.
LongStrs == {[i \in 1..33 |-> IF i = 17 THEN "x" ELSE "a"], [i \in 1..33 |-> "a"]}

Strings == UNION {[1..n -> Chars] : n \in 0..MaxLen} \cup LongStrs

\* Lengths on both sides of each header boundary (32, 0xff, 0xffff).
Lengths == {0, 1, 31, 32, 33, 254, 255, 256, 65534, 65535, 65536}

\* Every finite long double with a significand of LdMants, and both
\* infinities.
LongDoubles ==
  {LD(b, m * 2^k) : b \in BOOLEAN, m \in LdMants, k \in 0..ExpSpan}
    \cup {Inf(b) : b \in BOOLEAN}

\* What a user types for q / 10^Prec: no trailing zero after the point, no
\* point without decimals; and "-0".
Typed(q) == (IF q < 0 THEN <<"-">> ELSE << >>) \o Fixed(IF q < 0 THEN -q ELSE q, Prec)
TypedDecimals == {Typed(q) : q \in TypedQs} \cup {<<"-", "0">>}

\* Significands: the first ones (subnormals and zero), around the middle of
\* a binade, and its top; decimals below 3 and a few above the range where
\* the spacing of the long doubles is finer than the last decimal.
MCLdMants == 0..40 \cup 8180..8230 \cup 16340..(2^MantBits - 1)
MCTypedQs  == -300..300 \cup {12801, 25599, -16383}

VARIABLES value, str, cset, initlen, ld, typed

mcVars == <<value, str, cset, initlen, ld, typed>>

Defaults == [value |-> 0, str |-> << >>, cset |-> {}, initlen |-> 0,
             ld |-> LD(FALSE, 0), typed |-> <<"0">>]

\* The variables other than those in S keep their defaults.
Others(S) ==
  /\ "value" \notin S => value = Defaults.value
  /\ "str" \notin S => str = Defaults.str
  /\ "cset" \notin S => cset = Defaults.cset
  /\ "initlen" \notin S => initlen = Defaults.initlen
  /\ "ld" \notin S => ld = Defaults.ld
  /\ "typed" \notin S => typed = Defaults.typed

Init ==
  \/ value \in LLMin..LLMax /\ Others({"value"})
  \/ str \in Strings /\ cset \in SUBSET CsetChars /\ Others({"str", "cset"})
  \/ initlen \in Lengths /\ Others({"initlen"})
  \/ ld \in LongDoubles /\ Others({"ld"})
  \/ typed \in TypedDecimals /\ Others({"typed"})
Next == UNCHANGED mcVars
Spec == Init /\ [][Next]_mcVars

\* Reference: the value a decimal string denotes.
DigitValue(c) == CHOOSE d \in 0..9 : DigitChar[d + 1] = c
RECURSIVE Unsigned(_)
Unsigned(s) == IF s = << >> THEN 0
               ELSE 10 * Unsigned(SubSeq(s, 1, Len(s) - 1)) + DigitValue(s[Len(s)])
Denotes(s) == IF s # << >> /\ s[1] = "-" THEN -Unsigned(Tail(s)) ELSE Unsigned(s)

\* sdsll2str writes the canonical decimal form of every long long, LLONG_MIN
\* included (whose negation overflows): an optional "-", then digits with
\* no leading zero, denoting the value.
Sdsll2strCorrect ==
  LET s      == Sdsll2str(value, Bits)
      digits == IF value < 0 THEN Tail(s) ELSE s
  IN /\ (value < 0) = (s[1] = "-")
     /\ digits # << >> /\ \A i \in DOMAIN digits : digits[i] \in {DigitChar[d] : d \in 1..10}
     /\ (Len(digits) > 1 => digits[1] # "0")
     /\ Denotes(s) = value

\* sdstrim of an sds made by sdsnewlen(str, len) holds exactly str without
\* its longest prefix and suffix of cset characters, and its header keeps
\* its type and alloc (the length is set in place, also in a type-5 flags
\* byte).
SdsTrimCorrect ==
  LET s == sdsnewlen(str, Len(str))
      t == sdstrim(s, cset)
  IN /\ Content(t) = TrimRef(str, cset)
     /\ Type(t) = Type(s) /\ t.alloc = s.alloc

\* The header sdsnewlen picks holds the length it is given: the length
\* field (or the 5 high bits of a type-5 flags byte) never truncates it.
SdsNewLenHoldsLength == sdslen(sdsnewlen(NULL, initlen)) = initlen

TypedBack(r) ==
  /\ r.ok
  /\ 2^SpacingExp(r.val.n, 1) * 10^Prec < Unit =>
       ld2string(BufLen, r.val, TRUE).buf = typed

\* The comment above the humanfriendly branch: a decimal a user types with
\* at most Prec decimals is accepted by string2ld, and when the long
\* doubles around it are closer together than its last decimal,
\* ld2string(buf, len, value, 1) gives back exactly what the user typed.
HumanFriendlyKeepsTyped == TypedBack(string2ld(typed))

LosslessOf(r) == r.ok /\ r.val = ld

\* The comment above main: a long double written by ld2string(buf, len,
\* value, 0) and read back by string2ld is the same long double
\* ("lossless").
Ld2stringLossless == LosslessOf(string2ld(ld2string(BufLen, ld, FALSE).buf))
====
