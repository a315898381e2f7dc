------------------------------ MODULE LdString ------------------------------
(***************************************************************************)
(* string2ld and ld2string of tests/ld2string.c over a scaled long double: *)
(* a sign, and a magnitude that is a whole number of units of 2^-UnitExp   *)
(* with at most MantBits significant bits and at most ExpSpan binades above *)
(* the subnormal range, or an infinity.  The conversions of the C library  *)
(* they call are modelled by what they do on the exact binary value:       *)
(* snprintf's %.<Prec>Lf and %.<Prec>Lg round it to nearest, ties to even, *)
(* and strtold rounds the decimal it reads to the nearest long double.     *)
(* Strings are sequences of one-character strings.                         *)
(***************************************************************************)
EXTENDS Integers, Sequences, Sds
LOCAL SX == INSTANCE SequencesExt

CONSTANTS
  MantBits,  \* significant bits of a long double (64 for the x87 format)
  ExpSpan,   \* binades above the subnormal ones
  UnitExp,   \* the smallest subnormal is 2^-UnitExp
  Prec,      \* the precision 17 of "%.17Lf" and "%.17Lg"
  BufLen     \* sizeof(buf) in string2ld, and the len main passes (256)

Unit   == 2^UnitExp                       \* the value 1, in units
MaxMag == (2^MantBits - 1) * 2^ExpSpan   \* LDBL_MAX, in units

\* A finite long double of the given sign and magnitude, an infinity
\* (HUGE_VALL) and a NaN with its sign bit; isinf(x) is x.inf and isnan(x)
\* is x.nan.
LD(neg, mag) == [neg |-> neg, inf |-> FALSE, nan |-> FALSE, n |-> mag]
Inf(neg)     == [neg |-> neg, inf |-> TRUE, nan |-> FALSE, n |-> 0]
NaN(neg)     == [neg |-> neg, inf |-> FALSE, nan |-> TRUE, n |-> 0]

(***************************************************************************)
(* Values used more than once are passed to a helper operator as          *)
(* arguments rather than bound by LET, which TLC's profiler would expand  *)
(* at every use.                                                           *)
(***************************************************************************)
RoundHalfEvenOf(q, r, b) == IF 2 * r > b \/ (2 * r = b /\ q % 2 = 1) THEN q + 1 ELSE q

\* a / b rounded to the nearest integer, ties to even (a >= 0, b > 0).
RoundHalfEven(a, b) == RoundHalfEvenOf(a \div b, a % b, b)

\* floor(log10(a / b)) and floor(log2(a / b)) for a, b > 0, searched
\* outwards from 0 so that no product grows past 10 * b.
RECURSIVE DecExpUp(_, _, _), DecExpDown(_, _, _), Log2Up(_, _, _)
DecExpUp(a, b, x)   == IF a \div b >= 10^(x + 1) THEN DecExpUp(a, b, x + 1) ELSE x
DecExpDown(a, b, x) == IF a * 10^(-x) >= b THEN x ELSE DecExpDown(a, b, x - 1)
DecExp(a, b)        == IF a >= b THEN DecExpUp(a, b, 0) ELSE DecExpDown(a, b, -1)
Log2Up(a, b, j)     == IF a \div b >= 2^(j + 1) THEN Log2Up(a, b, j + 1) ELSE j

\* log2 of the spacing, in units, of the long doubles around num / den units.
SpacingExp(num, den) ==
  IF num \div den < 2^MantBits THEN 0 ELSE Log2Up(num, den, 0) - (MantBits - 1)

\* num / den units rounded to the nearest multiple of 2^s, ties to even.
NearestAt(num, den, s) == RoundHalfEven(num, den * 2^s) * 2^s

\* num / den units rounded to the nearest long double magnitude, ties to
\* even, with an unbounded exponent (above MaxMag it overflows).
NearestMag(num, den) == NearestAt(num, den, SpacingExp(num, den))

Digits(v) == SX!Reverse(ReversedDigits(v))
PadTo(d, w) == [i \in 1..(w - Len(d)) |-> "0"] \o d
Padded(v, w) == PadTo(Digits(v), w)
Sign(x) == IF x.neg THEN <<"-">> ELSE << >>

\* The digits of q / 10^p with exactly p decimals.
FmtFOf(x, p, q) ==
  Sign(x) \o Digits(q \div 10^p)
    \o (IF p > 0 THEN <<".">> \o Padded(q % 10^p, p) ELSE << >>)

\* snprintf(buf, len, "%.<p>Lf", x) of a finite x before truncation: the
\* value rounded to p decimals; a negative value keeps its sign even when
\* it rounds to zero.
FmtF(x, p) == FmtFOf(x, p, RoundHalfEven(x.n * 10^p, Unit))

\* q / 10^f with the trailing zeros of its decimals dropped, and the point
\* too when none is left: %g without the '#' flag.
RECURSIVE DropZeros(_, _)
DropZeros(q, f) == IF f > 0 /\ q % 10 = 0 THEN DropZeros(q \div 10, f - 1) ELSE <<q, f>>
FixedOf(r) ==
  Digits(r[1] \div 10^r[2])
    \o (IF r[2] > 0 THEN <<".">> \o Padded(r[1] % 10^r[2], r[2]) ELSE << >>)
Fixed(q, f) == FixedOf(DropZeros(q, f))

\* The value rounded to P significant digits, q * 10^(X-P+1) with
\* 10^(P-1) <= q < 10^P: a carry out of the rounding (9.96 -> 10.0)
\* raises the exponent X by one.
Carry(P, X0, q0) ==
  IF q0 = 10^P THEN [P |-> P, q |-> 10^(P - 1), X |-> X0 + 1]
  ELSE [P |-> P, q |-> q0, X |-> X0]
RoundSigAt(n, P, X0) ==
  Carry(P, X0, IF P - 1 - X0 >= 0 THEN RoundHalfEven(n * 10^(P - 1 - X0), Unit)
               ELSE RoundHalfEven(n, Unit * 10^(X0 - P + 1)))
RoundSig(n, P) == RoundSigAt(n, P, DecExp(n, Unit))

\* %f style with P-1-X decimals when P > X >= -4, %e style with P-1
\* decimals and a signed exponent of at least two digits otherwise.
GStyle(r) ==
  IF r.P > r.X /\ r.X >= -4 THEN Fixed(r.q, r.P - 1 - r.X)
  ELSE Fixed(r.q, r.P - 1) \o <<"e", IF r.X < 0 THEN "-" ELSE "+">>
         \o Padded(IF r.X < 0 THEN -r.X ELSE r.X, 2)

(***************************************************************************)
(* snprintf(buf, len, "%.<prec>Lg", x) of a finite x before truncation:   *)
(* the value rounded to P = prec (1 for 0) significant digits, in the     *)
(* style its exponent calls for, trailing zeros removed.  Zero is "0" or  *)
(* "-0".                                                                   *)
(***************************************************************************)
FmtG(x, prec) ==
  Sign(x) \o (IF x.n = 0 THEN <<"0">> ELSE GStyle(RoundSig(x.n, IF prec = 0 THEN 1 ELSE prec)))

InfString(neg) == IF neg THEN <<"-", "i", "n", "f">> ELSE <<"i", "n", "f">>

\* What glibc's printf writes for a NaN, whatever the precision: "nan", or
\* "-nan" when its sign bit is set.
NanString(neg) == IF neg THEN <<"-", "n", "a", "n">> ELSE <<"n", "a", "n">>

\* while (*p == '0') { p--; l--; }: the length once the zeros are gone.
RECURSIVE ZeroStrip(_, _)
ZeroStrip(s, l) == IF s[l] = "0" THEN ZeroStrip(s, l - 1) ELSE l

HasDot(s) == \E i \in DOMAIN s : s[i] = "."

\* Mutant: the '.' left behind by the zeros is kept.
StripLen_keepDot(s) == IF HasDot(s) THEN ZeroStrip(s, Len(s)) ELSE Len(s)

\* if (*p == '.') l--;
DotStrip(s, p) == IF s[p] = "." THEN p - 1 ELSE p

\* The humanfriendly branch's removal of the trailing zeroes after the '.'
\* and then of the '.' itself, when strchr(buf,'.') finds one.
StripLen(s) == IF HasDot(s) THEN DotStrip(s, ZeroStrip(s, Len(s))) ELSE Len(s)

\* The snprintf call of each branch: "%.17Lf" or "%.17Lg" (ld2string has
\* no isnan test, so a NaN reaches it).
Snprintf(value, humanfriendly) ==
  CASE value.nan     -> NanString(value.neg)
    [] humanfriendly -> FmtF(value, Prec)
    [] OTHER         -> FmtG(value, Prec)

\* The length l and the string the buffer holds up to buf[l].
Terminated(s, l) == [ret |-> l, buf |-> SubSeq(s, 1, l)]

\* The branches of ld2string once snprintf has written s.
Ld2stringOf(len, value, humanfriendly, s) ==
  CASE value.inf /\ len < 5 -> [ret |-> 0, buf |-> << >>]
    [] value.inf        -> Terminated(InfString(value.neg), Len(InfString(value.neg)))
    [] Len(s) + 1 > len -> [ret |-> 0, buf |-> SubSeq(s, 1, len - 1)]
    [] humanfriendly    -> Terminated(s, StripLen(s))
    [] OTHER            -> Terminated(s, Len(s))

\* ld2string(buf, len, value, humanfriendly): the length it returns and
\* the string buf then holds (snprintf's truncated output after "No room").
ld2string(len, value, humanfriendly) ==
  Ld2stringOf(len, value, humanfriendly, Snprintf(value, humanfriendly))

DigitOf(c) == CHOOSE d \in 0..9 : DigitChar[d + 1] = c

\* One character of [digits][.digits][e(+|-)digits] read into acc.
ScanChar(acc, c) ==
  CASE c = "." -> [acc EXCEPT !.part = "frac"]
    [] c = "e" -> [acc EXCEPT !.part = "exp"]
    [] c = "+" -> acc
    [] c = "-" -> [acc EXCEPT !.esign = -1]
    [] acc.part = "exp" -> [acc EXCEPT !.ex = 10 * acc.ex + DigitOf(c)]
    [] OTHER -> [acc EXCEPT !.d = 10 * acc.d + DigitOf(c),
                            !.frac = acc.frac + (IF acc.part = "frac" THEN 1 ELSE 0)]

RECURSIVE Scan(_, _, _)
Scan(s, i, acc) == IF i > Len(s) THEN acc ELSE Scan(s, i + 1, ScanChar(acc, s[i]))

ScanStart == [d |-> 0, frac |-> 0, ex |-> 0, esign |-> 1, part |-> "int"]
DecimalOf(neg, acc) == [neg |-> neg, d |-> acc.d, x |-> acc.esign * acc.ex - acc.frac]

\* The decimal a string [-]digits[.digits][e(+|-)digits] denotes, as
\* d * 10^x with its sign.
Decimal(s) == DecimalOf(s[1] = "-", Scan(s, IF s[1] = "-" THEN 2 ELSE 1, ScanStart))

\* The result and errno of strtold for a decimal whose magnitude rounds
\* to mag units.
StrtoldOf(r, mag) ==
  CASE mag > MaxMag          -> [val |-> Inf(r.neg), erange |-> TRUE]
    [] mag = 0 /\ r.d # 0    -> [val |-> LD(r.neg, 0), erange |-> TRUE]
    [] OTHER                 -> [val |-> LD(r.neg, mag), erange |-> FALSE]

\* strtold of a string with no number in it: 0, with eptr left at its start.
NoConversion == [val |-> LD(FALSE, 0), erange |-> FALSE]

\* The magnitude of d * 10^x in units, rounded to a long double.
DecimalMag(r) ==
  IF r.d = 0 THEN 0
  ELSE NearestMag(r.d * Unit * 10^(IF r.x > 0 THEN r.x ELSE 0),
                  10^(IF r.x < 0 THEN -r.x ELSE 0))

StrtoldDec(r) == StrtoldOf(r, DecimalMag(r))

(***************************************************************************)
(* strtold(buf, &eptr) on a complete number: "inf" and "-inf" give the     *)
(* infinities; a decimal is rounded to the nearest long double, ties to    *)
(* even.  Beyond LDBL_MAX it gives HUGE_VALL and ERANGE; a non-zero value  *)
(* that rounds to zero gives 0 and ERANGE.  "nan" and "-nan" give a NaN;   *)
(* the empty string converts nothing and gives 0, without EINVAL (ERANGE  *)
(* for an inexact subnormal result is left out: string2ld looks at it only *)
(* when the value is 0 or infinite).                                       *)
(***************************************************************************)
strtold(s) ==
  CASE s = << >> -> NoConversion
    [] s \in {NanString(FALSE), NanString(TRUE)} ->
         [val |-> NaN(s[1] = "-"), erange |-> FALSE]
    [] s \in {InfString(FALSE), InfString(TRUE)} ->
         [val |-> Inf(s[1] = "-"), erange |-> FALSE]
    [] OTHER -> StrtoldDec(Decimal(s))

\* string2ld's checks on strtold's result r.
String2ldOf(s, r) ==
  [ok  |-> ~(Len(s) >= BufLen \/ (r.erange /\ (r.val.inf \/ r.val.n = 0)) \/ r.val.nan),
   val |-> r.val]

\* string2ld(s, slen, &value) on the strings ld2string writes and decimals
\* a user types (no space and nothing after the number, so the isspace and
\* eptr tests pass): it fails for a string too long for its buffer, for an
\* overflow or underflow and for a NaN; ok and the value otherwise, 0 for
\* the empty string.
string2ld(s) == String2ldOf(s, strtold(s))

====
