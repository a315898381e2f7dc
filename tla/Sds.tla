-------------------------------- MODULE Sds --------------------------------
(***************************************************************************)
(* Pure string/number conversions of the sds library as the helper        *)
(* programs under tests/ implement them.  A string is a sequence of       *)
(* one-character strings.                                                  *)
(***************************************************************************)
EXTENDS Integers, Sequences
LOCAL SeqX == INSTANCE SequencesExt

DigitChar == <<"0", "1", "2", "3", "4", "5", "6", "7", "8", "9">>

\* The do { *p++ = '0'+(v%10); v /= 10; } while(v) loop: digits of v,
\* least significant first.
RECURSIVE ReversedDigits(_)
ReversedDigits(v) ==
  <<DigitChar[(v % 10) + 1]>> \o
    (IF v \div 10 = 0 THEN << >> ELSE ReversedDigits(v \div 10))

(***************************************************************************)
(* sdsll2str(s, value): v = (value < 0) ? -value : value is computed on a  *)
(* bits-wide long long and read as unsigned, so -LLONG_MIN wraps to        *)
(* 2^(bits-1), which is its correct magnitude.  The digits and the sign   *)
(* are written reversed and the buffer is then reversed in place.         *)
(***************************************************************************)
\* A plausible bug: the sign appended after the buffer is reversed.
Sdsll2str_signLast(value, bits) ==
  LET v == IF value < 0 THEN (-value) % (2^bits) ELSE value
  IN SeqX!Reverse(ReversedDigits(v)) \o (IF value < 0 THEN <<"-">> ELSE << >>)

Sdsll2str(value, bits) ==
  LET v    == IF value < 0 THEN (-value) % (2^bits) ELSE value
      rev  == ReversedDigits(v) \o (IF value < 0 THEN <<"-">> ELSE << >>)
  IN SeqX!Reverse(rev)

\* The length sdsll2str returns (also sdigits10 for the same value).
Sdsll2strLen(value, bits) == Len(Sdsll2str(value, bits))

====
