------------------------------ MODULE SdsTrim ------------------------------
(***************************************************************************)
(* The sds header and sdstrim of tests/sdstrim.c.  An sds is its header    *)
(* (the flags byte and, for types 8 to 64, the len and alloc fields) and   *)
(* its buffer, a sequence of one-character strings.  The header fields     *)
(* keep their C widths; lengths are TLC integers (below 2^31), on which    *)
(* the 32- and 64-bit fields never truncate.                               *)
(***************************************************************************)
EXTENDS Integers, Sequences, Bitwise
LOCAL FSX == INSTANCE FiniteSetsExt

CONSTANTS
  NUL,   \* the byte '\0'
  NULL   \* a null init pointer

SDS_TYPE_5  == 0
SDS_TYPE_8  == 1
SDS_TYPE_16 == 2
SDS_TYPE_32 == 3
SDS_TYPE_64 == 4
SDS_TYPE_MASK == 7
SDS_TYPE_BITS == 3

\* The width of the len / alloc fields of the struct sdshdr of each type.
FieldBits == [t \in {SDS_TYPE_8, SDS_TYPE_16, SDS_TYPE_32, SDS_TYPE_64} |->
                CASE t = SDS_TYPE_8 -> 8 [] t = SDS_TYPE_16 -> 16
                  [] t = SDS_TYPE_32 -> 32 [] t = SDS_TYPE_64 -> 64]

\* A size_t stored into a field of the type's width.
Field(n, t) == IF FieldBits[t] < 31 THEN n % 2^FieldBits[t] ELSE n

\* Mutant: type 5 also for a string of 32 bytes.
sdsReqType_le32(string_size) ==
  CASE string_size <= 32   -> SDS_TYPE_5
    [] string_size < 255   -> SDS_TYPE_8
    [] string_size < 65535 -> SDS_TYPE_16
    [] OTHER               -> SDS_TYPE_32

\* The smallest header whose length field the code lets hold string_size
\* (string_size < 0xffffffff always holds below 2^31).
sdsReqType(string_size) ==
  CASE string_size < 32    -> SDS_TYPE_5
    [] string_size < 255   -> SDS_TYPE_8
    [] string_size < 65535 -> SDS_TYPE_16
    [] OTHER               -> SDS_TYPE_32

\* The flags byte of a type-5 sds: the type in the 3 low bits, the length
\* shifted above them, stored into an unsigned char.
Type5Flags(len) == (SDS_TYPE_5 | (len * 2^SDS_TYPE_BITS)) % 256

Type(s) == s.flags & SDS_TYPE_MASK

sdslen(s) == IF Type(s) = SDS_TYPE_5 THEN shiftR(s.flags, SDS_TYPE_BITS) ELSE s.len

sdssetlen(s, newlen) ==
  IF Type(s) = SDS_TYPE_5 THEN [s EXCEPT !.flags = Type5Flags(newlen)]
  ELSE [s EXCEPT !.len = Field(newlen, Type(s))]

(***************************************************************************)
(* sdsnewlen(init, initlen): an empty string gets type 8, not 5; init =    *)
(* NULL gives initlen zero bytes (memset).                                  *)
(***************************************************************************)
sdsnewlen(init, initlen) ==
  LET t    == sdsReqType(initlen)
      type == IF t = SDS_TYPE_5 /\ initlen = 0 THEN SDS_TYPE_8 ELSE t
      buf  == IF init = NULL THEN [i \in 1..initlen |-> NUL] ELSE SubSeq(init, 1, initlen)
  IN IF type = SDS_TYPE_5
     THEN [flags |-> Type5Flags(initlen), len |-> 0, alloc |-> 0, buf |-> buf]
     ELSE [flags |-> type, len |-> Field(initlen, type),
           alloc |-> Field(initlen, type), buf |-> buf]

\* strchr(cset, c) is non-NULL for every character of cset, and also for
\* c = '\0', where it returns the address of cset's terminator.
strchr(cset, c) == c \in cset \/ c = NUL

RECURSIVE SkipFront(_, _, _, _)
SkipFront(buf, cset, sp, end) ==
  IF sp <= end /\ strchr(cset, buf[sp]) THEN SkipFront(buf, cset, sp + 1, end) ELSE sp

RECURSIVE SkipBack(_, _, _, _)
SkipBack(buf, cset, ep, sp) ==
  IF ep > sp /\ strchr(cset, buf[ep]) THEN SkipBack(buf, cset, ep - 1, sp) ELSE ep

(***************************************************************************)
(* sdstrim(s, cset), with 1-based positions: sp advances from the first    *)
(* byte and ep retreats from the last over bytes strchr finds in cset; the *)
(* len bytes from sp are memmoved to the front, s[len] = '\0' ends the     *)
(* string there (the buffer keeps its old tail past it), and the header   *)
(* length is set in place: the type and alloc never change.                *)
(***************************************************************************)
\* Mutant: the kept length computed as ep - sp.
sdstrim_len(s, cset) ==
  LET sp  == SkipFront(s.buf, cset, 1, sdslen(s))
      ep  == SkipBack(s.buf, cset, sdslen(s), sp)
      len == IF sp > ep THEN 0 ELSE ep - sp
  IN sdssetlen([s EXCEPT !.buf = SubSeq(s.buf, sp, sp + len - 1)], len)

sdstrim(s, cset) ==
  LET sp  == SkipFront(s.buf, cset, 1, sdslen(s))
      ep  == SkipBack(s.buf, cset, sdslen(s), sp)
      len == IF sp > ep THEN 0 ELSE (ep - sp) + 1
  IN sdssetlen([s EXCEPT !.buf = SubSeq(s.buf, sp, sp + len - 1)], len)

\* The string an sds holds: its first sdslen(s) bytes.
Content(s) == SubSeq(s.buf, 1, sdslen(s))

\* Reference: the string without its longest prefix and suffix made only of
\* characters of cset, as the comment of sdstrim describes it.
TrimRef(str, cset) ==
  LET kept == {i \in DOMAIN str : str[i] \notin cset}
  IN IF kept = {} THEN << >> ELSE SubSeq(str, FSX!Min(kept), FSX!Max(kept))

====
