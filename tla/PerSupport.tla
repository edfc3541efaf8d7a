----------------------------- MODULE PerSupport -----------------------------
(***************************************************************************)
(* The bit stream and the number encodings under the unaligned PER codec   *)
(* of src/vanetza-extension/asn1/support: asn_bit_data.c, per_support.c    *)
(* and the long conversions of INTEGER.c.                                  *)
(*                                                                         *)
(* A stream is a tuple of bits.  Reading takes the stream and the number   *)
(* of bits consumed so far; the getters answer -1, as in C, when the       *)
(* stream has too few bits left.  TLC's integers have 32 bits, so a C long *)
(* (64 bits, signed or unsigned) is a triple of limbs <<hi, mid, lo>> that *)
(* stands for hi * 2^48 + mid * 2^24 + lo with mid, lo \in 0 .. 2^24 - 1.  *)
(***************************************************************************)
EXTENDS Integers, Sequences

LIMB == 16777216

(* Longs: conversion, order and arithmetic. *)
Limb == {n \in Nat : n < LIMB}
Longs == Int \X Limb \X Limb

Long(n) == <<IF n < 0 THEN -1 ELSE 0, (n \div LIMB) % LIMB, n % LIMB>>

Carry(hi, mid, lo) ==
    LET m == mid + lo \div LIMB
    IN  <<hi + m \div LIMB, m % LIMB, lo % LIMB>>

Plus(a, b) == Carry(a[1] + b[1], a[2] + b[2], a[3] + b[3])
Minus(a, b) == Carry(a[1] - b[1], a[2] - b[2], a[3] - b[3])

Less(a, b) ==
    \/ a[1] < b[1]
    \/ a[1] = b[1] /\ a[2] < b[2]
    \/ a[1] = b[1] /\ a[2] = b[2] /\ a[3] < b[3]

Within(lb, v, ub) == ~Less(v, lb) /\ ~Less(ub, v)

(* 2^n, for n <= 64. *)
PowerLong(n) ==
    IF n < 24 THEN <<0, 0, 2^n>> ELSE IF n < 48 THEN <<0, 2^(n - 24), 0>> ELSE <<2^(n - 48), 0, 0>>

(* The low n bits of a natural number below 2^31, most significant first. *)
BitsOf(v, n) == [i \in 1 .. n |-> (v \div 2^(n - i)) % 2]

NumberOf(bits) ==
    LET upto[i \in 0 .. Len(bits)] == IF i = 0 THEN 0 ELSE 2 * upto[i - 1] + bits[i]
    IN  upto[Len(bits)]

(* The low n <= 64 bits of a long in two's complement, and the unsigned     *)
(* long that at most 64 bits denote.                                        *)
LongBits(v, n) ==
    SubSeq(BitsOf(v[1] % 65536, 16) \o BitsOf(v[2], 24) \o BitsOf(v[3], 24), 65 - n, 64)

LongOf(bits) ==
    LET b == [i \in 1 .. 64 - Len(bits) |-> 0] \o bits
    IN  <<NumberOf(SubSeq(b, 1, 16)), NumberOf(SubSeq(b, 17, 40)), NumberOf(SubSeq(b, 41, 64))>>

-----------------------------------------------------------------------------
(* asn_bit_data.c.  The buffer arithmetic of the C functions (offset within *)
(* the octet, 24 bits at a time, flushing) is the position in the stream.   *)

asn_get_few_bits(pd, pos, nbits) ==
    IF pos + nbits > Len(pd) THEN -1 ELSE NumberOf(SubSeq(pd, pos + 1, pos + nbits))

(* The bits themselves, or <<-1>> when there are too few. *)
asn_get_many_bits(pd, pos, nbits) ==
    IF pos + nbits > Len(pd) THEN <<-1>> ELSE SubSeq(pd, pos + 1, pos + nbits)

Starving(bits) == bits = <<-1>>

(* An output stream is [ok, bits]; ok is FALSE once an encoder has failed. *)
NoOutput == [ok |-> TRUE, bits |-> <<>>]
EncodeFailed == [ok |-> FALSE, bits |-> <<>>]

asn_put_many_bits(po, src) == [ok |-> po.ok, bits |-> po.bits \o src]

asn_put_few_bits(po, bits, obits) == asn_put_many_bits(po, BitsOf(bits, obits))

-----------------------------------------------------------------------------
(* per_support.c.  A getter answers <<value, position after it>>.           *)

(* The general length determinant; effective bits in 0..16 mean that the    *)
(* length is a constrained number instead.  Of 16384 on, contents are sent  *)
(* in fragments, for which no packet is long enough: the determinant of a   *)
(* fragment is read, but here writing one counts as a failure.              *)
uper_get_length(pd, pos, ebits, lower_bound) ==
    LET n == asn_get_few_bits(pd, pos, ebits)
        o == asn_get_few_bits(pd, pos, 8)
        p == asn_get_few_bits(pd, pos + 8, 8)
    IN  IF ebits \in 0 .. 16
        THEN <<IF n < 0 THEN n ELSE n + lower_bound, pos + ebits>>
        ELSE IF o < 0 THEN <<-1, pos>>
        ELSE IF o < 128 THEN <<o, pos + 8>>
        ELSE IF o < 192 THEN <<IF p < 0 THEN -1 ELSE (o - 128) * 256 + p, pos + 16>>
        ELSE <<IF o - 192 \in 1 .. 4 THEN 16384 * (o - 192) ELSE -1, pos + 8>>

uper_put_length(po, length) ==
    IF length <= 127 THEN asn_put_few_bits(po, length, 8)
    ELSE IF length < 16384 THEN asn_put_few_bits(po, length + 32768, 16)
    ELSE EncodeFailed

(* The normally small length of an extension bitmap. *)
uper_get_nslength(pd, pos) ==
    LET n == asn_get_few_bits(pd, pos + 1, 6)
        long == uper_get_length(pd, pos + 1, -1, 0)
    IN  IF asn_get_few_bits(pd, pos, 1) = 0
        THEN <<IF n < 0 THEN -1 ELSE n + 1, pos + 7>>
        ELSE IF long[1] < 16384 THEN long ELSE <<-1, pos>>

uper_put_nslength(po, length) ==
    IF length = 0 THEN EncodeFailed
    ELSE IF length <= 64 THEN asn_put_few_bits(po, length - 1, 7)
    ELSE uper_put_length(po, length)

(* The normally small whole number of an extension index. *)
uper_get_nsnnwn(pd, pos) ==
    LET small == asn_get_few_bits(pd, pos, 7)
        low == asn_get_few_bits(pd, pos + 7, 2)
        bytes == (small - 64) * 4 + low
    IN  IF small < 64 THEN <<small, pos + 7>>
        ELSE IF low < 0 \/ bytes >= 3 THEN <<-1, pos>>
        ELSE IF bytes = 0 THEN <<0, pos + 9>>
        ELSE <<asn_get_few_bits(pd, pos + 9, 8 * bytes), pos + 9 + 8 * bytes>>

uper_put_nsnnwn(po, n) ==
    LET bytes == IF n < 256 THEN 1 ELSE IF n < 65536 THEN 2 ELSE 3
    IN  IF n < 0 \/ n >= LIMB THEN EncodeFailed
        ELSE IF n <= 63 THEN asn_put_few_bits(po, n, 7)
        ELSE asn_put_few_bits(asn_put_few_bits(po, bytes, 8), n, 8 * bytes)

(* nbits of an unsigned long: 31 at a time in C. *)
uper_get_constrained_whole_number(pd, pos, nbits) == asn_get_many_bits(pd, pos, nbits)

uper_put_constrained_whole_number_u(po, v, nbits) == asn_put_many_bits(po, LongBits(v, nbits))

(* WRONG variants of the two below: the lower bound is forgotten, and what   *)
(* lies beyond the upper one is accepted.                                    *)
per_long_range_rebase_unshifted(v, lb, ub) == IF Within(lb, v, ub) THEN <<v>> ELSE <<>>
per_long_range_unrebase_unchecked(inp, lb, ub) == <<Plus(inp, lb)>>

(* v - lb, and back: only what lies in the range is accepted either way. *)
per_long_range_rebase(v, lb, ub) == IF Within(lb, v, ub) THEN <<Minus(v, lb)>> ELSE <<>>

per_long_range_unrebase(inp, lb, ub) ==
    IF Less(ub, lb) \/ Less(Minus(ub, lb), inp) THEN <<>> ELSE <<Plus(inp, lb)>>

-----------------------------------------------------------------------------
(* INTEGER.c: the contents octets of an INTEGER, as bits. *)

(* The fewest octets whose two's complement is v. *)
asn_imax2INTEGER(v) ==
    LET b == LongBits(v, 64)
        fits(k) == \A i \in 1 .. 65 - 8 * k : b[i] = b[1]
        k == CHOOSE j \in 1 .. 8 : fits(j) /\ \A i \in 1 .. j - 1 : ~fits(i)
    IN  SubSeq(b, 65 - 8 * k, 64)

(* The signed long that the octets denote, <<>> if it needs more than 64 bits. *)
asn_INTEGER2imax(bits) ==
    LET n == Len(bits)
        extended == [i \in 1 .. 64 |-> IF i <= 64 - n THEN bits[1] ELSE bits[n - 64 + i]]
        unsigned == LongOf(extended)
    IN  IF n = 0 THEN <<Long(0)>>
        ELSE IF \E i \in 1 .. n - 63 : bits[i] # bits[1] THEN <<>>
        ELSE <<IF unsigned[1] >= 32768 THEN Minus(unsigned, <<65536, 0, 0>>) ELSE unsigned>>

(* The unsigned long: leading zero octets are ignored. *)
asn_INTEGER2umax(bits) ==
    LET n == Len(bits)
    IN  IF n <= 64 THEN <<LongOf(bits)>>
        ELSE IF \E i \in 1 .. n - 64 : bits[i] # 0 THEN <<>>
        ELSE <<LongOf(SubSeq(bits, n - 63, n))>>
=============================================================================
