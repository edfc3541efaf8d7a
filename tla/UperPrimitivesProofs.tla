------------------------ MODULE UperPrimitivesProofs ------------------------
(***************************************************************************)
(* What the types without members, open types and CHOICE promise under any *)
(* constraint that fits (UperPrimitives; DescriptorsFit of UperCodec says  *)
(* that the generated ones do): exactly the values described here can be   *)
(* sent, a value that was sent is read back from behind any bits and in    *)
(* front of any others, and a stream that ends within it is found to be    *)
(* cut.  Open types and CHOICE promise this if the codec of the type that  *)
(* they hold does, whatever it is.                                         *)
(*                                                                         *)
(* Each codec is treated in three steps: the bits that the encoder appends *)
(* to its output, what the decoder answers where these bits lie in a       *)
(* stream (At), and what it answers where the stream ends within them      *)
(* (CutAt).                                                                *)
(***************************************************************************)
EXTENDS UperPrimitives, PerSupportProofs

\* The streams that a decoder may find when the encoder appended x to a: with
\* anything behind it, or ending within x.
Delivered(er, a, rest, x) ==
    /\ er.ok = TRUE /\ er.bits \o rest \in Bits /\ Len(a) \in Nat
    /\ Len(er.bits) = Len(a) + Len(x) /\ At(er.bits \o rest, Len(a), x)
    /\ \A cut \in Len(a) .. Len(er.bits) - 1 :
           /\ SubSeq(er.bits, 1, cut) \in Bits
           /\ CutAt(SubSeq(er.bits, 1, cut), Len(a), x)

\* An output that ends with x delivers x.
LEMMA Delivery ==
    ASSUME NEW a \in Bits, NEW rest \in Bits, NEW x \in Bits, NEW er, er = Output(a \o x)
    PROVE  Delivered(er, a, rest, x)
<1> DEFINE b == a \o x
<1>1. er.ok = TRUE /\ er.bits = b
    BY OutputParts
<1>2. /\ b \o rest \in Bits /\ Len(a) \in Nat /\ Len(x) \in Nat
      /\ At(b \o rest, Len(a), x) /\ Len(b) = Len(a) + Len(x)
    BY ReadBack
<1>3. ASSUME NEW cut \in Len(a) .. Len(b) - 1
      PROVE  SubSeq(b, 1, cut) \in Bits /\ CutAt(SubSeq(b, 1, cut), Len(a), x)
    <2>1. cut \in Nat /\ Len(a) =< cut /\ cut < Len(a) + Len(x)
        BY <1>2
    <2> QED BY <2>1, CutOutput
<1> HIDE DEF b
<1> QED BY <1>1, <1>2, <1>3 DEF Delivered

\* A single bit.
Bit(v) == BitsOf(v, 1)

\* It is read where it lies and missed where the stream ends.
LEMMA SingleBit ==
    ASSUME NEW v \in {0, 1}
    PROVE  /\ Bit(v) \in Bits /\ Len(Bit(v)) = 1
           /\ \A pd \in Bits, pos \in Nat :
                 /\ At(pd, pos, Bit(v)) => asn_get_few_bits(pd, pos, 1) = v
                 /\ CutAt(pd, pos, Bit(v)) => asn_get_few_bits(pd, pos, 1) = -1
<1> DEFINE one == 1
           x == BitsOf(v, one)
<1>1. one \in Nat /\ one =< 31 /\ v \in Nat /\ v < 2^one
    OBVIOUS
<1> HIDE DEF one
<1>2. x \in Bits /\ Len(x) = one
    BY <1>1, BitsOfType
<1>3. ASSUME NEW pd \in Bits, NEW pos \in Nat, At(pd, pos, x)
      PROVE  asn_get_few_bits(pd, pos, one) = v
    BY <1>1, <1>3, GetFewBits
<1>4. ASSUME NEW pd \in Bits, NEW pos \in Nat, CutAt(pd, pos, x)
      PROVE  asn_get_few_bits(pd, pos, one) = -1
    <2> HIDE DEF x
    <2> QED BY <1>2, <1>4, GetCut
<1>5. Bit(v) = x /\ one = 1
    BY DEF Bit, one
<1> QED BY <1>2, <1>3, <1>4, <1>5

(***************************************************************************)
(* BOOLEAN.c: the value comes back, and a missing bit is noticed.          *)
(***************************************************************************)
THEOREM BooleanRoundTrip ==
    ASSUME NEW a \in Bits, NEW rest \in Bits, NEW v \in {0, 1}
    PROVE  LET er == BOOLEAN_encode_uper(v, Output(a))
           IN  /\ er.ok /\ BOOLEAN_decode_uper(er.bits \o rest, Len(a)) = Decoded(v, Len(er.bits), 1)
               /\ \A cut \in Len(a) .. Len(er.bits) - 1 :
                      BOOLEAN_decode_uper(SubSeq(er.bits, 1, cut), Len(a)) = ASN__DECODE_STARVED
<1> DEFINE er == BOOLEAN_encode_uper(v, Output(a))
           x == Bit(v)
<1>1. er = Output(a \o x)
    <2>1. (IF v # 0 THEN 1 ELSE 0) = v
        OBVIOUS
    <2> QED BY <2>1, PutFewBits DEF BOOLEAN_encode_uper, Bit
<1>2. x \in Bits /\ Len(x) = 1
    BY SingleBit
<1> HIDE DEF er
<1>3. Delivered(er, a, rest, x)
    <2> HIDE DEF x
    <2> QED BY <1>1, <1>2, Delivery
<1>4. asn_get_few_bits(er.bits \o rest, Len(a), 1) = v
    BY <1>3, SingleBit DEF Delivered
<1>5. BOOLEAN_decode_uper(er.bits \o rest, Len(a)) = Decoded(v, Len(er.bits), 1)
    <2>1. ~ (v < 0) /\ Len(a) + 1 = Len(er.bits)
        BY <1>2, <1>3 DEF Delivered
    <2> QED BY <1>4, <2>1 DEF BOOLEAN_decode_uper
<1>6. ASSUME NEW cut \in Len(a) .. Len(er.bits) - 1
      PROVE  BOOLEAN_decode_uper(SubSeq(er.bits, 1, cut), Len(a)) = ASN__DECODE_STARVED
    <2>1. asn_get_few_bits(SubSeq(er.bits, 1, cut), Len(a), 1) = -1
        BY <1>3, SingleBit DEF Delivered
    <2> QED BY <2>1 DEF BOOLEAN_decode_uper
<1> QED BY <1>3, <1>5, <1>6 DEF er, Delivered

-----------------------------------------------------------------------------
(* The bit in front of an extensible type. *)

\* The mark, and the bits it takes.
Marked(inext) == IF inext THEN 1 ELSE 0
MarkBits(ct, inext) == IF ct.ext THEN Bit(Marked(inext)) ELSE <<>>

\* PutMark appends the mark.
LEMMA PutMarkBits ==
    ASSUME NEW a \in Bits, NEW ct, ct.ext \in BOOLEAN, NEW inext \in BOOLEAN
    PROVE  /\ MarkBits(ct, inext) \in Bits
           /\ PutMark(ct, inext, Output(a)) = Output(a \o MarkBits(ct, inext))
<1>1. CASE ct.ext
    <2>1. Marked(inext) \in {0, 1}
        BY DEF Marked
    <2>2. MarkBits(ct, inext) = Bit(Marked(inext)) /\ Bit(Marked(inext)) \in Bits
        BY <1>1, <2>1, SingleBit DEF MarkBits
    <2>3. PutMark(ct, inext, Output(a)) = asn_put_few_bits(Output(a), Marked(inext), 1)
        BY <1>1 DEF PutMark, Marked
    <2> QED BY <2>2, <2>3, PutFewBits DEF Bit
<1>2. CASE ~ ct.ext
    <2>1. MarkBits(ct, inext) = <<>> /\ <<>> \in Bits /\ PutMark(ct, inext, Output(a)) = Output(a)
        BY <1>2 DEF MarkBits, PutMark, Bits
    <2>2. a \o <<>> = a
        BY ConcatEmptySeq DEF Bits
    <2> QED BY <2>1, <2>2
<1> QED BY <1>1, <1>2

\* ExtensionMark reads it, or notices that it is missing.
LEMMA GetMarkBits ==
    ASSUME NEW pd \in Bits, NEW pos \in Nat, NEW ct, ct.ext \in BOOLEAN, NEW inext \in BOOLEAN,
           inext => ct.ext
    PROVE  /\ At(pd, pos, MarkBits(ct, inext)) =>
                 /\ ExtensionMark(ct, pd, pos) = Marked(inext)
                 /\ AfterMark(ct, pos) = pos + Len(MarkBits(ct, inext))
           /\ CutAt(pd, pos, MarkBits(ct, inext)) => ExtensionMark(ct, pd, pos) = -1
<1>1. CASE ct.ext
    <2>1. Marked(inext) \in {0, 1}
        BY DEF Marked
    <2>2. MarkBits(ct, inext) = Bit(Marked(inext)) /\ Len(Bit(Marked(inext))) = 1
        BY <1>1, <2>1, SingleBit DEF MarkBits
    <2>3. AfterMark(ct, pos) = pos + 1 /\ ExtensionMark(ct, pd, pos) = asn_get_few_bits(pd, pos, 1)
        BY <1>1 DEF AfterMark, ExtensionMark
    <2> QED BY <2>1, <2>2, <2>3, SingleBit
<1>2. CASE ~ ct.ext
    <2>1. MarkBits(ct, inext) = <<>> /\ Len(<<>>) = 0
        BY <1>2 DEF MarkBits
    <2>2. AfterMark(ct, pos) = pos /\ ExtensionMark(ct, pd, pos) = 0 /\ Marked(inext) = 0
        BY <1>2 DEF AfterMark, ExtensionMark, Marked
    <2>3. ~ CutAt(pd, pos, <<>>)
        BY <2>1, BitsParts DEF CutAt
    <2> QED BY <2>1, <2>2, <2>3
<1> QED BY <1>1, <1>2

\* x is the mark (a name for the equation).
IsMark(x, ct, inext) == x = MarkBits(ct, inext)

\* A mark with a body y behind it, complete or cut.
LEMMA GetMarked ==
    ASSUME NEW pd \in Bits, NEW pos \in Nat, NEW ct, ct.ext \in BOOLEAN, NEW inext \in BOOLEAN,
           inext => ct.ext, NEW y \in Bits, NEW x, IsMark(x, ct, inext)
    PROVE  /\ At(pd, pos, x \o y) =>
                 /\ ExtensionMark(ct, pd, pos) = Marked(inext)
                 /\ AfterMark(ct, pos) \in Nat /\ At(pd, AfterMark(ct, pos), y)
                 /\ AfterMark(ct, pos) + Len(y) = pos + Len(x \o y)
           /\ CutAt(pd, pos, x \o y) =>
                 \/ ExtensionMark(ct, pd, pos) = -1
                 \/ /\ ExtensionMark(ct, pd, pos) = Marked(inext)
                    /\ AfterMark(ct, pos) \in Nat /\ CutAt(pd, AfterMark(ct, pos), y)
<1>1. x \in Bits
    BY PutMarkBits DEF IsMark
<1>2. Len(x) \in Nat /\ Len(y) \in Nat /\ Len(x \o y) = Len(x) + Len(y)
    BY <1>1, BitsParts, BitsConcat
<1>3. /\ At(pd, pos, x) =>
            ExtensionMark(ct, pd, pos) = Marked(inext) /\ AfterMark(ct, pos) = pos + Len(x)
      /\ CutAt(pd, pos, x) => ExtensionMark(ct, pd, pos) = -1
    BY GetMarkBits DEF IsMark
<1>4. pos + Len(x) \in Nat /\ pos + Len(x) + Len(y) = pos + Len(x \o y)
    BY <1>2
<1>5. At(pd, pos, x \o y) => At(pd, pos, x) /\ At(pd, pos + Len(x), y)
    BY <1>1, AtConcat
<1>6. CutAt(pd, pos, x \o y) => CutAt(pd, pos, x) \/ (At(pd, pos, x) /\ CutAt(pd, pos + Len(x), y))
    BY <1>1, CutConcat
<1> QED BY <1>3, <1>4, <1>5, <1>6

\* The index of an addition: up to 63 it takes seven bits.
LEMMA GetSmallNumber ==
    ASSUME NEW pd \in Bits, NEW pos \in Nat, NEW n \in Nat, n <= 63
    PROVE  /\ BitsOf(n, 7) \in Bits /\ Len(BitsOf(n, 7)) = 7
           /\ At(pd, pos, BitsOf(n, 7)) => uper_get_nsnnwn(pd, pos) = <<n, pos + 7>>
           /\ CutAt(pd, pos, BitsOf(n, 7)) => uper_get_nsnnwn(pd, pos)[1] = -1
           /\ \A a : uper_put_nsnnwn(Output(a), n) = Output(a \o BitsOf(n, 7))
<1> DEFINE seven == 7
           x == BitsOf(n, seven)
<1>1. seven \in Nat /\ seven =< 31 /\ n < 2^seven
    OBVIOUS
<1>0. seven = 7
    OBVIOUS
<1>2. asn_get_few_bits(pd, pos, seven) < 64 =>
          uper_get_nsnnwn(pd, pos) = <<asn_get_few_bits(pd, pos, seven), pos + 7>>
    BY DEF uper_get_nsnnwn
<1>3. ASSUME NEW a PROVE uper_put_nsnnwn(Output(a), n) = asn_put_few_bits(Output(a), n, seven)
    <2>1. ~ (n < 0 \/ n >= LIMB)
        BY SMT DEF LIMB
    <2> QED BY <2>1 DEF uper_put_nsnnwn
<1> HIDE DEF seven
<1>4. x \in Bits /\ Len(x) = seven
    BY <1>1, BitsOfType
<1>5. ASSUME At(pd, pos, x) PROVE asn_get_few_bits(pd, pos, seven) = n
    BY <1>1, <1>5, GetFewBits
<1>6. ASSUME CutAt(pd, pos, x) PROVE asn_get_few_bits(pd, pos, seven) = -1
    <2> HIDE DEF x
    <2> QED BY <1>4, <1>6, GetCut
<1>7. \A a : uper_put_nsnnwn(Output(a), n) = Output(a \o x)
    BY <1>3, PutFewBits
<1>8. x = BitsOf(n, 7)
    BY <1>0
<1> HIDE DEF x
<1>9. n < 64 /\ -1 < 64
    OBVIOUS
<1>10. At(pd, pos, x) => uper_get_nsnnwn(pd, pos) = <<n, pos + 7>>
    BY <1>2, <1>5, <1>9
<1>11. CutAt(pd, pos, x) => uper_get_nsnnwn(pd, pos)[1] = -1
    BY <1>2, <1>6, <1>9
<1> QED BY <1>0, <1>4, <1>7, <1>8, <1>10, <1>11

-----------------------------------------------------------------------------
(* ENUMERATED *)

\* An item behind the root, and the bits behind the mark.
Added(td, v) == v >= EnumRoot(td)
EnumBody(td, ct, v) == IF Added(td, v) THEN BitsOf(v - EnumRoot(td), 7) ELSE BitsOf(v, ct.bits)

\* The items that can be sent.
EnumItem(td, ct, v) == v \in 0 .. td.count - 1 /\ (Added(td, v) => ct.ext)

\* The bounds of the root, of the additions and of their bits.
LEMMA EnumRoots ==
    ASSUME NEW td, NEW ct, EnumFits(td, ct), NEW v \in Nat, EnumItem(td, ct, v)
    PROVE  /\ EnumRoot(td) \in Nat /\ EnumRoot(td) <= td.count /\ td.count \in Nat /\ v < td.count
           /\ Added(td, v) =>
                /\ td.extension # 0 /\ EnumRoot(td) = td.extension - 1 /\ td.extension \in Nat
                /\ v - EnumRoot(td) \in Nat /\ v - EnumRoot(td) <= 63
           /\ ~ Added(td, v) => v < EnumRoot(td) /\ v < 2^ct.bits
           /\ ct.bits \in Nat /\ ct.bits =< 31 /\ ct.ext \in BOOLEAN
<1>1. ct.bits \in Nat /\ ct.bits =< 31 /\ ct.ext \in BOOLEAN
    BY DEF EnumFits
<1>2. 2^ct.bits \in Nat
    BY <1>1, PowerPositive
<1>3. /\ td.count \in Nat /\ td.extension \in Nat /\ td.extension <= td.count + 1
      /\ td.count - EnumRoot(td) <= 64 /\ v < td.count /\ EnumRoot(td) <= 2^ct.bits
    BY DEF EnumFits, EnumItem
<1>4. CASE td.extension = 0
    <2>1. EnumRoot(td) = td.count
        BY <1>4 DEF EnumRoot
    <2> QED BY <1>1, <1>2, <1>3, <2>1 DEF Added
<1>5. CASE td.extension # 0
    <2>1. EnumRoot(td) = td.extension - 1
        BY <1>5 DEF EnumRoot
    <2> QED BY <1>1, <1>2, <1>3, <1>5, <2>1 DEF Added
<1> QED BY <1>4, <1>5

\* What the encoder appends, or that it refuses.
LEMMA EnumPut ==
    ASSUME NEW td, NEW per, NEW ct, ct = ValueConstraint(td, per), EnumFits(td, ct),
           NEW v \in Nat, NEW a \in Bits
    PROVE  /\ EnumItem(td, ct, v) =>
                NativeEnumerated_encode_uper(td, per, v, Output(a))
                    = Output((a \o MarkBits(ct, Added(td, v))) \o EnumBody(td, ct, v))
           /\ ~ EnumItem(td, ct, v) => NativeEnumerated_encode_uper(td, per, v, Output(a)) = EncodeFailed
<1> DEFINE inext == Added(td, v)
           po == PutMark(ct, inext, Output(a))
           b == a \o MarkBits(ct, inext)
           er == NativeEnumerated_encode_uper(td, per, v, Output(a))
           n == v - EnumRoot(td)
<1>1. ct.bits >= 0 /\ ct.ext \in BOOLEAN
    BY DEF EnumFits
<1>2. inext \in BOOLEAN
    BY DEF Added
<1>3. po = Output(b)
    BY <1>1, <1>2, PutMarkBits
<1>4. /\ v \notin 0 .. td.count - 1 \/ (inext /\ ~ ct.ext) => er = EncodeFailed
      /\ ~ (v \notin 0 .. td.count - 1 \/ (inext /\ ~ ct.ext)) =>
            /\ ~ inext => er = asn_put_few_bits(po, v, ct.bits)
            /\ inext /\ td.extension # 0 =>
                   er = uper_put_nsnnwn(po, v - (td.extension - 1))
    BY <1>1 DEF NativeEnumerated_encode_uper, Added
<1> HIDE DEF po, b, er
<1>5. CASE ~ EnumItem(td, ct, v)
    <2>1. v \notin 0 .. td.count - 1 \/ (inext /\ ~ ct.ext)
        BY <1>5 DEF EnumItem
    <2> QED BY <1>4, <1>5, <2>1 DEF er
<1>6. CASE EnumItem(td, ct, v)
    <2>1. ~ (v \notin 0 .. td.count - 1 \/ (inext /\ ~ ct.ext))
        BY <1>6 DEF EnumItem
    <2>2. CASE ~ inext
        <3>1. er = asn_put_few_bits(Output(b), v, ct.bits)
            BY <1>3, <1>4, <2>1, <2>2
        <3>2. EnumBody(td, ct, v) = BitsOf(v, ct.bits)
            BY <2>2 DEF EnumBody
        <3> QED BY <1>6, <3>1, <3>2, PutFewBits DEF er, b
    <2>3. CASE inext
        <3>1. td.extension # 0 /\ n = v - (td.extension - 1) /\ n \in Nat /\ n <= 63
            BY <1>6, <2>3, EnumRoots
        <3>2. er = uper_put_nsnnwn(Output(b), n)
            BY <1>3, <1>4, <2>1, <2>3, <3>1
        <3>3. EnumBody(td, ct, v) = BitsOf(n, 7)
            BY <2>3 DEF EnumBody
        <3> HIDE DEF n
        <3>4. uper_put_nsnnwn(Output(b), n) = Output(b \o BitsOf(n, 7))
            <4>1. <<>> \in Bits /\ 0 \in Nat
                BY DEF Bits
            <4> QED BY <3>1, <4>1, GetSmallNumber
        <3> QED BY <1>6, <3>2, <3>3, <3>4 DEF er, b
    <2> QED BY <2>2, <2>3
<1> QED BY <1>5, <1>6

\* The bits behind the mark are bits.
LEMMA EnumBodyType ==
    ASSUME NEW td, NEW ct, EnumFits(td, ct), NEW v \in Nat, EnumItem(td, ct, v)
    PROVE  EnumBody(td, ct, v) \in Bits
<1>1. CASE Added(td, v)
    <2> DEFINE n == v - EnumRoot(td)
    <2>1. n \in Nat /\ n <= 63 /\ <<>> \in Bits /\ 0 \in Nat
        BY <1>1, EnumRoots DEF Bits
    <2>2. EnumBody(td, ct, v) = BitsOf(n, 7)
        BY <1>1 DEF EnumBody
    <2> HIDE DEF n
    <2> QED BY <2>1, <2>2, GetSmallNumber
<1>2. CASE ~ Added(td, v)
    <2>1. EnumBody(td, ct, v) = BitsOf(v, ct.bits) /\ ct.bits \in Nat /\ ct.bits =< 31
        BY <1>2, EnumRoots DEF EnumBody
    <2> QED BY <2>1, BitsOfType
<1> QED BY <1>1, <1>2

\* x: the bits of the item v.
IsEnum(x, td, ct, v) == x = MarkBits(ct, Added(td, v)) \o EnumBody(td, ct, v)

\* What the decoder makes of these bits, complete or cut.
LEMMA EnumGet ==
    ASSUME NEW td, NEW per, NEW ct, ct = ValueConstraint(td, per), EnumFits(td, ct),
           NEW v \in Nat, EnumItem(td, ct, v), NEW pd \in Bits, NEW pos \in Nat,
           NEW x, IsEnum(x, td, ct, v)
    PROVE  /\ At(pd, pos, x) =>
                NativeEnumerated_decode_uper(td, per, pd, pos) = Decoded(v, pos + Len(x), 0)
           /\ CutAt(pd, pos, x) => NativeEnumerated_decode_uper(td, per, pd, pos) = ASN__DECODE_STARVED
<1> DEFINE inext == Added(td, v)
           y == EnumBody(td, ct, v)
           mark == ExtensionMark(ct, pd, pos)
           after == AfterMark(ct, pos)
           rv == NativeEnumerated_decode_uper(td, per, pd, pos)
           value == asn_get_few_bits(pd, after, ct.bits)
           ns == uper_get_nsnnwn(pd, after)
           n == v - EnumRoot(td)
<1>1. /\ ct.bits \in Nat /\ ct.bits =< 31 /\ ct.ext \in BOOLEAN /\ inext \in BOOLEAN /\ (inext => ct.ext)
    BY EnumRoots DEF Added, EnumItem
<1>2. y \in Bits
    BY EnumBodyType
<1>3. /\ At(pd, pos, x) =>
            /\ mark = Marked(inext) /\ after \in Nat /\ At(pd, after, y) /\ after + Len(y) = pos + Len(x)
      /\ CutAt(pd, pos, x) =>
            mark = -1 \/ (mark = Marked(inext) /\ after \in Nat /\ CutAt(pd, after, y))
    <2> DEFINE m == MarkBits(ct, inext)
    <2>1. x = m \o y
        BY DEF IsEnum
    <2> HIDE DEF y, inext
    <2>2. IsMark(m, ct, inext)
        BY DEF IsMark
    <2> HIDE DEF m
    <2>3. /\ At(pd, pos, m \o y) =>
                 /\ ExtensionMark(ct, pd, pos) = Marked(inext)
                 /\ AfterMark(ct, pos) \in Nat /\ At(pd, AfterMark(ct, pos), y)
                 /\ AfterMark(ct, pos) + Len(y) = pos + Len(m \o y)
          /\ CutAt(pd, pos, m \o y) =>
                 \/ ExtensionMark(ct, pd, pos) = -1
                 \/ /\ ExtensionMark(ct, pd, pos) = Marked(inext)
                    /\ AfterMark(ct, pos) \in Nat /\ CutAt(pd, AfterMark(ct, pos), y)
        BY <1>1, <1>2, <2>2, GetMarked
    <2> QED BY <2>1, <2>3
<1>4. /\ mark < 0 => rv = ASN__DECODE_STARVED
      /\ mark = 0 =>
            rv = IF value < 0 THEN ASN__DECODE_STARVED
                 ELSE IF value >= EnumRoot(td) THEN ASN__DECODE_FAILED
                 ELSE Decoded(value, after + ct.bits, 0)
      /\ mark = 1 /\ td.extension # 0 =>
            rv = IF ns[1] < 0 THEN ASN__DECODE_STARVED
                 ELSE IF ns[1] + td.extension - 1 >= td.count THEN ASN__DECODE_FAILED
                 ELSE Decoded(ns[1] + td.extension - 1, ns[2], 0)
    <2>1. ct.bits >= 0
        BY <1>1
    <2> HIDE DEF mark, after
    <2> QED BY <2>1 DEF NativeEnumerated_decode_uper, mark, after
<1> HIDE DEF mark, after, rv
<1>5. CASE ~ inext
    <2>1. y = BitsOf(v, ct.bits) /\ Marked(inext) = 0 /\ v < 2^ct.bits /\ ~ (v >= EnumRoot(td))
        BY <1>5, EnumRoots DEF EnumBody, Marked, Added
    <2>2. Len(y) = ct.bits
        <3> DEFINE k == ct.bits
        <3> HIDE DEF k
        <3>1. k \in Nat /\ k =< 31
            BY <1>1 DEF k
        <3>2. Len(BitsOf(v, k)) = k
            BY <3>1, BitsOfType
        <3> QED BY <2>1, <3>2 DEF k
    <2> HIDE DEF y
    <2>3. ASSUME after \in Nat, At(pd, after, y) PROVE value = v
        BY <1>1, <2>1, <2>3, GetFewBits
    <2>4. ASSUME after \in Nat, CutAt(pd, after, y) PROVE value = -1
        BY <1>2, <2>2, <2>4, GetCut
    <2> HIDE DEF value
    <2>5. ASSUME At(pd, pos, x) PROVE rv = Decoded(v, pos + Len(x), 0)
        <3>1. mark = 0 /\ value = v /\ after + ct.bits = pos + Len(x)
            BY <1>3, <2>1, <2>2, <2>3, <2>5
        <3>2. ~ (v < 0)
            OBVIOUS
        <3> QED BY <1>4, <2>1, <3>1, <3>2
    <2>6. ASSUME CutAt(pd, pos, x) PROVE rv = ASN__DECODE_STARVED
        <3>1. mark = -1 \/ (mark = 0 /\ value = -1)
            BY <1>3, <2>1, <2>4, <2>6
        <3> QED BY <1>4, <3>1
    <2> QED BY <2>5, <2>6 DEF rv
<1>6. CASE inext
    <2>1. /\ y = BitsOf(n, 7) /\ Marked(inext) = 1 /\ n \in Nat /\ n <= 63
          /\ td.extension # 0 /\ n + td.extension - 1 = v /\ ~ (v >= td.count) /\ ~ (n < 0)
        BY <1>6, EnumRoots DEF EnumBody, Marked
    <2> HIDE DEF n
    <2>2. /\ Len(y) = 7
          /\ after \in Nat /\ At(pd, after, y) => ns = <<n, after + 7>>
          /\ after \in Nat /\ CutAt(pd, after, y) => ns[1] = -1
        <3>1. \A q \in Nat :
                /\ Len(BitsOf(n, 7)) = 7
                /\ At(pd, q, BitsOf(n, 7)) => uper_get_nsnnwn(pd, q) = <<n, q + 7>>
                /\ CutAt(pd, q, BitsOf(n, 7)) => uper_get_nsnnwn(pd, q)[1] = -1
            BY <2>1, GetSmallNumber
        <3>2. 0 \in Nat
            OBVIOUS
        <3> QED BY <2>1, <3>1, <3>2
    <2> HIDE DEF y, ns
    <2>3. ASSUME At(pd, pos, x) PROVE rv = Decoded(v, pos + Len(x), 0)
        <3>1. mark = 1 /\ ns = <<n, after + 7>> /\ after + 7 = pos + Len(x)
            BY <1>3, <2>1, <2>2, <2>3
        <3>2. ns[1] = n /\ ns[2] = pos + Len(x)
            BY <3>1
        <3> QED BY <1>4, <2>1, <3>1, <3>2
    <2>4. ASSUME CutAt(pd, pos, x) PROVE rv = ASN__DECODE_STARVED
        <3>1. mark = -1 \/ (mark = 1 /\ ns[1] = -1)
            BY <1>3, <2>1, <2>2, <2>4
        <3> QED BY <1>4, <2>1, <3>1
    <2> QED BY <2>3, <2>4 DEF rv
<1> QED BY <1>5, <1>6

(***************************************************************************)
(* NativeEnumerated.c: exactly the items of the root, and with an extension*)
(* mark the added ones, can be sent; what was sent comes back, wherever it *)
(* was written and whatever follows it, and a cut one is noticed.          *)
(***************************************************************************)
THEOREM EnumRoundTrip ==
    ASSUME NEW td, NEW per, EnumFits(td, ValueConstraint(td, per)),
           NEW v \in Nat, NEW a \in Bits, NEW rest \in Bits
    PROVE  LET er == NativeEnumerated_encode_uper(td, per, v, Output(a))
           IN  /\ er.ok <=> EnumItem(td, ValueConstraint(td, per), v)
               /\ er.ok =>
                    /\ NativeEnumerated_decode_uper(td, per, er.bits \o rest, Len(a))
                           = Decoded(v, Len(er.bits), 0)
                    /\ \A cut \in Len(a) .. Len(er.bits) - 1 :
                          NativeEnumerated_decode_uper(td, per, SubSeq(er.bits, 1, cut), Len(a))
                              = ASN__DECODE_STARVED
<1> DEFINE er == NativeEnumerated_encode_uper(td, per, v, Output(a))
           ct == ValueConstraint(td, per)
           m == MarkBits(ct, Added(td, v))
           y == EnumBody(td, ct, v)
           x == m \o y
<1>0. ct = ValueConstraint(td, per) /\ EnumFits(td, ct)
    OBVIOUS
<1> HIDE DEF ct
<1>1. CASE ~ EnumItem(td, ct, v)
    <2>1. er = EncodeFailed
        BY <1>0, <1>1, EnumPut
    <2>2. ~ er.ok
        BY <2>1 DEF EncodeFailed
    <2> QED BY <1>0, <1>1, <2>2
<1>2. CASE EnumItem(td, ct, v)
    <2>1. er = Output((a \o m) \o y)
        BY <1>0, <1>2, EnumPut
    <2>2. y \in Bits
        BY <1>0, <1>2, EnumBodyType
    <2>3. m \in Bits
        <3>1. ct.ext \in BOOLEAN /\ Added(td, v) \in BOOLEAN
            BY <1>0 DEF EnumFits, Added
        <3> QED BY <3>1, PutMarkBits
    <2>4. \A pd \in Bits, pos \in Nat :
            /\ At(pd, pos, x) =>
                 NativeEnumerated_decode_uper(td, per, pd, pos) = Decoded(v, pos + Len(x), 0)
            /\ CutAt(pd, pos, x) => NativeEnumerated_decode_uper(td, per, pd, pos) = ASN__DECODE_STARVED
        <3>1. IsEnum(x, td, ct, v)
            BY DEF IsEnum
        <3> HIDE DEF x
        <3> QED BY <1>0, <1>2, <3>1, EnumGet
    <2> HIDE DEF m, y, er
    <2>5. (a \o m) \o y = a \o x /\ x \in Bits
        BY <2>2, <2>3, ConcatAssociative, BitsConcat DEF Bits
    <2> HIDE DEF x
    <2>6. Delivered(er, a, rest, x)
        BY <2>1, <2>5, Delivery
    <2>7. NativeEnumerated_decode_uper(td, per, er.bits \o rest, Len(a)) = Decoded(v, Len(er.bits), 0)
        BY <2>4, <2>6 DEF Delivered
    <2>8. ASSUME NEW cut \in Len(a) .. Len(er.bits) - 1
          PROVE  NativeEnumerated_decode_uper(td, per, SubSeq(er.bits, 1, cut), Len(a)) = ASN__DECODE_STARVED
        BY <2>4, <2>6 DEF Delivered
    <2> QED BY <1>0, <1>2, <2>6, <2>7, <2>8 DEF er, Delivered
<1> QED BY <1>1, <1>2

-----------------------------------------------------------------------------
(* INTEGER *)

\* x are the bits b with leading zeros added or removed, the first bit being 0.
ZeroLed(x, b) ==
    /\ Len(x) \in 1 .. 72 /\ x[1] = 0 /\ b[1] = 0
    /\ \A i \in 1 .. 64 - Len(x) : b[i] = 0
    /\ \A i \in 1 .. Len(x) : x[i] = IF i > Len(x) - 64 THEN b[i + 64 - Len(x)] ELSE 0

\* LongOf fills up with zeros.
LEMMA LongOfZeroLed ==
    ASSUME NEW x \in Bits, NEW b \in Bits, Len(b) = 64, ZeroLed(x, b), Len(x) <= 64
    PROVE  LongOf(x) = LongOf(b)
<1> DEFINE f(c) == <<NumberOf(SubSeq(c, 1, 16)), NumberOf(SubSeq(c, 17, 40)), NumberOf(SubSeq(c, 41, 64))>>
           k == 64 - Len(x)
           n == Len(x)
           z == [i \in 1 .. k |-> 0]
           w == [i \in 1 .. 64 - Len(b) |-> 0]
<1>1. n \in Nat /\ k \in Nat /\ k + n = 64 /\ 64 - Len(b) = 0 /\ 0 \in Nat
    BY BitsParts DEF ZeroLed
<1>2. LongOf(x) = f(z \o x) /\ LongOf(b) = f(w \o b)
    BY DEF LongOf
<1>3. z \in Bits /\ Len(z) = k /\ \A i \in 1 .. k : z[i] = 0
    BY <1>1, Zeros
<1>4. /\ \A i \in 1 .. k : b[i] = 0
      /\ \A i \in 1 .. n : x[i] = b[i + k]
    BY <1>1 DEF ZeroLed
<1>5. w \o b = b
    <2>1. w = <<>>
        BY <1>1
    <2> QED BY <2>1, ConcatEmptySeq DEF Bits
<1> HIDE DEF z, w, k, n
<1>6. z \o x = b
    <2> DEFINE c == z \o x
    <2>1. c \in Bits /\ Len(c) = k + n
        BY <1>3, BitsConcat DEF n
    <2>2. \A i \in 1 .. k : c[i] = z[i]
        BY <1>3, BitsConcat
    <2>3. \A i \in 1 .. n : c[k + i] = x[i]
        BY <1>3, BitsConcat DEF n
    <2> HIDE DEF c
    <2>4. ASSUME NEW i \in 1 .. Len(c) PROVE c[i] = b[i]
        <3>1. CASE i =< k
            BY <1>1, <1>3, <1>4, <2>2, <3>1
        <3>2. CASE ~ (i =< k)
            <4>1. PICK j \in 1 .. n : i = k + j
                <5>1. i - k \in 1 .. n /\ i = k + (i - k)
                    BY <1>1, <2>1, <3>2
                <5> QED BY <5>1
            <4>2. c[k + j] = x[j] /\ x[j] = b[j + k] /\ j + k = k + j
                BY <1>1, <1>4, <2>3
            <4> QED BY <4>1, <4>2
        <3> QED BY <3>1, <3>2
    <2>5. SameBits(c, b)
        BY <1>1, <2>1, <2>4 DEF SameBits
    <2>6. c = b
        BY <2>1, <2>5, SameBitsEqual
    <2> QED BY <2>6 DEF c
<1> QED BY <1>2, <1>5, <1>6

\* Without a sign, and with one, the number is that of b.
LEMMA UnsignedZeroLed ==
    ASSUME NEW x \in Bits, NEW b \in Bits, Len(b) = 64, ZeroLed(x, b)
    PROVE  asn_INTEGER2umax(x) = <<LongOf(b)>>
<1> DEFINE n == Len(x)
           m == n - 64
<1>1. n \in Nat
    BY BitsParts
<1>2. CASE n <= 64
    BY <1>2, LongOfZeroLed DEF asn_INTEGER2umax
<1>3. CASE ~ (n <= 64)
    <2>1. m \in Nat /\ m + 64 = n /\ m + 1 = n - 63
        BY <1>1, <1>3
    <2>2. \A i \in 1 .. n : x[i] = IF i > n - 64 THEN b[i + 64 - n] ELSE 0
        BY DEF ZeroLed
    <2>3. ~ \E i \in 1 .. n - 64 : x[i] # 0
        BY <1>1, <2>2
    <2>4. asn_INTEGER2umax(x) = <<LongOf(SubSeq(x, n - 63, n))>>
        BY <1>3, <2>3 DEF asn_INTEGER2umax
    <2> HIDE DEF n, m
    <2> DEFINE y == SubSeq(x, m + 1, m + 64)
    <2>5. y \in Bits /\ Len(y) = 64 /\ \A i \in 1 .. 64 : y[i] = x[m + i]
        <3> DEFINE w == 64
        <3>1. IsPart(x, m, w, y)
            BY <2>1 DEF IsPart, n
        <3> HIDE DEF y, w
        <3>2. y \in Bits /\ Len(y) = w /\ \A i \in 1 .. w : y[i] = x[m + i]
            BY <3>1, PartBits
        <3> QED BY <3>2 DEF w
    <2>6. y = SubSeq(x, n - 63, n)
        BY <2>1
    <2> HIDE DEF y
    <2>7. ASSUME NEW i \in 1 .. 64 PROVE y[i] = b[i]
        <3>1. m + i \in 1 .. n /\ m + i > n - 64 /\ m + i + 64 - n = i
            BY <1>1, <2>1
        <3> QED BY <2>2, <2>5, <3>1
    <2>8. SameBits(y, b)
        BY <2>5, <2>7 DEF SameBits
    <2>9. y = b
        BY <2>5, <2>8, SameBitsEqual
    <2> QED BY <2>4, <2>6, <2>9
<1> QED BY <1>2, <1>3

\* The same with a sign.
LEMMA SignedZeroLed ==
    ASSUME NEW x \in Bits, NEW b \in Bits, Len(b) = 64, ZeroLed(x, b), ~ (LongOf(b)[1] >= 32768)
    PROVE  asn_INTEGER2imax(x) = <<LongOf(b)>>
<1> DEFINE n == Len(x)
           e == [i \in 1 .. 64 |-> IF i <= 64 - n THEN x[1] ELSE x[n - 64 + i]]
<1>1. n \in Nat /\ n # 0 /\ x[1] = 0 /\ b[1] = 0
    BY DEF ZeroLed
<1>2. /\ \A i \in 1 .. 64 - n : b[i] = 0
      /\ \A i \in 1 .. n : x[i] = IF i > n - 64 THEN b[i + 64 - n] ELSE 0
    BY DEF ZeroLed
<1>3. asn_INTEGER2imax(x) =
          IF n = 0 THEN <<Long(0)>>
          ELSE IF \E i \in 1 .. n - 63 : x[i] # x[1] THEN <<>>
          ELSE <<IF LongOf(e)[1] >= 32768 THEN Minus(LongOf(e), <<65536, 0, 0>>) ELSE LongOf(e)>>
    BY DEF asn_INTEGER2imax
<1> HIDE DEF n
<1>4. ASSUME NEW i \in 1 .. n - 63 PROVE x[i] = x[1]
    <2>1. i \in 1 .. n
        BY <1>1
    <2>2. CASE i > n - 64
        <3>1. i + 64 - n = 1
            BY <1>1, <2>2
        <3> QED BY <1>1, <1>2, <2>1, <2>2, <3>1
    <2>3. CASE ~ (i > n - 64)
        BY <1>1, <1>2, <2>1, <2>3
    <2> QED BY <2>2, <2>3
<1>5. ASSUME NEW i \in 1 .. 64 PROVE (IF i <= 64 - n THEN x[1] ELSE x[n - 64 + i]) = b[i]
    <2>1. CASE i <= 64 - n
        <3>1. i \in 1 .. 64 - n
            BY <1>1, <2>1
        <3> QED BY <1>1, <1>2, <2>1, <3>1
    <2>2. CASE ~ (i <= 64 - n)
        <3>1. n - 64 + i \in 1 .. n /\ n - 64 + i > n - 64 /\ (n - 64 + i) + 64 - n = i
            BY <1>1, <2>2
        <3> QED BY <1>2, <2>2, <3>1
    <2> QED BY <2>1, <2>2
<1>6. e = [i \in 1 .. 64 |-> b[i]]
    BY <1>5
<1>7. [i \in 1 .. 64 |-> b[i]] = b
    BY BitsParts DEF Bits
<1> HIDE DEF e
<1>8. ~ \E i \in 1 .. n - 63 : x[i] # x[1]
    BY <1>4
<1> QED BY <1>1, <1>3, <1>6, <1>7, <1>8

\* A number that is not negative starts with a zero bit.
LEMMA NaturalLong ==
    ASSUME NEW v \in Signed64, v[1] >= 0
    PROVE  Wrapped(v) = v /\ ~ (v[1] >= 32768) /\ LongStream(v)[1] = 0
<1>1. /\ v \in Longs /\ -32768 =< v[1] /\ v[1] < 32768
    BY DEF Signed64
<1>2. v[1] \in Nat /\ v = <<v[1], v[2], v[3]>>
    BY <1>1, LongParts
<1>3. v[1] % 65536 = v[1] /\ (v[1] \div 32768) % 2 = 0
    BY <1>1, <1>2, SMT
<1>4. Wrapped(v) = v
    BY <1>2, <1>3 DEF Wrapped
<1>5. LongStream(v)[1] = 0
    <2> DEFINE h == High(v)
               p == v[1] % 65536
    <2>1. /\ LongStream(v) \in Bits /\ At(LongStream(v), 0, h) /\ h \in Bits /\ Len(h) = HighBits
        BY <1>1, LongStreamType, LimbStreams
    <2>2. HighBits \in Nat /\ HighBits =< 31 /\ 1 \in 1 .. HighBits
        BY DEF HighBits
    <2>3. h = BitsOf(p, HighBits)
        BY DEF High
    <2>4. p \in Nat /\ p = v[1]
        BY <1>2, <1>3
    <2>5. 2^(HighBits - 1) = 32768
        BY DEF HighBits
    <2> HIDE DEF h, p
    <2>6. h[1] = (p \div 2^(HighBits - 1)) % 2
        BY <2>2, <2>3, <2>4, BitsOfType
    <2>7. LongStream(v)[1] = h[1]
        <3>1. LongStream(v)[0 + 1] = h[1] /\ 0 + 1 = 1
            BY <2>1, <2>2 DEF At
        <3> QED BY <3>1
    <2> QED BY <1>3, <2>4, <2>5, <2>6, <2>7
<1> QED BY <1>1, <1>2, <1>4, <1>5

\* Where the contents behind a length begin.
Behind(pos, len) == pos + Len(LengthBits(len))

\* A length with a body y behind it, complete or cut.
LEMMA GetSized ==
    ASSUME NEW pd \in Bits, NEW pos \in Nat, NEW len, IsLength(len), NEW y \in Bits
    PROVE  /\ LengthBits(len) \o y \in Bits /\ Behind(pos, len) \in Nat
           /\ Behind(pos, len) + Len(y) = pos + Len(LengthBits(len) \o y)
           /\ At(pd, pos, LengthBits(len) \o y) =>
                 /\ uper_get_length(pd, pos, -1, 0) = <<len, Behind(pos, len)>>
                 /\ At(pd, Behind(pos, len), y)
           /\ CutAt(pd, pos, LengthBits(len) \o y) =>
                 \/ uper_get_length(pd, pos, -1, 0)[1] = -1
                 \/ /\ uper_get_length(pd, pos, -1, 0) = <<len, Behind(pos, len)>>
                    /\ CutAt(pd, Behind(pos, len), y)
<1> DEFINE x == LengthBits(len)
           l == uper_get_length(pd, pos, -1, 0)
<1>1. x \in Bits
    BY LengthBitsType
<1>2. At(pd, pos, x) => l = <<len, pos + Len(x)>>
    BY GetLength
<1>3. CutAt(pd, pos, x) => l[1] = -1
    BY GetLengthCut
<1>4. Behind(pos, len) = pos + Len(x)
    BY DEF Behind
<1> HIDE DEF x, l
<1>5. x \o y \in Bits /\ Len(x \o y) = Len(x) + Len(y) /\ Len(x) \in Nat /\ Len(y) \in Nat
    BY <1>1, BitsConcat, BitsParts
<1>6. At(pd, pos, x \o y) => At(pd, pos, x) /\ At(pd, pos + Len(x), y)
    BY <1>1, AtConcat
<1>7. CutAt(pd, pos, x \o y) => CutAt(pd, pos, x) \/ (At(pd, pos, x) /\ CutAt(pd, pos + Len(x), y))
    BY <1>1, CutConcat
<1>8. pos + Len(x) \in Nat /\ pos + Len(x) + Len(y) = pos + Len(x \o y)
    BY <1>5
<1> QED BY <1>2, <1>3, <1>4, <1>5, <1>6, <1>7, <1>8 DEF x, l

\* The octet that the decoder puts in front of semi-constrained contents.
ZeroOctet == BitsOf(0, OctetBits)

\* It has eight bits, all zero.
LEMMA ZeroBits ==
    /\ ZeroOctet \in Bits /\ Len(ZeroOctet) = 8 /\ \A i \in 1 .. 8 : ZeroOctet[i] = 0
    /\ ZeroOctet = BitsOf(0, 8)
<1>1. 0 \in Nat /\ OctetBits \in Nat /\ OctetBits =< 31
    BY OctetWidth
<1>2. /\ ZeroOctet \in Bits /\ Len(ZeroOctet) = OctetBits
      /\ \A i \in 1 .. OctetBits : ZeroOctet[i] = (0 \div 2^(OctetBits - i)) % 2
    BY <1>1, BitsOfType DEF ZeroOctet
<1>3. ASSUME NEW i \in 1 .. OctetBits PROVE ZeroOctet[i] = 0
    <2>1. OctetBits - i \in Nat /\ OctetBits - i =< 31
        BY <1>1
    <2>2. ASSUME NEW p \in Nat, p >= 1 PROVE (0 \div p) % 2 = 0
        BY <2>2, SMT
    <2>3. 2^(OctetBits - i) \in Nat /\ 2^(OctetBits - i) >= 1
        BY <2>1, PowerPositive
    <2> QED BY <1>2, <2>2, <2>3
<1>4. OctetBits = 8 /\ ZeroOctet = BitsOf(0, 8)
    BY DEF OctetBits, ZeroOctet
<1> QED BY <1>2, <1>3, <1>4

\* x are the contents octets of the 64 bits b of a number that is not negative ...
NaturalContents(x, b) ==
    (\E k \in 1 .. 8 : Len(x) = 8 * k) /\ Extended(x) = b /\ b[1] = 0

\* ... and so they are behind a zero octet.
LEMMA ContentsZeroLed ==
    ASSUME NEW x \in Bits, NEW b, NaturalContents(x, b)
    PROVE  ZeroLed(x, b) /\ ZeroOctet \o x \in Bits /\ ZeroLed(ZeroOctet \o x, b)
<1> DEFINE n == Len(x)
           z == ZeroOctet
           y == z \o x
<1>1. n \in 1 .. 64 /\ b[1] = 0
    BY DEF NaturalContents
<1>2. ASSUME NEW i \in 1 .. 64 PROVE b[i] = IF i <= 64 - n THEN x[1] ELSE x[n - 64 + i]
    BY DEF NaturalContents, Extended
<1> HIDE DEF n
<1>3. x[1] = 0
    <2>1. 1 \in 1 .. 64 /\ (1 <= 64 - n \/ n - 64 + 1 = 1)
        BY <1>1
    <2> QED BY <1>1, <1>2, <2>1
<1>4. ASSUME NEW i \in 1 .. 64 - n PROVE b[i] = 0
    <2>1. i \in 1 .. 64 /\ i <= 64 - n
        BY <1>1
    <2> QED BY <1>2, <1>3, <2>1
<1>5. ASSUME NEW i \in 1 .. n PROVE b[i + 64 - n] = x[i]
    <2>1. i + 64 - n \in 1 .. 64 /\ ~ (i + 64 - n <= 64 - n) /\ n - 64 + (i + 64 - n) = i
        BY <1>1
    <2> QED BY <1>2, <2>1
<1>6. ZeroLed(x, b)
    <2>1. ASSUME NEW i \in 1 .. n PROVE x[i] = IF i > n - 64 THEN b[i + 64 - n] ELSE 0
        BY <1>1, <1>5
    <2> QED BY <1>1, <1>3, <1>4, <2>1 DEF ZeroLed, n
<1>0. z \in Bits
    BY ZeroBits
<1>7. Len(z) = 8 /\ \A i \in 1 .. 8 : z[i] = 0
    BY ZeroBits
<1> HIDE DEF z
<1>8. /\ y \in Bits /\ Len(y) = 8 + n
      /\ \A i \in 1 .. 8 : y[i] = 0
      /\ \A i \in 1 .. n : y[8 + i] = x[i]
    <2>1. /\ y \in Bits /\ Len(y) = Len(z) + n
          /\ \A i \in 1 .. Len(z) : y[i] = z[i]
          /\ \A i \in 1 .. n : y[Len(z) + i] = x[i]
        BY <1>0, BitsConcat DEF n
    <2> HIDE DEF y
    <2> QED BY <1>7, <2>1
<1> HIDE DEF y
<1>9. ASSUME NEW i \in 1 .. 8 + n PROVE y[i] = IF i > n - 56 THEN b[i + 56 - n] ELSE 0
    <2>1. CASE i =< 8
        <3>1. y[i] = 0
            BY <1>8, <2>1
        <3>2. CASE i > n - 56
            <4>1. i + 56 - n \in 1 .. 64 - n
                BY <1>1, <2>1, <3>2
            <4> QED BY <1>4, <3>1, <3>2, <4>1
        <3> QED BY <3>1, <3>2
    <2>2. CASE ~ (i =< 8)
        <3>1. PICK j \in 1 .. n : i = 8 + j
            <4>1. i - 8 \in 1 .. n /\ i = 8 + (i - 8)
                BY <1>1, <2>2
            <4> QED BY <4>1
        <3>2. y[8 + j] = x[j] /\ b[j + 64 - n] = x[j] /\ 8 + j > n - 56 /\ 8 + j + 56 - n = j + 64 - n
            BY <1>1, <1>5, <1>8
        <3> QED BY <3>1, <3>2
    <2> QED BY <2>1, <2>2
<1>10. ZeroLed(y, b)
    <2> DEFINE w == 8 + n
    <2>1. w \in 1 .. 72 /\ Len(y) = w /\ y[1] = 0
        BY <1>1, <1>8
    <2>2. ASSUME NEW i \in 1 .. 64 - w PROVE b[i] = 0
        BY <1>1, <1>4
    <2>3. ASSUME NEW i \in 1 .. w PROVE y[i] = IF i > w - 64 THEN b[i + 64 - w] ELSE 0
        <3>1. w - 64 = n - 56 /\ i + 64 - w = i + 56 - n
            BY <1>1
        <3> QED BY <1>9, <3>1
    <2> HIDE DEF w
    <2> QED BY <1>1, <2>1, <2>2, <2>3 DEF ZeroLed
<1> QED BY <1>6, <1>8, <1>10 DEF y, z

\* The contents octets o of v.
IsContents(o, v) == o = asn_imax2INTEGER(v)

\* They are 1 to 8 octets, and however they are read they are v: as a signed
\* number, and, when v is not negative, also without a sign and behind a zero octet.
LEMMA ReadContents ==
    ASSUME NEW v \in Signed64, NEW o, IsContents(o, v)
    PROVE  /\ o \in Bits /\ \E k \in 1 .. 8 : Len(o) = 8 * k
           /\ asn_INTEGER2imax(o) = <<v>>
           /\ v[1] >= 0 =>
                /\ asn_INTEGER2umax(o) = <<v>>
                /\ asn_INTEGER2imax(ZeroOctet \o o) = <<v>>
                /\ asn_INTEGER2umax(ZeroOctet \o o) = <<v>>
<1> DEFINE b == LongStream(v)
<1>1. v \in Longs
    BY DEF Signed64
<1>2. o \in Bits /\ (\E k \in 1 .. 8 : Len(o) = 8 * k) /\ Extended(o) = b
    BY <1>1, OctetsOfLong DEF IsContents
<1>3. asn_INTEGER2imax(o) = <<v>>
    BY SignedIntegerRoundTrip DEF IsContents
<1>4. b \in Bits /\ Len(b) = 64 /\ LongOf(b) = Wrapped(v)
    BY <1>1, LongStreamType, LongOfStream
<1>5. ASSUME v[1] >= 0
      PROVE  /\ asn_INTEGER2umax(o) = <<v>>
             /\ asn_INTEGER2imax(ZeroOctet \o o) = <<v>>
             /\ asn_INTEGER2umax(ZeroOctet \o o) = <<v>>
    <2>1. Wrapped(v) = v /\ ~ (v[1] >= 32768) /\ b[1] = 0
        BY <1>5, NaturalLong
    <2> HIDE DEF b
    <2>2. ZeroLed(o, b) /\ ZeroOctet \o o \in Bits /\ ZeroLed(ZeroOctet \o o, b)
        <3>1. NaturalContents(o, b)
            BY <1>2, <2>1 DEF NaturalContents
        <3> QED BY <1>2, <3>1, ContentsZeroLed
    <2>3. LongOf(b) = v
        BY <1>4, <2>1
    <2>4. ~ (LongOf(b)[1] >= 32768)
        BY <2>1, <2>3
    <2> DEFINE y == ZeroOctet \o o
    <2> HIDE DEF y
    <2>5. asn_INTEGER2umax(o) = <<LongOf(b)>>
        BY <1>2, <1>4, <2>2, UnsignedZeroLed
    <2>6. y \in Bits /\ ZeroLed(y, b)
        BY <2>2 DEF y
    <2>7. asn_INTEGER2umax(y) = <<LongOf(b)>>
        BY <1>4, <2>6, UnsignedZeroLed
    <2>8. asn_INTEGER2imax(y) = <<LongOf(b)>>
        BY <1>4, <2>4, <2>6, SignedZeroLed
    <2> QED BY <2>3, <2>5, <2>7, <2>8 DEF y
<1> QED BY <1>2, <1>3, <1>5

\* The values outside of the bounds, and those sent in the bits of the range.
Beyond(ct, v) == \/ ct.semi /\ Less(v, ct.lb)
                 \/ ct.bits >= 0 /\ ~ Within(ct.lb, v, ct.ub)
InRange(ct, v) == ct.bits >= 0 /\ Within(ct.lb, v, ct.ub)

\* The values that can be sent, and those among them that fit into the native
\* integer of the type.
IntegerSent(ct, v) == IF Beyond(ct, v) THEN ct.ext ELSE ct.bits >= 0 \/ ct.lb = Long(0)
Held(td, ct, v) == InRange(ct, v) \/ (v \in Signed64 /\ (td.unsigned => v[1] >= 0))

\* The bits behind the mark: of the general form, and of either one.
IntegerOctets(v) == LengthBits(Len(asn_imax2INTEGER(v)) \div 8) \o asn_imax2INTEGER(v)
IntegerBody(ct, v) ==
    IF InRange(ct, v) THEN LongBits(per_long_range_rebase(v, ct.lb, ct.ub)[1], ct.bits)
    ELSE IntegerOctets(v)

\* The constraint that a value beyond the root is sent under.
LEMMA UnconstrainedParts ==
    Unconstrained.bits = -1 /\ Unconstrained.lb = Long(0) /\ Unconstrained.semi = FALSE
BY DEF Unconstrained, Constraint

\* The contents octets come in a length that needs no fragments.
LEMMA ContentsLength ==
    ASSUME NEW v \in Signed64, NEW o, IsContents(o, v)
    PROVE  /\ o \in Bits /\ IsLength(Len(o) \div 8) /\ Len(o) \div 8 \in Nat
           /\ Len(o) \div 8 >= 0 /\ 8 * (Len(o) \div 8) = Len(o)
<1>1. PICK k \in 1 .. 8 : Len(o) = 8 * k
    BY ReadContents
<1>2. (8 * k) \div 8 = k
    BY SMT
<1>3. o \in Bits
    BY ReadContents
<1> QED BY <1>1, <1>2, <1>3 DEF IsLength

\* A value is in the range, beyond the bounds, or there is no range.
LEMMA RangeCases ==
    ASSUME NEW ct, IntegerFits(ct), NEW v
    PROVE  /\ InRange(ct, v) => ~ Beyond(ct, v) /\ ct.bits >= 0
           /\ ~ InRange(ct, v) /\ ~ Beyond(ct, v) => ~ (ct.bits >= 0)
           /\ Beyond(ct, v) => ~ InRange(ct, v)
           /\ Beyond(ct, v) \in BOOLEAN /\ ct.ext \in BOOLEAN
BY DEF IntegerFits, InRange, Beyond

\* What the encoder appends, or that it refuses.
LEMMA IntegerPut ==
    ASSUME NEW td, NEW per, NEW ct, ct = ValueConstraint(td, per), IntegerFits(ct),
           NEW v \in Longs, Held(td, ct, v), NEW a \in Bits
    PROVE  /\ IntegerSent(ct, v) =>
                INTEGER_encode_uper(td, per, v, Output(a))
                    = Output((a \o MarkBits(ct, Beyond(ct, v))) \o IntegerBody(ct, v))
           /\ ~ IntegerSent(ct, v) => INTEGER_encode_uper(td, per, v, Output(a)) = EncodeFailed
<1> DEFINE beyond == Beyond(ct, v)
           po == PutMark(ct, beyond, Output(a))
           b == a \o MarkBits(ct, beyond)
           er == INTEGER_encode_uper(td, per, v, Output(a))
           o == asn_imax2INTEGER(v)
           body == IntegerBody(ct, v)
           octets == asn_put_many_bits(uper_put_length(po, Len(o) \div 8), o)
           number == uper_put_constrained_whole_number_u(
                         po, per_long_range_rebase(v, ct.lb, ct.ub)[1], ct.bits)
<1>1. /\ beyond /\ ~ ct.ext => er = EncodeFailed
      /\ beyond /\ ct.ext => er = octets
      /\ ~ beyond /\ ct.bits >= 0 => er = number
      /\ ~ beyond /\ ~ (ct.bits >= 0) => er = IF ct.lb # Long(0) THEN EncodeFailed ELSE octets
    <2>1. ~ (Unconstrained.bits >= 0) /\ Unconstrained.lb = Long(0)
        BY UnconstrainedParts
    <2> HIDE DEF beyond, number, octets
    <2> QED BY <2>1 DEF INTEGER_encode_uper, beyond, number, octets, Beyond, po, o
<1>2. po = Output(b)
    BY RangeCases, PutMarkBits
<1> HIDE DEF er, beyond
<1>3. number = Output(b \o LongBits(per_long_range_rebase(v, ct.lb, ct.ub)[1], ct.bits))
    <2> HIDE DEF po, b
    <2> QED BY <1>2, PutBits DEF uper_put_constrained_whole_number_u
<1>4. ASSUME v \in Signed64 PROVE octets = Output(b \o IntegerOctets(v))
    <2> DEFINE l == LengthBits(Len(o) \div 8)
    <2>1. IsContents(o, v)
        BY DEF IsContents
    <2>2. IntegerOctets(v) = l \o o
        BY DEF IntegerOctets
    <2> HIDE DEF po, b, o
    <2>3. o \in Bits /\ IsLength(Len(o) \div 8) /\ Len(o) \div 8 \in Nat
        BY <1>4, <2>1, ContentsLength
    <2>4. uper_put_length(po, Len(o) \div 8) = Output(b \o l)
        BY <1>2, <2>3, PutLength
    <2>5. l \in Bits
        BY <2>3, LengthBitsType
    <2>6. b \in Bits
        <3>1. MarkBits(ct, beyond) \in Bits
            BY RangeCases, PutMarkBits DEF beyond
        <3> QED BY <3>1, BitsConcat DEF b
    <2> HIDE DEF l
    <2>7. octets = Output((b \o l) \o o)
        BY <2>4, PutBits
    <2>8. (b \o l) \o o = b \o (l \o o)
        BY <2>3, <2>5, <2>6, ConcatAssociative DEF Bits
    <2> QED BY <2>2, <2>7, <2>8
<1> HIDE DEF octets, number, b, po
<1>5. CASE InRange(ct, v)
    <2>1. ~ beyond /\ ct.bits >= 0 /\ IntegerSent(ct, v)
        BY <1>5, RangeCases DEF beyond, IntegerSent
    <2>2. er = number
        BY <1>1, <2>1
    <2>3. IntegerBody(ct, v) = LongBits(per_long_range_rebase(v, ct.lb, ct.ub)[1], ct.bits)
        BY <1>5 DEF IntegerBody
    <2> QED BY <1>3, <2>1, <2>2, <2>3 DEF er, b, beyond
<1>6. CASE ~ InRange(ct, v)
    <2>1. v \in Signed64 /\ IntegerBody(ct, v) = IntegerOctets(v)
        BY <1>6 DEF Held, IntegerBody
    <2>2. octets = Output(b \o IntegerBody(ct, v))
        BY <1>4, <2>1
    <2>3. CASE beyond
        <3>1. IntegerSent(ct, v) <=> ct.ext
            BY <2>3, RangeCases DEF IntegerSent, beyond
        <3> QED BY <1>1, <2>2, <2>3, <3>1 DEF er, b, beyond
    <2>4. CASE ~ beyond
        <3>1. ~ (ct.bits >= 0)
            BY <1>6, <2>4, RangeCases DEF beyond
        <3>2. IntegerSent(ct, v) <=> ct.lb = Long(0)
            BY <2>4, <3>1 DEF IntegerSent, beyond
        <3> QED BY <1>1, <2>2, <2>4, <3>1, <3>2 DEF er, b, beyond
    <2> QED BY <2>3, <2>4
<1> QED BY <1>5, <1>6

\* The zero added to a number of the general form changes nothing.
LEMMA ZeroLong == Long(0) \in Longs /\ \A v \in Longs : Plus(v, Long(0)) = v
<1>1. Long(0) = <<0, 0, 0>>
    BY SMT DEF Long, LIMB
<1>2. Long(0) \in Longs
    <2>1. 0 \in Limb /\ 0 \in Int
        BY SMT DEF Limb, LIMB
    <2> QED BY <1>1, <2>1 DEF Longs
<1>3. Value(Long(0)) = 0
    BY <1>1, SMT DEF Value, LIMB
<1>4. ASSUME NEW v \in Longs PROVE Plus(v, Long(0)) = v
    <2>1. Plus(v, Long(0)) \in Longs /\ Value(Plus(v, Long(0))) = Value(v) + Value(Long(0))
        BY <1>2, PlusMinusValue
    <2>2. Value(v) \in Int
        BY LongValue
    <2>3. Value(Plus(v, Long(0))) = Value(v)
        BY <1>3, <2>1, <2>2
    <2> QED BY <2>1, <2>3, ValueInjective
<1> QED BY <1>2, <1>4

\* What INTEGER_decode_uper does behind the mark: in the general form ...
Native(td, bits) == IF td.unsigned THEN asn_INTEGER2umax(bits) ELSE asn_INTEGER2imax(bits)
Offset(long, lb, after) ==
    IF long = <<>> THEN ASN__DECODE_FAILED ELSE Decoded(Plus(long[1], lb), after, 0)
General(td, ct, pd, len) ==
    IF len[1] < 0 THEN ASN__DECODE_STARVED
    ELSE IF Starving(asn_get_many_bits(pd, len[2], 8 * len[1])) THEN ASN__DECODE_STARVED
    ELSE Offset(Native(td, IF ct.semi THEN BitsOf(0, 8) \o asn_get_many_bits(pd, len[2], 8 * len[1])
                           ELSE asn_get_many_bits(pd, len[2], 8 * len[1])),
                ct.lb, len[2] + 8 * len[1])

\* ... and in the bits of its range.
Ranged(td, ct, pd, pos) ==
    LET raw == asn_get_many_bits(pd, pos, ct.bits)
    IN  IF Starving(raw) THEN ASN__DECODE_STARVED
        ELSE IF td.unsigned THEN Decoded(Plus(LongOf(raw), ct.lb), pos + ct.bits, 0)
        ELSE Offset(per_long_range_unrebase(LongOf(raw), ct.lb, ct.ub), Long(0), pos + ct.bits)

\* The three ways to go on behind the mark.
LEMMA IntegerForms ==
    ASSUME NEW td, NEW per, NEW ct, ct = ValueConstraint(td, per), NEW pd, NEW pos,
           NEW mark, mark = ExtensionMark(ct, pd, pos), NEW after, after = AfterMark(ct, pos)
    PROVE  /\ mark < 0 => INTEGER_decode_uper(td, per, pd, pos) = ASN__DECODE_STARVED
           /\ mark = 0 /\ ct.bits >= 0 =>
                INTEGER_decode_uper(td, per, pd, pos) = Ranged(td, ct, pd, after)
           /\ mark = 0 /\ ~ (ct.bits >= 0) =>
                INTEGER_decode_uper(td, per, pd, pos)
                    = General(td, ct, pd, uper_get_length(pd, after, -1, 0))
           /\ mark = 1 =>
                INTEGER_decode_uper(td, per, pd, pos)
                    = General(td, Unconstrained, pd, uper_get_length(pd, after, -1, 0))
BY DEF INTEGER_decode_uper, General, Ranged, Native, Offset, uper_get_constrained_whole_number

\* The octets that Native may be given.
Plain(td, ct, v) ==
    /\ v \in Signed64 /\ (td.unsigned => v[1] >= 0) /\ (ct.semi => v[1] >= 0)
    /\ ct.lb = Long(0)

\* The general form, complete or cut.
LEMMA GetContents ==
    ASSUME NEW td, NEW ct, NEW v, Plain(td, ct, v), NEW pd \in Bits, NEW pos \in Nat
    PROVE  /\ IntegerOctets(v) \in Bits
           /\ At(pd, pos, IntegerOctets(v)) =>
                General(td, ct, pd, uper_get_length(pd, pos, -1, 0)) = Decoded(v, pos + Len(IntegerOctets(v)), 0)
           /\ CutAt(pd, pos, IntegerOctets(v)) =>
                General(td, ct, pd, uper_get_length(pd, pos, -1, 0)) = ASN__DECODE_STARVED
<1> DEFINE o == asn_imax2INTEGER(v)
           k == Len(o) \div 8
           x == IntegerOctets(v)
           len == uper_get_length(pd, pos, -1, 0)
           q == Behind(pos, k)
           many(p, n) == asn_get_many_bits(pd, p, n)
<1>1. v \in Signed64 /\ IsContents(o, v) /\ x = LengthBits(k) \o o
    BY DEF IsContents, Plain, IntegerOctets
<1>2. Native(td, IF ct.semi THEN BitsOf(0, 8) \o o ELSE o) = <<v>>
    <2>1. v \in Signed64 /\ (td.unsigned => v[1] >= 0) /\ (ct.semi => v[1] >= 0)
        BY DEF Plain
    <2> HIDE DEF o
    <2>2. asn_INTEGER2imax(o) = <<v>>
        BY <1>1, ReadContents
    <2>3. v[1] >= 0 =>
                /\ asn_INTEGER2umax(o) = <<v>>
                /\ asn_INTEGER2imax(ZeroOctet \o o) = <<v>>
                /\ asn_INTEGER2umax(ZeroOctet \o o) = <<v>>
        BY <1>1, ReadContents
    <2>4. ZeroOctet = BitsOf(0, 8)
        BY ZeroBits
    <2> QED BY <2>1, <2>2, <2>3, <2>4 DEF Native
<1>3. o \in Bits /\ IsLength(k) /\ k \in Nat /\ k >= 0 /\ 8 * k = Len(o)
    <2> HIDE DEF o
    <2> QED BY <1>1, ContentsLength
<1>4. ct.lb = Long(0) /\ v \in Longs
    BY DEF Plain, Signed64
<1>5. Offset(<<v>>, ct.lb, q + 8 * k) = Decoded(v, q + 8 * k, 0)
    <2>1. <<v>> # <<>> /\ <<v>>[1] = v
        OBVIOUS
    <2>2. Plus(v, ct.lb) = v
        BY <1>4, ZeroLong
    <2> QED BY <2>1, <2>2 DEF Offset
<1> HIDE DEF o, k, x
<1>6. /\ x \in Bits /\ q \in Nat /\ q + Len(o) = pos + Len(x)
      /\ At(pd, pos, x) => len = <<k, q>> /\ At(pd, q, o)
      /\ CutAt(pd, pos, x) => len[1] = -1 \/ (len = <<k, q>> /\ CutAt(pd, q, o))
    <2>1. /\ LengthBits(k) \o o \in Bits /\ q \in Nat
          /\ q + Len(o) = pos + Len(LengthBits(k) \o o)
          /\ At(pd, pos, LengthBits(k) \o o) => len = <<k, q>> /\ At(pd, q, o)
          /\ CutAt(pd, pos, LengthBits(k) \o o) => len[1] = -1 \/ (len = <<k, q>> /\ CutAt(pd, q, o))
        BY <1>3, GetSized
    <2> HIDE DEF q, len
    <2> QED BY <1>1, <2>1
<1> HIDE DEF q, len
<1>7. At(pd, q, o) => many(q, 8 * k) = o
    BY <1>3, <1>6, GetManyBits
<1>8. CutAt(pd, q, o) => many(q, 8 * k) = <<-1>>
    BY <1>3, <1>6, GetCut
<1>9. ~ Starving(o) /\ Starving(<<-1>>)
    BY <1>3, NotStarving DEF Starving
<1>10. ASSUME len = <<k, q>>
       PROVE  General(td, ct, pd, len) =
                 IF Starving(many(q, 8 * k)) THEN ASN__DECODE_STARVED
                 ELSE Offset(Native(td, IF ct.semi THEN BitsOf(0, 8) \o many(q, 8 * k) ELSE many(q, 8 * k)),
                             ct.lb, q + 8 * k)
    <2>1. len[1] = k /\ len[2] = q /\ ~ (k < 0)
        BY <1>3, <1>10
    <2> HIDE DEF many
    <2> QED BY <2>1 DEF General, many
<1> HIDE DEF many
<1>11. ASSUME At(pd, pos, x) PROVE General(td, ct, pd, len) = Decoded(v, pos + Len(x), 0)
    <2>1. len = <<k, q>> /\ many(q, 8 * k) = o
        BY <1>6, <1>7, <1>11
    <2>2. General(td, ct, pd, len) = Offset(<<v>>, ct.lb, q + 8 * k)
        BY <1>2, <1>9, <1>10, <2>1
    <2>3. q + 8 * k = pos + Len(x)
        BY <1>3, <1>6
    <2> QED BY <1>5, <2>2, <2>3
<1>12. ASSUME CutAt(pd, pos, x) PROVE General(td, ct, pd, len) = ASN__DECODE_STARVED
    <2>1. CASE len[1] = -1
        BY <2>1 DEF General
    <2>2. CASE len = <<k, q>> /\ many(q, 8 * k) = <<-1>>
        BY <1>9, <1>10, <2>2
    <2> QED BY <1>6, <1>8, <1>12, <2>1, <2>2
<1> QED BY <1>6, <1>11, <1>12 DEF len, x

\* The bits of a constrained number, complete or cut.
LEMMA GetRanged ==
    ASSUME NEW td, NEW ct, IntegerFits(ct), NEW v \in Longs, InRange(ct, v),
           NEW pd \in Bits, NEW pos \in Nat
    PROVE  /\ IntegerBody(ct, v) \in Bits
           /\ At(pd, pos, IntegerBody(ct, v)) => Ranged(td, ct, pd, pos) = Decoded(v, pos + Len(IntegerBody(ct, v)), 0)
           /\ CutAt(pd, pos, IntegerBody(ct, v)) => Ranged(td, ct, pd, pos) = ASN__DECODE_STARVED
<1> DEFINE lb == ct.lb
           ub == ct.ub
           x == IntegerBody(ct, v)
           n == ct.bits
           r == per_long_range_rebase(v, lb, ub)[1]
           raw == asn_get_many_bits(pd, pos, n)
<1>1. /\ lb \in Longs /\ ub \in Longs /\ n \in 0 .. 64 /\ Within(lb, v, ub)
      /\ Less(Minus(ub, lb), PowerLong(n))
    BY DEF IntegerFits, InRange
<1>2. x = LongBits(r, n)
    BY DEF IntegerBody
<1>3. Ranged(td, ct, pd, pos) =
         IF Starving(raw) THEN ASN__DECODE_STARVED
         ELSE IF td.unsigned THEN Decoded(Plus(LongOf(raw), lb), pos + n, 0)
         ELSE Offset(per_long_range_unrebase(LongOf(raw), lb, ub), Long(0), pos + n)
    BY DEF Ranged
<1> HIDE DEF lb, ub, n, x
<1>4. r \in Unsigned64 /\ ShortLong(r, n) /\ per_long_range_unrebase(r, lb, ub) = <<v>>
    BY <1>1, RebasedBelow
<1> HIDE DEF r
<1>5. r \in Longs
    BY <1>4 DEF Unsigned64
<1>6. LongBits(r, n) \in Bits /\ Len(LongBits(r, n)) = n
    BY <1>1, <1>5, LongBitsType
<1>7. LongOf(LongBits(r, n)) = r
    BY <1>1, <1>4, LongOfShort
<1>8. x \in Bits /\ Len(x) = n /\ LongOf(x) = r
    BY <1>2, <1>6, <1>7
<1>9. Plus(r, lb) = v
    <2>1. per_long_range_unrebase(r, lb, ub) = <<>> \/ per_long_range_unrebase(r, lb, ub) = <<Plus(r, lb)>>
        BY DEF per_long_range_unrebase
    <2>2. <<v>> # <<>> /\ <<v>>[1] = v
        OBVIOUS
    <2> QED BY <1>4, <2>1, <2>2
<1>10. Offset(<<v>>, Long(0), pos + n) = Decoded(v, pos + n, 0)
    <2>1. <<v>> # <<>> /\ <<v>>[1] = v
        OBVIOUS
    <2>2. Plus(v, Long(0)) = v
        BY ZeroLong
    <2> QED BY <2>1, <2>2 DEF Offset
<1>11. At(pd, pos, x) => raw = x
    <2>1. At(pd, pos, x) => asn_get_many_bits(pd, pos, Len(x)) = x
        BY <1>8, GetManyBits
    <2> QED BY <1>8, <2>1
<1>12. CutAt(pd, pos, x) => raw = <<-1>>
    <2>1. CutAt(pd, pos, x) => asn_get_many_bits(pd, pos, Len(x)) = <<-1>>
        BY <1>8, GetCut
    <2> QED BY <1>8, <2>1
<1>13. ~ Starving(x) /\ Starving(<<-1>>)
    BY <1>8, NotStarving DEF Starving
<1> HIDE DEF raw
<1>14. ASSUME At(pd, pos, x) PROVE Ranged(td, ct, pd, pos) = Decoded(v, pos + Len(x), 0)
    <2>1. raw = x /\ LongOf(raw) = r /\ ~ Starving(raw)
        BY <1>8, <1>11, <1>13, <1>14
    <2>2. Ranged(td, ct, pd, pos) = Decoded(v, pos + n, 0)
        BY <1>3, <1>4, <1>9, <1>10, <2>1
    <2> QED BY <1>8, <2>2
<1>15. ASSUME CutAt(pd, pos, x) PROVE Ranged(td, ct, pd, pos) = ASN__DECODE_STARVED
    BY <1>3, <1>12, <1>13, <1>15
<1> QED BY <1>8, <1>14, <1>15 DEF x

\* A number that is not below zero has no sign in its highest limb.
LEMMA NotBelowZero ==
    ASSUME NEW v \in Longs, ~ Less(v, Long(0))
    PROVE  v[1] >= 0
<1>1. Long(0)[1] = 0 /\ v[1] \in Int
    BY LongParts, SMT DEF Long
<1> QED BY <1>1 DEF Less

\* x: the bits of the value v.
IsInteger(x, ct, v) == x = MarkBits(ct, Beyond(ct, v)) \o IntegerBody(ct, v)

\* The bits of the range, complete or cut, at any position.
LEMMA RangedRead ==
    ASSUME NEW td, NEW ct, IntegerFits(ct), NEW v \in Longs, InRange(ct, v), NEW pd \in Bits
    PROVE  \A q \in Nat :
              /\ At(pd, q, IntegerBody(ct, v)) =>
                   Ranged(td, ct, pd, q) = Decoded(v, q + Len(IntegerBody(ct, v)), 0)
              /\ CutAt(pd, q, IntegerBody(ct, v)) => Ranged(td, ct, pd, q) = ASN__DECODE_STARVED
BY GetRanged

\* What the decoder makes of the body once it has read the mark.
LEMMA IntegerBodyRead ==
    ASSUME NEW td, NEW per, NEW ct, ct = ValueConstraint(td, per), IntegerFits(ct),
           NEW v \in Longs, Held(td, ct, v), IntegerSent(ct, v), NEW pd \in Bits, NEW pos \in Nat,
           NEW after \in Nat, after = AfterMark(ct, pos),
           ExtensionMark(ct, pd, pos) = Marked(Beyond(ct, v))
    PROVE  LET rv == INTEGER_decode_uper(td, per, pd, pos)
               y == IntegerBody(ct, v)
           IN  /\ At(pd, after, y) => rv = Decoded(v, after + Len(y), 0)
               /\ CutAt(pd, after, y) => rv = ASN__DECODE_STARVED
<1> DEFINE rv == INTEGER_decode_uper(td, per, pd, pos)
           mark == ExtensionMark(ct, pd, pos)
           len == uper_get_length(pd, after, -1, 0)
           y == IntegerBody(ct, v)
<1>1. /\ mark = 0 /\ ct.bits >= 0 => rv = Ranged(td, ct, pd, after)
      /\ mark = 0 /\ ~ (ct.bits >= 0) => rv = General(td, ct, pd, len)
      /\ mark = 1 => rv = General(td, Unconstrained, pd, len)
    BY IntegerForms
<1> HIDE DEF rv, mark, len
<1>2. mark = Marked(Beyond(ct, v))
    BY DEF mark
<1>3. CASE InRange(ct, v)
    <2>1. mark = 0 /\ ct.bits >= 0
        BY <1>2, <1>3, RangeCases DEF Marked
    <2>2. rv = Ranged(td, ct, pd, after)
        BY <1>1, <2>1
    <2>3. /\ At(pd, after, y) => Ranged(td, ct, pd, after) = Decoded(v, after + Len(y), 0)
          /\ CutAt(pd, after, y) => Ranged(td, ct, pd, after) = ASN__DECODE_STARVED
        BY <1>3, RangedRead
    <2> QED BY <2>2, <2>3 DEF rv
<1>4. CASE ~ InRange(ct, v)
    <2> DEFINE c == IF Beyond(ct, v) THEN Unconstrained ELSE ct
    <2>1. v \in Signed64 /\ (td.unsigned => v[1] >= 0)
        BY <1>4 DEF Held
    <2>2. rv = General(td, c, pd, len)
        <3>1. CASE Beyond(ct, v)
            BY <1>1, <1>2, <3>1 DEF Marked
        <3>2. CASE ~ Beyond(ct, v)
            BY <1>1, <1>2, <1>4, <3>2, RangeCases DEF Marked
        <3> QED BY <3>1, <3>2
    <2>3. Plain(td, c, v)
        <3>1. CASE Beyond(ct, v)
            BY <2>1, <3>1, UnconstrainedParts DEF Plain
        <3>2. CASE ~ Beyond(ct, v)
            <4>1. ct.lb = Long(0)
                BY <1>4, <3>2, RangeCases DEF IntegerSent
            <4>2. ct.semi => ~ Less(v, ct.lb)
                BY <3>2 DEF Beyond
            <4>3. ct.semi => v[1] >= 0
                BY <4>1, <4>2, NotBelowZero
            <4> QED BY <2>1, <3>2, <4>1, <4>3 DEF Plain
        <3> QED BY <3>1, <3>2
    <2>4. y = IntegerOctets(v)
        BY <1>4 DEF IntegerBody
    <2> HIDE DEF c
    <2>5. /\ At(pd, after, IntegerOctets(v)) => General(td, c, pd, len) = Decoded(v, after + Len(IntegerOctets(v)), 0)
          /\ CutAt(pd, after, IntegerOctets(v)) => General(td, c, pd, len) = ASN__DECODE_STARVED
        BY <2>3, GetContents DEF len
    <2> HIDE DEF y
    <2> QED BY <2>2, <2>4, <2>5 DEF rv, y
<1> QED BY <1>3, <1>4

\* The bits behind the mark are bits.
LEMMA IntegerBodyType ==
    ASSUME NEW td, NEW ct, IntegerFits(ct), NEW v \in Longs, Held(td, ct, v)
    PROVE  IntegerBody(ct, v) \in Bits
<1>0. <<>> \in Bits /\ 0 \in Nat
    BY DEF Bits
<1>1. CASE InRange(ct, v)
    BY <1>0, <1>1, GetRanged
<1>2. CASE ~ InRange(ct, v)
    <2> DEFINE sd == [unsigned |-> FALSE]
    <2>1. Plain(sd, Unconstrained, v)
        BY <1>2, UnconstrainedParts DEF Plain, Held
    <2> HIDE DEF sd
    <2>2. IntegerOctets(v) \in Bits
        BY <1>0, <2>1, GetContents
    <2> QED BY <1>2, <2>2 DEF IntegerBody
<1> QED BY <1>1, <1>2

\* What the decoder makes of the bits of v, complete or cut.
LEMMA IntegerGet ==
    ASSUME NEW td, NEW per, NEW ct, ct = ValueConstraint(td, per), IntegerFits(ct),
           NEW v \in Longs, Held(td, ct, v), IntegerSent(ct, v), NEW pd \in Bits, NEW pos \in Nat,
           NEW x, IsInteger(x, ct, v)
    PROVE  /\ At(pd, pos, x) => INTEGER_decode_uper(td, per, pd, pos) = Decoded(v, pos + Len(x), 0)
           /\ CutAt(pd, pos, x) => INTEGER_decode_uper(td, per, pd, pos) = ASN__DECODE_STARVED
<1> DEFINE inext == Beyond(ct, v)
           y == IntegerBody(ct, v)
           m == MarkBits(ct, inext)
           mark == ExtensionMark(ct, pd, pos)
           after == AfterMark(ct, pos)
           rv == INTEGER_decode_uper(td, per, pd, pos)
<1>1. ct.ext \in BOOLEAN /\ inext \in BOOLEAN /\ (inext => ct.ext)
    BY RangeCases DEF IntegerSent
<1>2. y \in Bits
    BY IntegerBodyType
<1>3. x = m \o y /\ IsMark(m, ct, inext)
    BY DEF IsInteger, IsMark
<1>4. mark < 0 => rv = ASN__DECODE_STARVED
    BY IntegerForms
<1>5. ASSUME mark = Marked(inext), after \in Nat
      PROVE  /\ At(pd, after, y) => rv = Decoded(v, after + Len(y), 0)
             /\ CutAt(pd, after, y) => rv = ASN__DECODE_STARVED
    BY <1>5, IntegerBodyRead
<1> HIDE DEF inext, y, m, rv
<1>6. /\ At(pd, pos, m \o y) =>
             /\ mark = Marked(inext) /\ after \in Nat /\ At(pd, after, y)
             /\ after + Len(y) = pos + Len(m \o y)
      /\ CutAt(pd, pos, m \o y) =>
             mark = -1 \/ (mark = Marked(inext) /\ after \in Nat /\ CutAt(pd, after, y))
    <2>1. IsMark(m, ct, inext)
        BY <1>3
    <2> QED BY <1>1, <1>2, <2>1, GetMarked
<1> HIDE DEF mark, after
<1>7. ASSUME At(pd, pos, m \o y) PROVE rv = Decoded(v, pos + Len(m \o y), 0)
    BY <1>5, <1>6, <1>7
<1>8. ASSUME CutAt(pd, pos, m \o y) PROVE rv = ASN__DECODE_STARVED
    BY <1>4, <1>5, <1>6, <1>8
<1> QED BY <1>3, <1>7, <1>8 DEF rv

(***************************************************************************)
(* INTEGER.c and NativeInteger.c: exactly the values within the range, with*)
(* an extension mark also the others, and without a range the values above *)
(* a lower bound of zero, can be sent; what was sent comes back, wherever  *)
(* it was written and whatever follows it, and a cut one is noticed.       *)
(***************************************************************************)
THEOREM IntegerRoundTrip ==
    ASSUME NEW td, NEW per, IntegerFits(ValueConstraint(td, per)),
           NEW v \in Longs, Held(td, ValueConstraint(td, per), v), NEW a \in Bits, NEW rest \in Bits
    PROVE  LET er == INTEGER_encode_uper(td, per, v, Output(a))
           IN  /\ er.ok <=> IntegerSent(ValueConstraint(td, per), v)
               /\ er.ok =>
                    /\ INTEGER_decode_uper(td, per, er.bits \o rest, Len(a)) = Decoded(v, Len(er.bits), 0)
                    /\ \A cut \in Len(a) .. Len(er.bits) - 1 :
                          INTEGER_decode_uper(td, per, SubSeq(er.bits, 1, cut), Len(a))
                              = ASN__DECODE_STARVED
<1> DEFINE er == INTEGER_encode_uper(td, per, v, Output(a))
           ct == ValueConstraint(td, per)
           m == MarkBits(ct, Beyond(ct, v))
           y == IntegerBody(ct, v)
           x == m \o y
<1>0. ct = ValueConstraint(td, per) /\ IntegerFits(ct) /\ Held(td, ct, v)
    OBVIOUS
<1> HIDE DEF ct
<1>1. CASE ~ IntegerSent(ct, v)
    <2>1. er = EncodeFailed
        BY <1>0, <1>1, IntegerPut
    <2>2. ~ er.ok
        BY <2>1 DEF EncodeFailed
    <2> QED BY <1>0, <1>1, <2>2
<1>2. CASE IntegerSent(ct, v)
    <2>1. er = Output((a \o m) \o y)
        BY <1>0, <1>2, IntegerPut
    <2>2. y \in Bits
        BY <1>0, IntegerBodyType
    <2>3. m \in Bits
        BY <1>0, RangeCases, PutMarkBits
    <2>4. \A pd \in Bits, pos \in Nat :
            /\ At(pd, pos, x) =>
                 INTEGER_decode_uper(td, per, pd, pos) = Decoded(v, pos + Len(x), 0)
            /\ CutAt(pd, pos, x) => INTEGER_decode_uper(td, per, pd, pos) = ASN__DECODE_STARVED
        <3>1. IsInteger(x, ct, v)
            BY DEF IsInteger
        <3> HIDE DEF x
        <3> QED BY <1>0, <1>2, <3>1, IntegerGet
    <2> HIDE DEF m, y, er
    <2>5. (a \o m) \o y = a \o x /\ x \in Bits
        BY <2>2, <2>3, ConcatAssociative, BitsConcat DEF Bits
    <2> HIDE DEF x
    <2>6. Delivered(er, a, rest, x)
        BY <2>1, <2>5, Delivery
    <2>7. INTEGER_decode_uper(td, per, er.bits \o rest, Len(a)) = Decoded(v, Len(er.bits), 0)
        BY <2>4, <2>6 DEF Delivered
    <2>8. ASSUME NEW cut \in Len(a) .. Len(er.bits) - 1
          PROVE  INTEGER_decode_uper(td, per, SubSeq(er.bits, 1, cut), Len(a)) = ASN__DECODE_STARVED
        BY <2>4, <2>6 DEF Delivered
    <2> QED BY <1>0, <1>2, <2>6, <2>7, <2>8 DEF er, Delivered
<1> QED BY <1>1, <1>2

-----------------------------------------------------------------------------
(* The size of a string. *)

\* The sizes n that can be sent under c, and the bits that stand for n.
SizeOk(c, n) == IF c.bits >= 0 THEN n \in c.lb[3] .. c.ub[3] ELSE IsLength(n)
SizeBits(c, n) == IF c.bits >= 0 THEN BitsOf(n - c.lb[3], c.bits) ELSE LengthBits(n)

\* Reading a size, complete or cut.
LEMMA ReadSize ==
    ASSUME NEW c, SizeFits(c), NEW n, SizeOk(c, n), NEW pd \in Bits, NEW pos \in Nat
    PROVE  /\ SizeBits(c, n) \in Bits /\ n \in Nat
           /\ At(pd, pos, SizeBits(c, n)) => GetSize(c, pd, pos) = <<n, pos + Len(SizeBits(c, n))>>
           /\ CutAt(pd, pos, SizeBits(c, n)) => GetSize(c, pd, pos)[1] = -1
<1> DEFINE k == c.bits
           lb == c.lb[3]
           ub == c.ub[3]
           s == SizeBits(c, n)
           d == n - lb
           f == asn_get_few_bits(pd, pos, k)
<1>0. k \in Int /\ k <= 16
    BY DEF SizeFits
<1>1. CASE k >= 0
    <2>1. /\ lb \in Nat /\ ub \in Nat /\ lb <= ub /\ ub - lb < 2^k /\ n \in lb .. ub
        BY <1>1 DEF SizeFits, SizeOk
    <2>2. k \in Nat /\ k =< 31 /\ k \in 0 .. 16
        BY <1>0, <1>1
    <2>3. 2^k \in Nat
        BY <2>2, PowerPositive
    <2>4. d \in Nat /\ d < 2^k /\ n \in Nat /\ d + lb = n
        BY <2>1, <2>3
    <2>5. s = BitsOf(d, k)
        BY <1>1 DEF SizeBits
    <2>6. GetSize(c, pd, pos) = IF k = 0 THEN <<ub, pos>> ELSE <<IF f < 0 THEN f ELSE f + lb, pos + k>>
        BY <2>2 DEF GetSize, uper_get_length
    <2>7. k = 0 => ub = n /\ pos + k = pos
        BY <2>1
    <2> HIDE DEF k, lb, ub, d
    <2>8. BitsOf(d, k) \in Bits /\ Len(BitsOf(d, k)) = k
        BY <2>2, <2>4, BitsOfType
    <2>9. At(pd, pos, BitsOf(d, k)) => f = d
        BY <2>2, <2>4, GetFewBits
    <2> DEFINE t == BitsOf(d, k)
    <2>10. CutAt(pd, pos, t) => f = -1
        <3>1. t \in Bits /\ Len(t) = k
            BY <2>8
        <3> HIDE DEF t
        <3> QED BY <3>1, GetCut
    <2>11. CutAt(pd, pos, t) => k # 0
        <3>1. t \in Bits /\ Len(t) = k
            BY <2>8
        <3> HIDE DEF t
        <3>2. Len(pd) \in Nat
            BY BitsParts
        <3> QED BY <3>1, <3>2 DEF CutAt
    <2> HIDE DEF f, t, s
    <2>12. s = t /\ t \in Bits /\ Len(t) = k
        BY <2>5, <2>8 DEF t
    <2>13. ASSUME At(pd, pos, t) PROVE GetSize(c, pd, pos) = <<n, pos + k>>
        <3>1. f = d /\ ~ (d < 0)
            BY <2>4, <2>9, <2>13 DEF t
        <3> QED BY <2>4, <2>6, <2>7, <3>1
    <2>14. ASSUME CutAt(pd, pos, t) PROVE GetSize(c, pd, pos)[1] = -1
        <3>1. f = -1 /\ k # 0
            BY <2>10, <2>11, <2>14
        <3> QED BY <2>6, <3>1
    <2> QED BY <2>4, <2>12, <2>13, <2>14 DEF s
<1>2. CASE ~ (k >= 0)
    <2>1. IsLength(n) /\ s = LengthBits(n) /\ k = -1
        BY <1>2 DEF SizeOk, SizeBits, SizeFits
    <2>2. GetSize(c, pd, pos) = uper_get_length(pd, pos, -1, 0)
        <3>1. k # 0 /\ k \notin 0 .. 16 /\ -1 \notin 0 .. 16
            BY <2>1
        <3> QED BY <2>1, <3>1 DEF GetSize, uper_get_length
    <2>3. At(pd, pos, LengthBits(n)) => uper_get_length(pd, pos, -1, 0) = <<n, pos + Len(LengthBits(n))>>
        BY <2>1, GetLength
    <2>4. CutAt(pd, pos, LengthBits(n)) => uper_get_length(pd, pos, -1, 0)[1] = -1
        BY <2>1, GetLengthCut
    <2>5. LengthBits(n) \in Bits /\ n \in Nat
        BY <2>1, LengthBitsType DEF IsLength
    <2> HIDE DEF s
    <2> QED BY <2>1, <2>2, <2>3, <2>4, <2>5 DEF s
<1> QED BY <1>1, <1>2

\* A size with a body y behind it, complete or cut.
LEMMA ReadSized ==
    ASSUME NEW c, SizeFits(c), NEW n, SizeOk(c, n), NEW pd \in Bits, NEW pos \in Nat, NEW y \in Bits
    PROVE  LET s == SizeBits(c, n)
           IN  /\ s \o y \in Bits /\ n \in Nat /\ pos + Len(s) \in Nat
               /\ pos + Len(s) + Len(y) = pos + Len(s \o y)
               /\ At(pd, pos, s \o y) =>
                     GetSize(c, pd, pos) = <<n, pos + Len(s)>> /\ At(pd, pos + Len(s), y)
               /\ CutAt(pd, pos, s \o y) =>
                     \/ GetSize(c, pd, pos)[1] = -1
                     \/ GetSize(c, pd, pos) = <<n, pos + Len(s)>> /\ CutAt(pd, pos + Len(s), y)
<1> DEFINE s == SizeBits(c, n)
           l == GetSize(c, pd, pos)
<1>1. /\ s \in Bits /\ n \in Nat
      /\ At(pd, pos, s) => l = <<n, pos + Len(s)>>
      /\ CutAt(pd, pos, s) => l[1] = -1
    BY ReadSize
<1> HIDE DEF s, l
<1>2. s \o y \in Bits /\ Len(s \o y) = Len(s) + Len(y) /\ Len(s) \in Nat /\ Len(y) \in Nat
    BY <1>1, BitsConcat, BitsParts
<1>3. At(pd, pos, s \o y) => At(pd, pos, s) /\ At(pd, pos + Len(s), y)
    BY <1>1, AtConcat
<1>4. CutAt(pd, pos, s \o y) => CutAt(pd, pos, s) \/ (At(pd, pos, s) /\ CutAt(pd, pos + Len(s), y))
    BY <1>1, CutConcat
<1>5. pos + Len(s) \in Nat /\ pos + Len(s) + Len(y) = pos + Len(s \o y)
    BY <1>2
<1> QED BY <1>1, <1>2, <1>3, <1>4, <1>5 DEF s, l

-----------------------------------------------------------------------------
(* BIT STRING *)

\* The bits without the zeros at the end, and with as many as the size asks for.
BitAt(x, i) == IF i \in 1 .. Len(x) THEN x[i] ELSE 0
Missing(ct, st) == IF Len(st) < ct.lb[3] THEN ct.lb[3] - Len(st) ELSE 0
Padded(st, n) == st \o [i \in 1 .. n |-> 0]

\* BIT_STRING__compactify takes zeros off, and nothing else.
LEMMA Compactified ==
    ASSUME NEW v \in Bits
    PROVE  /\ BIT_STRING__compactify(v) \in Bits /\ Len(BIT_STRING__compactify(v)) =< Len(v)
           /\ \A i \in Nat : BitAt(BIT_STRING__compactify(v), i) = BitAt(v, i)
<1> DEFINE ones == {i \in DOMAIN v : v[i] = 1}
           st == BIT_STRING__compactify(v)
           n == Len(v)
           last(i) == \A j \in ones : j <= i
           k == CHOOSE i \in ones : last(i)
<1>1. n \in Nat /\ DOMAIN v = 1 .. n /\ \A i \in 1 .. n : v[i] \in {0, 1}
    BY BitsParts DEF Bits
<1>2. st = IF ones = {} THEN <<>> ELSE SubSeq(v, 1, k)
    BY DEF BIT_STRING__compactify
<1> HIDE DEF st
<1>3. CASE ones = {}
    <2>1. st = <<>> /\ st \in Bits /\ Len(st) = 0
        BY <1>2, <1>3 DEF Bits
    <2>2. ASSUME NEW i \in Nat PROVE BitAt(v, i) = 0
        BY <1>1, <1>3 DEF BitAt
    <2>3. ASSUME NEW i \in Nat PROVE BitAt(st, i) = 0
        BY <2>1 DEF BitAt
    <2> QED BY <1>1, <2>1, <2>2, <2>3 DEF st
<1>4. CASE ones # {}
    <2> DEFINE T == {m \in Nat : m =< n /\ \A j \in ones : j <= m}
    <2>1. n \in T
        BY <1>1
    <2>2. PICK m \in T : \A t \in T : m =< t
        BY <2>1, LeastNumber
    <2>3. m \in Nat /\ m =< n /\ last(m) /\ m \in ones
        <3>1. m \in Nat /\ m =< n /\ last(m)
            OBVIOUS
        <3>2. ASSUME m \notin ones PROVE FALSE
            <4>1. PICK j \in ones : TRUE
                BY <1>4
            <4>2. j \in 1 .. n /\ j <= m
                BY <1>1, <3>1
            <4>3. m - 1 \in Nat /\ m - 1 =< n
                BY <3>1, <4>2, <1>1
            <4>4. ASSUME NEW i \in ones PROVE i <= m - 1
                <5>1. i <= m /\ i # m /\ i \in Nat
                    BY <1>1, <3>1, <3>2
                <5> QED BY <3>1, <5>1
            <4>5. m - 1 \in T
                BY <4>3, <4>4
            <4> QED BY <2>2, <3>1, <4>5
        <3> QED BY <3>1, <3>2
    <2>4. k \in ones /\ last(k)
        <3> HIDE DEF last, ones
        <3> QED BY <2>3
    <2> HIDE DEF k
    <2>5. k \in 1 .. n
        BY <1>1, <2>4
    <2>6. /\ SubSeq(v, 1, k) \in Bits /\ Len(SubSeq(v, 1, k)) = k
          /\ \A i \in 1 .. k : SubSeq(v, 1, k)[i] = v[i]
        <3> DEFINE y == SubSeq(v, 1, k)
        <3>1. IsPart(v, 0, k, y)
            BY <1>1, <2>5 DEF IsPart
        <3> HIDE DEF y
        <3>2. y \in Bits /\ Len(y) = k /\ \A i \in 1 .. k : y[i] = v[0 + i]
            BY <3>1, PartBits
        <3>3. \A i \in 1 .. k : y[i] = v[i]
            BY <3>2
        <3> QED BY <3>2, <3>3 DEF y
    <2>7. st \in Bits /\ Len(st) = k /\ \A i \in 1 .. k : st[i] = v[i]
        BY <1>2, <1>4, <2>6
    <2>8. ASSUME NEW i \in Nat PROVE BitAt(st, i) = BitAt(v, i)
        <3>1. CASE i \in 1 .. k
            BY <1>1, <2>5, <2>7, <3>1 DEF BitAt
        <3>2. CASE i \in 1 .. n /\ ~ (i \in 1 .. k)
            <4>1. ~ (i <= k)
                BY <2>5, <3>2
            <4>2. v[i] = 0
                BY <1>1, <2>4, <3>2, <4>1
            <4> QED BY <2>7, <3>2, <4>2 DEF BitAt
        <3>3. CASE i \notin 1 .. n
            <4>1. i \notin 1 .. k
                BY <1>1, <2>5, <3>3
            <4> QED BY <2>7, <3>3, <4>1 DEF BitAt
        <3> QED BY <3>1, <3>2, <3>3
    <2> QED BY <1>1, <2>5, <2>7, <2>8 DEF st
<1> QED BY <1>3, <1>4

\* What is sent of v: with zeros up to the least size within the root, and
\* without any outside of it.
BitsOutside(ct, v) == ct.bits >= 0 /\ Len(BIT_STRING__compactify(v)) > ct.ub[3]
BitsSent(ct, v) ==
    LET st == BIT_STRING__compactify(v)
    IN  IF ct.bits >= 0 /\ ~ BitsOutside(ct, v) THEN Padded(st, Missing(ct, st)) ELSE st

\* The size constraint in force once the mark is read.
Sized(ct, outside) == IF outside THEN SemiConstrained ELSE ct

\* The strings that can be sent.
BitsSendable(ct, v) ==
    IF BitsOutside(ct, v) THEN ct.ext /\ IsLength(Len(BIT_STRING__compactify(v)))
    ELSE ct.bits >= 0 \/ IsLength(Len(BIT_STRING__compactify(v)))

\* The size constraint outside of the root.
LEMMA SemiConstrainedParts ==
    SemiConstrained.bits = -1 /\ SemiConstrained.ext = FALSE /\ SizeFits(SemiConstrained)
<1>1. SemiConstrained.bits = -1 /\ SemiConstrained.ext = FALSE
    BY DEF SemiConstrained, SemiConstrainedFrom, Constraint
<1>2. ~ (-1 >= 0) /\ -1 \in -1 .. 16
    OBVIOUS
<1>3. ~ (SemiConstrained.bits >= 0) /\ SemiConstrained.bits \in -1 .. 16
    BY <1>1, <1>2, Zenon
<1>4. SemiConstrained.ext \in BOOLEAN
    BY <1>1, Zenon
<1>5. SizeFits(SemiConstrained)
    BY <1>3, <1>4, Zenon DEF SizeFits
<1> QED BY <1>1, <1>5

\* What is sent differs from v in zeros at the end only, and has a size that can be sent.
LEMMA BitsSentType ==
    ASSUME NEW ct, SizeFits(ct), NEW v \in Bits
    PROVE  /\ BitsOutside(ct, v) \in BOOLEAN /\ SizeFits(Sized(ct, BitsOutside(ct, v)))
           /\ BitsSent(ct, v) \in Bits
           /\ \A i \in Nat : BitAt(BitsSent(ct, v), i) = BitAt(v, i)
           /\ BitsSendable(ct, v) => SizeOk(Sized(ct, BitsOutside(ct, v)), Len(BitsSent(ct, v)))
           /\ ct.bits = 0 /\ Len(v) = ct.ub[3] => BitsSent(ct, v) = v
           /\ ct.bits >= 0 /\ ~ BitsOutside(ct, v) =>
                /\ Missing(ct, BIT_STRING__compactify(v)) \in Nat
                /\ Len(BitsSent(ct, v)) = Len(BIT_STRING__compactify(v)) + Missing(ct, BIT_STRING__compactify(v))
<1> DEFINE st == BIT_STRING__compactify(v)
           k == Missing(ct, st)
           z == [i \in 1 .. k |-> 0]
           w == BitsSent(ct, v)
           outside == BitsOutside(ct, v)
           lb == ct.lb[3]
           ub == ct.ub[3]
<1>1. st \in Bits /\ Len(st) =< Len(v) /\ \A i \in Nat : BitAt(st, i) = BitAt(v, i)
    BY Compactified
<1>2. Len(st) \in Nat /\ Len(v) \in Nat
    BY <1>1, BitsParts
<1>3. outside <=> (ct.bits >= 0 /\ Len(st) > ub)
    BY DEF BitsOutside
<1>4. w = IF ct.bits >= 0 /\ ~ outside THEN st \o z ELSE st
    BY DEF BitsSent, Padded
<1>5. BitsSendable(ct, v) <=> IF outside THEN ct.ext /\ IsLength(Len(st)) ELSE ct.bits >= 0 \/ IsLength(Len(st))
    BY DEF BitsSendable
<1>6. k = IF Len(st) < lb THEN lb - Len(st) ELSE 0
    BY DEF Missing
<1> HIDE DEF st, k, w, outside
<1>7. outside \in BOOLEAN /\ SizeFits(Sized(ct, outside))
    BY <1>3, SemiConstrainedParts DEF Sized
<1>8. CASE ct.bits >= 0 /\ ~ outside
    <2>1. lb \in Nat /\ ub \in Nat /\ lb <= ub /\ (ct.bits = 0 => ub - lb < 2^0)
        BY <1>8 DEF SizeFits
    <2>2. 2^0 = 1
        OBVIOUS
    <2>3. k \in Nat /\ Len(st) + k \in lb .. ub
        BY <1>2, <1>3, <1>6, <1>8, <2>1
    <2>4. z \in Bits /\ Len(z) = k /\ \A i \in 1 .. k : z[i] = 0
        BY <2>3, Zeros
    <2> HIDE DEF z
    <2>5. /\ st \o z \in Bits /\ Len(st \o z) = Len(st) + Len(z)
          /\ \A i \in 1 .. Len(st) : (st \o z)[i] = st[i]
          /\ \A i \in 1 .. Len(z) : (st \o z)[Len(st) + i] = z[i]
        BY <1>1, <2>4, BitsConcat
    <2>6. w = st \o z
        BY <1>4, <1>8
    <2>7. /\ w \in Bits /\ Len(w) = Len(st) + k
          /\ \A i \in 1 .. Len(st) : w[i] = st[i]
          /\ \A i \in 1 .. k : w[Len(st) + i] = 0
        BY <2>4, <2>5, <2>6
    <2>8. ASSUME NEW i \in Nat PROVE BitAt(w, i) = BitAt(st, i)
        <3>1. CASE i \in 1 .. Len(st)
            BY <1>2, <2>3, <2>7, <3>1 DEF BitAt
        <3>2. CASE i \in 1 .. Len(w) /\ i \notin 1 .. Len(st)
            <4>1. PICK j \in 1 .. k : i = Len(st) + j
                <5>1. i - Len(st) \in 1 .. k /\ i = Len(st) + (i - Len(st))
                    BY <1>2, <2>3, <2>7, <3>2
                <5> QED BY <5>1
            <4>2. w[i] = 0
                BY <2>7, <4>1
            <4> QED BY <3>2, <4>2 DEF BitAt
        <3>3. CASE i \notin 1 .. Len(w)
            <4>1. i \notin 1 .. Len(st)
                BY <1>2, <2>3, <2>7, <3>3
            <4> QED BY <3>3, <4>1 DEF BitAt
        <3> QED BY <3>1, <3>2, <3>3
    <2>9. SizeOk(Sized(ct, outside), Len(w))
        BY <1>8, <2>3, <2>7 DEF SizeOk, Sized
    <2>10. ASSUME ct.bits = 0, Len(v) = ub PROVE w = v
        <3>1. Len(w) = Len(v)
            BY <2>1, <2>2, <2>3, <2>7, <2>10
        <3>2. ASSUME NEW i \in 1 .. Len(w) PROVE w[i] = v[i]
            <4>1. i \in Nat /\ BitAt(w, i) = w[i] /\ BitAt(v, i) = v[i]
                BY <1>2, <3>1 DEF BitAt
            <4> QED BY <1>1, <2>8, <4>1
        <3>3. SameBits(w, v)
            BY <3>1, <3>2 DEF SameBits
        <3> QED BY <2>7, <3>3, SameBitsEqual
    <2> QED BY <1>1, <1>7, <2>3, <2>7, <2>8, <2>9, <2>10 DEF w, outside, st, k
<1>9. CASE ~ (ct.bits >= 0 /\ ~ outside)
    <2>1. w = st
        BY <1>4, <1>9
    <2>2. BitsSendable(ct, v) => SizeOk(Sized(ct, outside), Len(w))
        <3>1. CASE outside
            BY <1>5, <2>1, <3>1, SemiConstrainedParts DEF SizeOk, Sized
        <3>2. CASE ~ outside
            BY <1>5, <1>9, <2>1, <3>2 DEF SizeOk, Sized
        <3> QED BY <3>1, <3>2
    <2>3. ~ (ct.bits = 0 /\ Len(v) = ub)
        BY <1>1, <1>2, <1>3, <1>9
    <2> QED BY <1>1, <1>7, <1>9, <2>1, <2>2, <2>3 DEF w, outside, st
<1> QED BY <1>8, <1>9

\* What the encoder appends, or that it refuses.
LEMMA BitsPut ==
    ASSUME NEW td, NEW per, NEW ct, ct = SizeConstraint(td, per), SizeFits(ct),
           NEW v \in Bits, NEW a \in Bits
    PROVE  LET outside == BitsOutside(ct, v)
               w == BitsSent(ct, v)
               er == BIT_STRING_encode_uper(td, per, v, Output(a))
           IN  /\ er.ok <=> BitsSendable(ct, v)
               /\ BitsSendable(ct, v) =>
                    er = Output(((a \o MarkBits(ct, outside)) \o SizeBits(Sized(ct, outside), Len(w))) \o w)
<1> DEFINE st == BIT_STRING__compactify(v)
           outside == BitsOutside(ct, v)
           k == Missing(ct, st)
           w == BitsSent(ct, v)
           b == a \o MarkBits(ct, outside)
           po == PutMark(ct, outside, Output(a))
           er == BIT_STRING_encode_uper(td, per, v, Output(a))
           c == Sized(ct, outside)
           general == asn_put_many_bits(uper_put_length(po, Len(st)), st)
           z == [i \in 1 .. k |-> 0]
<1>1. /\ outside /\ ~ ct.ext => er = EncodeFailed
      /\ outside /\ ct.ext => er = general
      /\ ~ outside /\ ct.bits >= 0 =>
            er = asn_put_many_bits(asn_put_few_bits(po, Len(st) + k - ct.lb[3], ct.bits), st \o z)
      /\ ~ outside /\ ~ (ct.bits >= 0) => er = general
    <2> HIDE DEF outside, general, k, z
    <2> QED BY DEF BIT_STRING_encode_uper, BitsOutside, outside, general, k, z, Missing, po, st
<1>2. /\ outside \in BOOLEAN /\ SizeFits(c) /\ w \in Bits
      /\ BitsSendable(ct, v) => SizeOk(c, Len(w))
      /\ ct.bits >= 0 /\ ~ outside => k \in Nat /\ Len(w) = Len(st) + k
    BY BitsSentType
<1>3. ct.ext \in BOOLEAN
    BY DEF SizeFits
<1>4. po = Output(b)
    BY <1>2, <1>3, PutMarkBits
<1>5. BitsSendable(ct, v) <=> IF outside THEN ct.ext /\ IsLength(Len(st)) ELSE ct.bits >= 0 \/ IsLength(Len(st))
    BY DEF BitsSendable
<1>6. w = IF ct.bits >= 0 /\ ~ outside THEN st \o z ELSE st
    BY DEF BitsSent, Padded
<1>7. Len(st) \in Nat
    <2>1. st \in Bits
        BY Compactified
    <2> QED BY <2>1, BitsParts
<1>8. c = IF outside THEN SemiConstrained ELSE ct
    BY DEF Sized
<1> HIDE DEF st, k, w, er, c, b, outside, z
<1>9. IsLength(Len(st)) => general = Output((b \o LengthBits(Len(st))) \o st)
    <2>1. IsLength(Len(st)) => uper_put_length(Output(b), Len(st)) = Output(b \o LengthBits(Len(st)))
        BY <1>7, PutLength
    <2> QED BY <1>4, <2>1, PutBits
<1>10. ~ IsLength(Len(st)) => ~ general.ok
    <2>1. ~ IsLength(Len(st)) => uper_put_length(Output(b), Len(st)) = EncodeFailed
        BY <1>7, PutLength
    <2>2. EncodeFailed.ok = FALSE
        BY DEF EncodeFailed
    <2> QED BY <1>4, <2>1, <2>2 DEF asn_put_many_bits
<1> HIDE DEF general, po
<1>11. \A q : Output(q).ok = TRUE
    BY OutputParts
<1>12. CASE ct.bits >= 0 /\ ~ outside
    <2>1. er = asn_put_many_bits(asn_put_few_bits(Output(b), Len(w) - ct.lb[3], ct.bits), w)
        <3> DEFINE put(i) == asn_put_many_bits(asn_put_few_bits(po, i, ct.bits), st \o z)
                   n == Len(st) + k - ct.lb[3]
        <3>1. er = put(n)
            BY <1>1, <1>12
        <3>2. n = Len(w) - ct.lb[3]
            <4>1. ct.lb[3] \in Nat
                BY <1>12 DEF SizeFits
            <4>2. k \in Nat /\ Len(w) = Len(st) + k
                BY <1>2, <1>12
            <4> QED BY <1>7, <4>1, <4>2
        <3>3. w = st \o z
            BY <1>6, <1>12
        <3> HIDE DEF n, put
        <3>4. er = put(Len(w) - ct.lb[3])
            BY <3>1, <3>2
        <3> QED BY <1>4, <3>3, <3>4, Zenon DEF put
    <2>2. er = Output((b \o BitsOf(Len(w) - ct.lb[3], ct.bits)) \o w)
        BY <2>1, PutFewBits, PutBits
    <2>3. SizeBits(c, Len(w)) = BitsOf(Len(w) - ct.lb[3], ct.bits)
        BY <1>8, <1>12 DEF SizeBits
    <2>4. BitsSendable(ct, v)
        BY <1>5, <1>12
    <2> QED BY <1>11, <2>2, <2>3, <2>4 DEF er, w, c, b, outside
<1>13. CASE ~ (ct.bits >= 0 /\ ~ outside)
    <2>1. w = st
        BY <1>6, <1>13
    <2>2. ~ (c.bits >= 0)
        BY <1>8, <1>13, SemiConstrainedParts
    <2>3. SizeBits(c, Len(w)) = LengthBits(Len(st))
        BY <2>1, <2>2 DEF SizeBits
    <2>4. CASE BitsSendable(ct, v)
        <3>1. er = general /\ IsLength(Len(st))
            BY <1>1, <1>5, <1>13, <2>4
        <3>2. er = Output((b \o SizeBits(c, Len(w))) \o w)
            BY <1>9, <2>1, <2>3, <3>1
        <3> QED BY <1>11, <2>4, <3>2 DEF er, w, c, b, outside
    <2>5. CASE ~ BitsSendable(ct, v)
        <3>1. er = EncodeFailed \/ (er = general /\ ~ IsLength(Len(st)))
            BY <1>1, <1>3, <1>5, <1>13, <2>5
        <3>2. EncodeFailed.ok = FALSE
            BY DEF EncodeFailed
        <3>3. ~ er.ok
            BY <1>10, <3>1, <3>2
        <3> QED BY <2>5, <3>3 DEF er
    <2> QED BY <2>4, <2>5
<1> QED BY <1>12, <1>13

\* Bits behind bits behind bits.
LEMMA BitsAssociative ==
    ASSUME NEW x \in Bits, NEW y \in Bits, NEW z \in Bits
    PROVE  (x \o y) \o z = x \o (y \o z)
BY ConcatAssociative DEF Bits

\* They are bits (a name for the four facts).
Pieces(a, m, s, w) == a \in Bits /\ m \in Bits /\ s \in Bits /\ w \in Bits

\* The output, the mark, the size and the contents, in the order of writing and in that of reading.
LEMMA FourPieces ==
    ASSUME NEW a, NEW m, NEW s, NEW w, Pieces(a, m, s, w)
    PROVE  ((a \o m) \o s) \o w = a \o (m \o (s \o w)) /\ m \o (s \o w) \in Bits
<1> DEFINE b == a \o m
           t == s \o w
<1>0. a \in Bits /\ m \in Bits /\ s \in Bits /\ w \in Bits
    BY DEF Pieces
<1>1. b \in Bits /\ t \in Bits
    BY <1>0, BitsConcat
<1>2. (b \o s) \o w = b \o t
    <2> HIDE DEF b
    <2> QED BY <1>0, <1>1, BitsAssociative
<1> HIDE DEF t
<1>3. b \o t = a \o (m \o t)
    BY <1>0, <1>1, BitsAssociative, Zenon
<1>4. m \o t \in Bits
    BY <1>0, <1>1, BitsConcat
<1> HIDE DEF b
<1>5. (b \o s) \o w = a \o (m \o t)
    BY <1>2, <1>3, Zenon
<1> QED BY <1>4, <1>5, Zenon DEF b, t

\* What BIT_STRING_decode_uper does behind the mark.
BitsFrom(c, pd, len) ==
    IF len[1] < 0 \/ Starving(asn_get_many_bits(pd, len[2], len[1])) THEN ASN__DECODE_STARVED
    ELSE Decoded(asn_get_many_bits(pd, len[2], len[1]), len[2] + len[1], IF c.bits = 0 THEN len[1] ELSE 0)

\* The two ways to go on behind the mark.
LEMMA BitsForms ==
    ASSUME NEW td, NEW per, NEW ct, ct = SizeConstraint(td, per), NEW pd, NEW pos,
           NEW mark, mark = ExtensionMark(ct, pd, pos), NEW after, after = AfterMark(ct, pos)
    PROVE  /\ mark < 0 => BIT_STRING_decode_uper(td, per, pd, pos) = ASN__DECODE_STARVED
           /\ mark = 0 => BIT_STRING_decode_uper(td, per, pd, pos) = BitsFrom(ct, pd, GetSize(ct, pd, after))
           /\ mark = 1 => BIT_STRING_decode_uper(td, per, pd, pos)
                              = BitsFrom(SemiConstrained, pd, GetSize(SemiConstrained, pd, after))
BY DEF BIT_STRING_decode_uper, BitsFrom

\* What SET_OF_decode_uper is told of a string of fixed size: the bits it took.
Consumed(c, n) == IF c.bits = 0 THEN n ELSE 0

\* A size and the bits behind it, complete or cut.
LEMMA BitsRead ==
    ASSUME NEW c, SizeFits(c), NEW w \in Bits, SizeOk(c, Len(w)), NEW pd \in Bits, NEW pos \in Nat
    PROVE  LET y == SizeBits(c, Len(w)) \o w
               rv == BitsFrom(c, pd, GetSize(c, pd, pos))
           IN  /\ y \in Bits
               /\ At(pd, pos, y) => rv = Decoded(w, pos + Len(y), Consumed(c, Len(w)))
               /\ CutAt(pd, pos, y) => rv = ASN__DECODE_STARVED
<1> DEFINE n == Len(w)
           s == SizeBits(c, n)
           y == s \o w
           len == GetSize(c, pd, pos)
           q == pos + Len(s)
           rv == BitsFrom(c, pd, len)
<1>1. /\ y \in Bits /\ n \in Nat /\ q \in Nat /\ q + Len(w) = pos + Len(y)
      /\ At(pd, pos, y) => len = <<n, q>> /\ At(pd, q, w)
      /\ CutAt(pd, pos, y) => len[1] = -1 \/ (len = <<n, q>> /\ CutAt(pd, q, w))
    <2> HIDE DEF n
    <2>1. SizeOk(c, n)
        BY DEF n
    <2> QED BY <2>1, ReadSized
<1> HIDE DEF y, q, len, s
<1>2. At(pd, q, w) => asn_get_many_bits(pd, q, n) = w
    BY <1>1, GetManyBits
<1>3. CutAt(pd, q, w) => asn_get_many_bits(pd, q, n) = <<-1>>
    BY <1>1, GetCut
<1>4. ~ Starving(w) /\ Starving(<<-1>>)
    BY NotStarving DEF Starving
<1>5. q + n = pos + Len(y) /\ ~ (n < 0)
    BY <1>1
<1> HIDE DEF n
<1>6. ASSUME len = <<n, q>>
      PROVE  rv = IF Starving(asn_get_many_bits(pd, q, n)) THEN ASN__DECODE_STARVED
                  ELSE Decoded(asn_get_many_bits(pd, q, n), q + n, Consumed(c, n))
    <2>1. len[1] = n /\ len[2] = q
        BY <1>6
    <2> QED BY <1>5, <2>1 DEF BitsFrom, Consumed
<1>7. len[1] = -1 => rv = ASN__DECODE_STARVED
    BY DEF BitsFrom
<1> HIDE DEF rv
<1>8. ASSUME At(pd, pos, y) PROVE rv = Decoded(w, pos + Len(y), Consumed(c, n))
    <2>1. len = <<n, q>> /\ asn_get_many_bits(pd, q, n) = w
        BY <1>1, <1>2, <1>8
    <2> QED BY <1>4, <1>5, <1>6, <2>1
<1>9. ASSUME CutAt(pd, pos, y) PROVE rv = ASN__DECODE_STARVED
    BY <1>1, <1>3, <1>4, <1>6, <1>7, <1>9
<1> QED BY <1>1, <1>8, <1>9 DEF y, s, rv, len, n

\* x: the bits of the string v, its mark and its size included.
IsBits(x, ct, v) ==
    LET outside == BitsOutside(ct, v)
        w == BitsSent(ct, v)
    IN  x = MarkBits(ct, outside) \o (SizeBits(Sized(ct, outside), Len(w)) \o w)

\* What the decoder makes of these bits, complete or cut.
LEMMA BitsGet ==
    ASSUME NEW td, NEW per, NEW ct, ct = SizeConstraint(td, per), SizeFits(ct),
           NEW v \in Bits, BitsSendable(ct, v), NEW pd \in Bits, NEW pos \in Nat,
           NEW x, IsBits(x, ct, v)
    PROVE  LET rv == BIT_STRING_decode_uper(td, per, pd, pos)
               w == BitsSent(ct, v)
           IN  /\ At(pd, pos, x) =>
                     rv = Decoded(w, pos + Len(x), Consumed(Sized(ct, BitsOutside(ct, v)), Len(w)))
               /\ CutAt(pd, pos, x) => rv = ASN__DECODE_STARVED
<1> DEFINE inext == BitsOutside(ct, v)
           w == BitsSent(ct, v)
           c == Sized(ct, inext)
           y == SizeBits(c, Len(w)) \o w
           m == MarkBits(ct, inext)
           mark == ExtensionMark(ct, pd, pos)
           after == AfterMark(ct, pos)
           rv == BIT_STRING_decode_uper(td, per, pd, pos)
           used == Consumed(c, Len(w))
<1>1. ct.ext \in BOOLEAN /\ inext \in BOOLEAN /\ (inext => ct.ext)
    BY BitsSentType DEF BitsSendable, SizeFits
<1>2. SizeFits(c) /\ w \in Bits /\ SizeOk(c, Len(w))
    BY BitsSentType
<1>3. x = m \o y /\ IsMark(m, ct, inext)
    BY DEF IsBits, IsMark
<1>4. /\ mark < 0 => rv = ASN__DECODE_STARVED
      /\ mark = 0 => rv = BitsFrom(ct, pd, GetSize(ct, pd, after))
      /\ mark = 1 => rv = BitsFrom(SemiConstrained, pd, GetSize(SemiConstrained, pd, after))
    BY BitsForms
<1>5. c = IF inext THEN SemiConstrained ELSE ct
    BY DEF Sized
<1> HIDE DEF inext, c, w, m, rv, used
<1>6. \A q \in Nat :
        /\ y \in Bits
        /\ At(pd, q, y) => BitsFrom(c, pd, GetSize(c, pd, q)) = Decoded(w, q + Len(y), used)
        /\ CutAt(pd, q, y) => BitsFrom(c, pd, GetSize(c, pd, q)) = ASN__DECODE_STARVED
    BY <1>2, BitsRead DEF used
<1>7. 0 \in Nat
    OBVIOUS
<1>8. y \in Bits
    BY <1>6, <1>7
<1> HIDE DEF y
<1>9. /\ At(pd, pos, m \o y) =>
             /\ mark = Marked(inext) /\ after \in Nat /\ At(pd, after, y)
             /\ after + Len(y) = pos + Len(m \o y)
      /\ CutAt(pd, pos, m \o y) =>
             mark = -1 \/ (mark = Marked(inext) /\ after \in Nat /\ CutAt(pd, after, y))
    <2>1. IsMark(m, ct, inext)
        BY <1>3
    <2> QED BY <1>1, <1>8, <2>1, GetMarked
<1> HIDE DEF mark, after
<1>10. mark = Marked(inext) => rv = BitsFrom(c, pd, GetSize(c, pd, after))
    BY <1>4, <1>5 DEF Marked
<1>11. ASSUME At(pd, pos, m \o y) PROVE rv = Decoded(w, pos + Len(m \o y), used)
    BY <1>6, <1>9, <1>10, <1>11
<1>12. ASSUME CutAt(pd, pos, m \o y) PROVE rv = ASN__DECODE_STARVED
    BY <1>4, <1>6, <1>9, <1>10, <1>12
<1> QED BY <1>3, <1>11, <1>12 DEF rv, w, used, c, inext

(***************************************************************************)
(* BIT_STRING.c, for strings of less than 16384 bits, which are not        *)
(* fragmented: exactly those whose size without the zeros at the end has a *)
(* form can be sent.  What was sent comes back with the same bits, up to   *)
(* zeros at its end, a string of fixed size with all of them; a cut one is *)
(* noticed.                                                                *)
(***************************************************************************)
THEOREM BitStringRoundTrip ==
    ASSUME NEW td, NEW per, SizeFits(SizeConstraint(td, per)),
           NEW v \in Bits, IsLength(Len(v)), NEW a \in Bits, NEW rest \in Bits
    PROVE  LET ct == SizeConstraint(td, per)
               er == BIT_STRING_encode_uper(td, per, v, Output(a))
               rv == BIT_STRING_decode_uper(td, per, er.bits \o rest, Len(a))
           IN  /\ er.ok <=> BitsSendable(ct, v)
               /\ er.ok =>
                    /\ rv.rc = "OK" /\ rv.pos = Len(er.bits) /\ rv.val \in Bits
                    /\ \A i \in Nat : BitAt(rv.val, i) = BitAt(v, i)
                    /\ ct.bits = 0 /\ Len(v) = ct.ub[3] => rv.val = v
                    /\ \A cut \in Len(a) .. Len(er.bits) - 1 :
                          BIT_STRING_decode_uper(td, per, SubSeq(er.bits, 1, cut), Len(a))
                              = ASN__DECODE_STARVED
<1> DEFINE er == BIT_STRING_encode_uper(td, per, v, Output(a))
           ct == SizeConstraint(td, per)
           outside == BitsOutside(ct, v)
           w == BitsSent(ct, v)
           c == Sized(ct, outside)
           m == MarkBits(ct, outside)
           s == SizeBits(c, Len(w))
           x == m \o (s \o w)
           used == Consumed(c, Len(w))
           rv == BIT_STRING_decode_uper(td, per, er.bits \o rest, Len(a))
<1>0. ct = SizeConstraint(td, per) /\ SizeFits(ct)
    OBVIOUS
<1> HIDE DEF ct
<1>1. /\ er.ok <=> BitsSendable(ct, v)
      /\ BitsSendable(ct, v) => er = Output(((a \o m) \o s) \o w)
    BY <1>0, BitsPut
<1>2. CASE ~ BitsSendable(ct, v)
    BY <1>0, <1>1, <1>2
<1>3. CASE BitsSendable(ct, v)
    <2>1. er = Output(((a \o m) \o s) \o w)
        BY <1>1, <1>3
    <2>2. /\ outside \in BOOLEAN /\ SizeFits(c) /\ w \in Bits /\ SizeOk(c, Len(w))
          /\ \A i \in Nat : BitAt(w, i) = BitAt(v, i)
          /\ ct.bits = 0 /\ Len(v) = ct.ub[3] => w = v
        BY <1>0, <1>3, BitsSentType
    <2>3. m \in Bits
        <3>1. ct.ext \in BOOLEAN
            BY <1>0 DEF SizeFits
        <3> QED BY <2>2, <3>1, PutMarkBits
    <2>4. s \in Bits
        <3>1. <<>> \in Bits /\ 0 \in Nat
            BY DEF Bits
        <3> HIDE DEF c, w
        <3> QED BY <2>2, <3>1, ReadSize
    <2>5. \A pd \in Bits, pos \in Nat :
            /\ At(pd, pos, x) =>
                 BIT_STRING_decode_uper(td, per, pd, pos) = Decoded(w, pos + Len(x), used)
            /\ CutAt(pd, pos, x) => BIT_STRING_decode_uper(td, per, pd, pos) = ASN__DECODE_STARVED
        <3>1. IsBits(x, ct, v)
            BY DEF IsBits
        <3> HIDE DEF x
        <3> QED BY <1>0, <1>3, <3>1, BitsGet
    <2> HIDE DEF m, s, w, er, used, c, outside
    <2>6. ((a \o m) \o s) \o w = a \o x /\ x \in Bits
        <3>1. w \in Bits
            BY <2>2
        <3>2. ((a \o m) \o s) \o w = a \o (m \o (s \o w)) /\ m \o (s \o w) \in Bits
            <4>1. Pieces(a, m, s, w)
                BY <2>3, <2>4, <3>1 DEF Pieces
            <4> HIDE DEF x
            <4> QED BY <4>1, FourPieces
        <3> QED BY <3>2
    <2> HIDE DEF x
    <2>7. Delivered(er, a, rest, x)
        BY <2>1, <2>6, Delivery
    <2>8. rv = Decoded(w, Len(er.bits), used)
        BY <2>5, <2>7 DEF Delivered
    <2> HIDE DEF rv
    <2>9. rv.rc = "OK" /\ rv.pos = Len(er.bits) /\ rv.val = w
        BY <2>8 DEF Decoded
    <2>10. ASSUME NEW cut \in Len(a) .. Len(er.bits) - 1
           PROVE  BIT_STRING_decode_uper(td, per, SubSeq(er.bits, 1, cut), Len(a)) = ASN__DECODE_STARVED
        BY <2>5, <2>7 DEF Delivered
    <2> QED BY <1>0, <1>3, <2>2, <2>7, <2>9, <2>10 DEF er, rv, Delivered
<1> QED BY <1>2, <1>3

-----------------------------------------------------------------------------
(* Padding *)

(***************************************************************************)
(* per_opentype.c: an encoding on its own is filled up to whole octets with*)
(* fewer than eight bits, and the decoder accepts the filling: exactly the *)
(* bits that were written remain when it is taken off.                     *)
(***************************************************************************)
THEOREM PaddingAccepted ==
    ASSUME NEW bits \in Bits
    PROVE  LET buf == _uper_encode_flush_outp(bits)
           IN  /\ buf \in Bits /\ Len(buf) % 8 = 0
               /\ Len(bits) <= Len(buf) /\ Len(buf) < Len(bits) + 8
               /\ \A i \in 1 .. Len(bits) : buf[i] = bits[i]
               /\ PaddingValid(buf, Len(bits))
<1> DEFINE n == Len(bits)
           k == (8 - (n % 8)) % 8
           z == [i \in 1 .. k |-> 0]
           buf == bits \o z
<1>1. n \in Nat
    BY BitsParts
<1>2. _uper_encode_flush_outp(bits) = buf
    BY DEF _uper_encode_flush_outp
<1> HIDE DEF n
<1>3. k \in Nat /\ k < 8 /\ (n + k) % 8 = 0
    BY <1>1, SMT
<1> HIDE DEF k
<1>4. z \in Bits /\ Len(z) = k /\ \A i \in 1 .. k : z[i] = 0
    BY <1>3, Zeros
<1> HIDE DEF z
<1>5. /\ buf \in Bits /\ Len(buf) = Len(bits) + Len(z)
      /\ \A i \in 1 .. Len(bits) : buf[i] = bits[i]
      /\ \A i \in 1 .. Len(z) : buf[Len(bits) + i] = z[i]
    BY <1>4, BitsConcat
<1> HIDE DEF buf
<1>6. /\ Len(buf) = n + k /\ \A i \in 1 .. k : buf[n + i] = 0
    BY <1>4, <1>5 DEF n
<1>7. ASSUME NEW i \in n + 1 .. n + k PROVE buf[i] = 0
    <2>1. PICK j \in 1 .. k : i = n + j
        <3>1. i - n \in 1 .. k /\ i = n + (i - n)
            BY <1>1, <1>3
        <3> QED BY <3>1
    <2> QED BY <1>6, <2>1
<1>8. PaddingValid(buf, n)
    BY <1>1, <1>3, <1>6, <1>7 DEF PaddingValid
<1>9. Len(buf) % 8 = 0 /\ n <= Len(buf) /\ Len(buf) < n + 8
    BY <1>1, <1>3, <1>6
<1> QED BY <1>2, <1>5, <1>8, <1>9 DEF n

-----------------------------------------------------------------------------
(* OCTET STRING and the character strings *)

\* Products are naturals and grow with their factors.
LEMMA Times ==
    ASSUME NEW n \in Nat, NEW i \in Nat, NEW u \in Nat
    PROVE  n * u \in Nat /\ (i =< n => i * u =< n * u)
<1>1. n * u \in Nat
    BY SMT
<1>2. ASSUME i =< n PROVE i * u =< n * u
    <2>1. PICK d \in Nat : n = i + d
        <3>1. n - i \in Nat /\ n = i + (n - i)
            BY <1>2
        <3> QED BY <3>1
    <2>2. (i + d) * u = i * u + d * u
        BY SMT
    <2>3. i * u \in Nat /\ d * u \in Nat
        BY SMT
    <2> QED BY <2>1, <2>2, <2>3
<1> QED BY <1>1, <1>2

\* The place of a position in its block.
LEMMA Quotient ==
    ASSUME NEW u \in Nat, u >= 1, NEW q \in Nat, NEW r \in 0 .. u - 1
    PROVE  (q * u + r) \div u = q /\ (q * u + r) % u = r
BY SMT

\* Where the i-th of n blocks of u lies, and in which block a position lies.
LEMMA Blocks ==
    ASSUME NEW n \in Nat, NEW u \in Nat, u >= 1
    PROVE  /\ n * u \in Nat
           /\ \A i \in 1 .. n :
                 /\ (i - 1) * u \in Nat /\ (i - 1) * u + u = i * u /\ i * u =< n * u
                 /\ \A r \in 1 .. u :
                       /\ (i - 1) * u + r \in 1 .. n * u
                       /\ (((i - 1) * u + r) - 1) \div u = i - 1 /\ (((i - 1) * u + r) - 1) % u = r - 1
           /\ \A j \in 1 .. n * u : (j - 1) \div u + 1 \in 1 .. n /\ ((j - 1) % u) + 1 \in 1 .. u
<1>1. n * u \in Nat
    BY Times
<1>2. ASSUME NEW i \in 1 .. n
      PROVE  /\ (i - 1) * u \in Nat /\ (i - 1) * u + u = i * u /\ i * u =< n * u
             /\ \A r \in 1 .. u :
                   /\ (i - 1) * u + r \in 1 .. n * u
                   /\ (((i - 1) * u + r) - 1) \div u = i - 1 /\ (((i - 1) * u + r) - 1) % u = r - 1
    <2> DEFINE q == i - 1
               m == q * u
    <2>1. q \in Nat /\ i \in Nat /\ i =< n /\ q + 1 = i
        OBVIOUS
    <2> HIDE DEF q
    <2>2. m \in Nat /\ (q + 1) * u = m + u
        BY <2>1, SMT
    <2>3. i * u =< n * u
        BY <2>1, Times
    <2>4. i * u = m + u
        BY <2>1, <2>2
    <2>5. ASSUME NEW r \in 1 .. u
          PROVE  m + r \in 1 .. n * u /\ ((m + r) - 1) \div u = q /\ ((m + r) - 1) % u = r - 1
        <3>1. r - 1 \in 0 .. u - 1
            OBVIOUS
        <3>2. (q * u + (r - 1)) \div u = q /\ (q * u + (r - 1)) % u = r - 1
            BY <2>1, <3>1, Quotient
        <3> HIDE DEF m
        <3>3. (m + r) - 1 = m + (r - 1)
            BY <2>2
        <3>4. m + r \in 1 .. n * u
            <4> DEFINE e == n * u
                       f == i * u
            <4>1. e \in Nat /\ f = m + u /\ f =< e
                BY <1>1, <2>3, <2>4
            <4> HIDE DEF e, f
            <4>2. m + r \in 1 .. e
                BY <2>2, <4>1
            <4> QED BY <4>2 DEF e
        <3> QED BY <3>2, <3>3, <3>4 DEF m
    <2> QED BY <2>2, <2>3, <2>4, <2>5 DEF q
<1>3. ASSUME NEW j \in 1 .. n * u PROVE (j - 1) \div u + 1 \in 1 .. n /\ ((j - 1) % u) + 1 \in 1 .. u
    <2> DEFINE p == j - 1
               q == p \div u
               r == p % u
    <2>1. p \in Nat /\ p < n * u
        BY <1>1
    <2> HIDE DEF p
    <2>2. q \in Nat /\ r \in Nat /\ r < u /\ p = q * u + r
        BY <2>1, DivMod
    <2> HIDE DEF q, r
    <2>3. ASSUME n =< q PROVE FALSE
        <3>1. n * u =< q * u /\ q * u \in Nat
            BY <2>2, <2>3, Times
        <3> DEFINE e == n * u
                   f == q * u
        <3>2. e =< f /\ f \in Nat /\ e \in Nat /\ p < e /\ p = f + r
            BY <1>1, <2>1, <2>2, <3>1
        <3> HIDE DEF e, f
        <3> QED BY <2>2, <3>2
    <2>4. q + 1 \in 1 .. n /\ r + 1 \in 1 .. u
        BY <2>2, <2>3
    <2> QED BY <2>4 DEF p, q, r
<1> QED BY <1>1, <1>2, <1>3

\* The bits of all characters one behind the other.
CharacterBits(chars, u, pc) ==
    [j \in 1 .. Len(chars) * u |->
        BitsOf(CharacterCode(chars[(j - 1) \div u + 1], u, pc), u)[((j - 1) % u) + 1]]

\* The codes, one per character.
Coded(chars, u, pc) ==
    /\ Len(chars) \in Nat
    /\ \A i \in 1 .. Len(chars) : CharacterCode(chars[i], u, pc) \in Nat

\* Each character's bits are where they belong.
LEMMA Characters ==
    ASSUME NEW chars, NEW pc, NEW u \in 1 .. 31, Coded(chars, u, pc)
    PROVE  /\ CharacterBits(chars, u, pc) \in Bits
           /\ Len(CharacterBits(chars, u, pc)) = Len(chars) * u
           /\ \A i \in 1 .. Len(chars) :
                SubSeq(CharacterBits(chars, u, pc), (i - 1) * u + 1, i * u)
                    = BitsOf(CharacterCode(chars[i], u, pc), u)
<1> DEFINE n == Len(chars)
           F == CharacterBits(chars, u, pc)
           code(i) == CharacterCode(chars[i], u, pc)
           e == n * u
<1>1. n \in Nat /\ \A i \in 1 .. n : code(i) \in Nat
    BY DEF Coded
<1>2. u \in Nat /\ u >= 1 /\ u =< 31
    OBVIOUS
<1>3. F = [j \in 1 .. e |-> BitsOf(code((j - 1) \div u + 1), u)[((j - 1) % u) + 1]]
    BY DEF CharacterBits
<1> HIDE DEF n, F, code
<1>4. /\ e \in Nat
      /\ \A i \in 1 .. n :
            /\ (i - 1) * u \in Nat /\ (i - 1) * u + u = i * u /\ i * u =< e
            /\ \A r \in 1 .. u :
                  /\ (i - 1) * u + r \in 1 .. e
                  /\ (((i - 1) * u + r) - 1) \div u = i - 1 /\ (((i - 1) * u + r) - 1) % u = r - 1
      /\ \A j \in 1 .. e : (j - 1) \div u + 1 \in 1 .. n /\ ((j - 1) % u) + 1 \in 1 .. u
    BY <1>1, <1>2, Blocks
<1> HIDE DEF e
<1>5. ASSUME NEW i \in 1 .. n, NEW r \in 1 .. u PROVE BitsOf(code(i), u)[r] \in {0, 1}
    <2> DEFINE b == BitsOf(code(i), u)
    <2>1. b \in Bits /\ Len(b) = u
        BY <1>1, <1>2, BitsOfType
    <2> HIDE DEF b
    <2>2. b[r] \in {0, 1}
        BY <2>1, BitsParts
    <2> QED BY <2>2 DEF b
<1>6. ASSUME NEW j \in 1 .. e
      PROVE  BitsOf(code((j - 1) \div u + 1), u)[((j - 1) % u) + 1] \in {0, 1}
    <2>1. (j - 1) \div u + 1 \in 1 .. n /\ ((j - 1) % u) + 1 \in 1 .. u
        BY <1>4
    <2> QED BY <1>5, <2>1
<1>7. F \in Bits /\ Len(F) = e
    <2>1. F \in [1 .. e -> {0, 1}]
        BY <1>3, <1>6
    <2>2. F \in Bits
        BY <1>4, <2>1 DEF Bits
    <2> QED BY <1>4, <2>1, <2>2 DEF Bits
<1>8. ASSUME NEW i \in 1 .. n PROVE SubSeq(F, (i - 1) * u + 1, i * u) = BitsOf(code(i), u)
    <2> DEFINE m == (i - 1) * u
               y == SubSeq(F, m + 1, m + u)
               b == BitsOf(code(i), u)
    <2>1. m \in Nat /\ m + u = i * u /\ m + u =< e
        BY <1>4
    <2>2. ASSUME NEW r \in 1 .. u PROVE F[m + r] = b[r]
        <3>1. /\ m + r \in 1 .. e /\ ((m + r) - 1) \div u = i - 1 /\ ((m + r) - 1) % u = r - 1
            BY <1>4
        <3>2. (i - 1) + 1 = i /\ (r - 1) + 1 = r
            OBVIOUS
        <3> HIDE DEF m
        <3>3. F[m + r] = BitsOf(code(((m + r) - 1) \div u + 1), u)[(((m + r) - 1) % u) + 1]
            BY <1>3, <3>1
        <3>4. F[m + r] = BitsOf(code((i - 1) + 1), u)[(r - 1) + 1]
            BY <3>1, <3>3
        <3> QED BY <3>2, <3>4
    <2>3. b \in Bits /\ Len(b) = u
        BY <1>1, <1>2, BitsOfType
    <2> HIDE DEF m, b
    <2>4. IsPart(F, m, u, y)
        BY <1>2, <1>7, <2>1 DEF IsPart
    <2> HIDE DEF y
    <2>5. y \in Bits /\ Len(y) = u /\ \A r \in 1 .. u : y[r] = F[m + r]
        BY <1>7, <2>4, PartBits
    <2>6. SameBits(y, b)
        BY <2>2, <2>3, <2>5 DEF SameBits
    <2>7. y = b
        BY <2>3, <2>5, <2>6, SameBitsEqual
    <2>8. SubSeq(F, (i - 1) * u + 1, i * u) = y
        <3>1. SubSeq(F, m + 1, i * u) = y
            BY <2>1 DEF y
        <3> QED BY <3>1 DEF m
    <2> QED BY <2>7, <2>8 DEF b
<1> QED BY <1>7, <1>8 DEF n, F, code, e

\* The characters that can be sent.
CharacterLegal(c, u, pc) ==
    /\ CharacterCode(c, u, pc) >= 0
    /\ \/ Copied(pc, u) \/ Mapped(pc, u)
       \/ CharacterCode(c, u, pc) <= pc.value.ub[3] - CharacterOffset(pc.value, u)

\* What the decoder makes of a code.
CodeLegal(k, u, pc) ==
    IF Mapped(pc, u) THEN k < Len(pc.alphabet)
    ELSE Copied(pc, u) \/ k + CharacterOffset(pc.value, u) <= pc.value.ub[3]
CharacterOf(k, u, pc) ==
    IF Mapped(pc, u) THEN pc.alphabet[k + 1] ELSE k + CharacterOffset(pc.value, u)

\* A character that can be sent has a code of u bits that the decoder turns back into it.
LEMMA CharacterBack ==
    ASSUME NEW pc, NEW u, CharactersFit(pc, u), NEW c \in 0 .. 255, CharacterLegal(c, u, pc)
    PROVE  /\ CharacterCode(c, u, pc) \in Nat /\ CharacterCode(c, u, pc) < 2^u
           /\ CodeLegal(CharacterCode(c, u, pc), u, pc)
           /\ CharacterOf(CharacterCode(c, u, pc), u, pc) = c
<1> DEFINE k == CharacterCode(c, u, pc)
           lb == CharacterOffset(pc.value, u)
           ub == pc.value.ub[3]
<1>0. u \in 1 .. 31
    BY Zenon DEF CharactersFit
<1>1. u \in Nat /\ u =< 31
    BY <1>0
<1>2. 2^u \in Nat
    BY <1>1, PowerPositive
<1>3. k >= 0
    BY DEF CharacterLegal
<1>4. CASE Mapped(pc, u)
    <2> DEFINE codes == {i \in DOMAIN pc.alphabet : pc.alphabet[i] = c}
               j == CHOOSE i \in codes : TRUE
    <2>1. DOMAIN pc.alphabet = 1 .. Len(pc.alphabet) /\ Len(pc.alphabet) \in 0 .. 2^u
        BY <1>4 DEF CharactersFit
    <2>2. k = IF codes = {} THEN -1 ELSE j - 1
        BY <1>4 DEF CharacterCode
    <2> HIDE DEF k
    <2>3. codes # {}
        BY <1>3, <2>2
    <2>4. j \in codes
        BY <2>3
    <2> HIDE DEF j
    <2>5. j \in 1 .. Len(pc.alphabet) /\ pc.alphabet[j] = c /\ k = j - 1
        BY <2>1, <2>2, <2>3, <2>4
    <2>6. k \in Nat /\ k < Len(pc.alphabet) /\ k < 2^u /\ k + 1 = j
        BY <1>2, <2>1, <2>5
    <2> QED BY <1>4, <2>5, <2>6 DEF CodeLegal, CharacterOf, k
<1>5. CASE ~ Mapped(pc, u)
    <2>1. lb \in Nat /\ ub \in Nat
        BY DEF CharactersFit, CharacterOffset
    <2>2. k = c - lb
        BY <1>5 DEF CharacterCode
    <2>3. Copied(pc, u) \/ (k <= ub - lb /\ ub - lb < 2^u)
        BY <1>5 DEF CharacterLegal, CharactersFit
    <2>4. Copied(pc, u) => lb = 0 /\ 2^u = 256
        <3>1. 2^8 = 256
            BY PowerTable
        <3> QED BY <3>1 DEF Copied
    <2> HIDE DEF k, lb, ub
    <2>5. k \in Nat /\ k + lb = c /\ k < 2^u /\ (Copied(pc, u) \/ k + lb <= ub)
        BY <1>2, <1>3, <2>1, <2>2, <2>3, <2>4
    <2> QED BY <1>5, <2>5 DEF CodeLegal, CharacterOf, k, lb, ub
<1> QED BY <1>4, <1>5

\* A string that OCTET_STRING_per_put_characters accepts.
Legal(chars, u, pc) == \A i \in 1 .. Len(chars) : CharacterLegal(chars[i], u, pc)
IsText(chars, u, pc) == chars \in Seq(0 .. 255) /\ CharactersFit(pc, u) /\ Legal(chars, u, pc)

\* The characters are appended, or the string is refused.
LEMMA PutCharacters ==
    ASSUME NEW chars, NEW u, NEW pc, NEW po
    PROVE  /\ Legal(chars, u, pc) =>
                OCTET_STRING_per_put_characters(po, chars, u, pc)
                    = asn_put_many_bits(po, CharacterBits(chars, u, pc))
           /\ ~ Legal(chars, u, pc) => OCTET_STRING_per_put_characters(po, chars, u, pc) = EncodeFailed
BY DEF OCTET_STRING_per_put_characters, Legal, CharacterLegal, Copied, CharacterBits

\* Each character of an accepted string has a code.
LEMMA TextCoded ==
    ASSUME NEW chars, NEW u, NEW pc, IsText(chars, u, pc)
    PROVE  /\ Len(chars) \in Nat /\ u \in 1 .. 31 /\ Coded(chars, u, pc)
           /\ \A i \in 1 .. Len(chars) :
                 LET k == CharacterCode(chars[i], u, pc)
                 IN  k \in Nat /\ k < 2^u /\ CodeLegal(k, u, pc) /\ CharacterOf(k, u, pc) = chars[i]
<1>1. chars \in Seq(0 .. 255) /\ CharactersFit(pc, u) /\ Legal(chars, u, pc)
    BY DEF IsText
<1>2. Len(chars) \in Nat /\ \A i \in 1 .. Len(chars) : chars[i] \in 0 .. 255
    <2> DEFINE S == 0 .. 255
    <2>1. chars \in Seq(S)
        BY <1>1
    <2> HIDE DEF S
    <2>2. Len(chars) \in Nat /\ \A i \in 1 .. Len(chars) : chars[i] \in S
        BY <2>1
    <2> QED BY <2>2 DEF S
<1>3. ASSUME NEW i \in 1 .. Len(chars)
      PROVE  LET k == CharacterCode(chars[i], u, pc)
             IN  k \in Nat /\ k < 2^u /\ CodeLegal(k, u, pc) /\ CharacterOf(k, u, pc) = chars[i]
    <2> DEFINE c == chars[i]
    <2>1. c \in 0 .. 255 /\ CharacterLegal(c, u, pc)
        BY <1>1, <1>2 DEF Legal
    <2> HIDE DEF c
    <2>2. /\ CharacterCode(c, u, pc) \in Nat /\ CharacterCode(c, u, pc) < 2^u
          /\ CodeLegal(CharacterCode(c, u, pc), u, pc)
          /\ CharacterOf(CharacterCode(c, u, pc), u, pc) = c
        BY <1>1, <2>1, CharacterBack
    <2> QED BY <2>2 DEF c
<1>4. u \in 1 .. 31
    BY <1>1 DEF CharactersFit
<1> QED BY <1>2, <1>3, <1>4 DEF Coded

\* Reading as many characters, complete or cut.
LEMMA GetCharacters ==
    ASSUME NEW chars, NEW u, NEW pc, IsText(chars, u, pc), NEW pd \in Bits, NEW pos \in Nat
    PROVE  LET F == CharacterBits(chars, u, pc)
               got == OCTET_STRING_per_get_characters(pd, pos, Len(chars), u, pc)
           IN  /\ F \in Bits /\ Len(F) = Len(chars) * u
               /\ At(pd, pos, F) => got = [ret |-> 0, chars |-> chars]
               /\ CutAt(pd, pos, F) => got = [ret |-> -1, chars |-> <<>>]
<1> DEFINE n == Len(chars)
           F == CharacterBits(chars, u, pc)
           bits == asn_get_many_bits(pd, pos, n * u)
           got == OCTET_STRING_per_get_characters(pd, pos, n, u, pc)
           read(i) == NumberOf(SubSeq(bits, (i - 1) * u + 1, i * u))
           code(i) == CharacterCode(chars[i], u, pc)
<1>1. n \in Nat /\ u \in 1 .. 31 /\ Coded(chars, u, pc)
    BY TextCoded
<1>2. \A i \in 1 .. n :
          code(i) \in Nat /\ code(i) < 2^u /\ CodeLegal(code(i), u, pc) /\ CharacterOf(code(i), u, pc) = chars[i]
    BY TextCoded
<1>3. /\ F \in Bits /\ Len(F) = n * u
      /\ \A i \in 1 .. n : SubSeq(F, (i - 1) * u + 1, i * u) = BitsOf(code(i), u)
    BY <1>1, Characters
<1>4. got = IF Starving(bits) THEN [ret |-> -1, chars |-> <<>>]
            ELSE IF \E i \in 1 .. n : ~ CodeLegal(read(i), u, pc) THEN [ret |-> 1, chars |-> <<>>]
            ELSE [ret |-> 0, chars |-> SubSeq([i \in 1 .. n |-> CharacterOf(read(i), u, pc)], 1, n)]
    BY DEF OCTET_STRING_per_get_characters, CodeLegal, CharacterOf, Copied
<1> HIDE DEF F, got
<1>5. At(pd, pos, F) => bits = F
    <2>1. At(pd, pos, F) => asn_get_many_bits(pd, pos, Len(F)) = F
        BY <1>3, GetManyBits
    <2> QED BY <1>3, <2>1
<1>6. CutAt(pd, pos, F) => bits = <<-1>>
    <2>1. CutAt(pd, pos, F) => asn_get_many_bits(pd, pos, Len(F)) = <<-1>>
        BY <1>3, GetCut
    <2> QED BY <1>3, <2>1
<1>7. ~ Starving(F) /\ Starving(<<-1>>)
    BY <1>3, NotStarving DEF Starving
<1> HIDE DEF bits
<1>8. ASSUME bits = F PROVE \A i \in 1 .. n : read(i) = code(i)
    <2>1. ASSUME NEW i \in 1 .. n PROVE NumberOf(BitsOf(code(i), u)) = code(i)
        <3> DEFINE k == code(i)
        <3>1. k \in Nat /\ k < 2^u
            BY <1>2
        <3>2. u \in Nat /\ u =< 31
            BY <1>1
        <3> HIDE DEF k
        <3>3. NumberOf(BitsOf(k, u)) = k
            BY <3>1, <3>2, NumberOfBitsOf
        <3> QED BY <3>3 DEF k
    <2> QED BY <1>3, <1>8, <2>1
<1> HIDE DEF read, code
<1>9. SubSeq([i \in 1 .. n |-> chars[i]], 1, n) = chars
    <2> DEFINE S == 0 .. 255
    <2>1. chars \in Seq(S)
        BY DEF IsText
    <2> HIDE DEF S
    <2>2. [i \in 1 .. n |-> chars[i]] = chars
        BY <2>1
    <2>3. SubSeq(chars, 1, Len(chars)) = chars
        BY <2>1, SubSeqFull
    <2> QED BY <2>2, <2>3
<1>10. ASSUME At(pd, pos, F) PROVE got = [ret |-> 0, chars |-> chars]
    <2>1. bits = F /\ ~ Starving(bits)
        BY <1>5, <1>7, <1>10
    <2>2. \A i \in 1 .. n : read(i) = code(i)
        BY <1>8, <2>1
    <2>3. ASSUME NEW i \in 1 .. n
          PROVE  CodeLegal(read(i), u, pc) /\ CharacterOf(read(i), u, pc) = chars[i]
        BY <1>2, <2>2
    <2>4. [i \in 1 .. n |-> CharacterOf(read(i), u, pc)] = [i \in 1 .. n |-> chars[i]]
        BY <2>3
    <2> QED BY <1>4, <1>9, <2>1, <2>3, <2>4
<1>11. ASSUME CutAt(pd, pos, F) PROVE got = [ret |-> -1, chars |-> <<>>]
    BY <1>4, <1>6, <1>7, <1>11
<1> QED BY <1>3, <1>10, <1>11 DEF F, got

\* A string whose size is outside of the root, and the bits of a character.
OctetsOutside(pc, v) == pc.size.bits >= 0 /\ Len(v) \notin pc.size.lb[3] .. pc.size.ub[3]
Unit(pc, outside) == IF outside THEN 8 ELSE UnitBits(pc)

\* The strings that can be sent.
OctetsSendable(pc, v) ==
    LET outside == OctetsOutside(pc, v)
    IN  /\ outside => pc.size.ext
        /\ SizeOk(Sized(pc.size, outside), Len(v)) /\ Legal(v, Unit(pc, outside), pc)

\* The constraints in force once the mark is read.
LEMMA OctetsType ==
    ASSUME NEW pc, StringFits(pc), NEW v \in Seq(0 .. 255), NEW outside, outside = OctetsOutside(pc, v)
    PROVE  /\ outside \in BOOLEAN /\ pc.size.ext \in BOOLEAN /\ SizeFits(Sized(pc.size, outside))
           /\ CharactersFit(pc, Unit(pc, outside)) /\ Len(v) \in Nat
<1>1. outside \in BOOLEAN
    BY DEF OctetsOutside
<1>2. SizeFits(pc.size) /\ CharactersFit(pc, UnitBits(pc)) /\ CharactersFit(pc, 8)
    BY DEF StringFits
<1>3. pc.size.ext \in BOOLEAN
    BY <1>2, Zenon DEF SizeFits
<1>4. SizeFits(Sized(pc.size, outside))
    BY <1>2, SemiConstrainedParts, Zenon DEF Sized
<1>5. CharactersFit(pc, Unit(pc, outside))
    BY <1>2, Zenon DEF Unit
<1>6. Len(v) \in Nat
    OBVIOUS
<1> QED BY <1>1, <1>3, <1>4, <1>5, <1>6

\* What the encoder appends, or that it refuses.
LEMMA OctetsPut ==
    ASSUME NEW td, NEW per, NEW pc, pc = StringConstraints(td, per), StringFits(pc),
           NEW v \in Seq(0 .. 255), NEW a \in Bits
    PROVE  LET outside == OctetsOutside(pc, v)
               w == CharacterBits(v, Unit(pc, outside), pc)
               er == OCTET_STRING_encode_uper(td, per, v, Output(a))
           IN  /\ er.ok <=> OctetsSendable(pc, v)
               /\ OctetsSendable(pc, v) =>
                    er = Output(((a \o MarkBits(pc.size, outside))
                                    \o SizeBits(Sized(pc.size, outside), Len(v))) \o w)
<1> DEFINE outside == OctetsOutside(pc, v)
           u == Unit(pc, outside)
           w == CharacterBits(v, u, pc)
           b == a \o MarkBits(pc.size, outside)
           po == PutMark(pc.size, outside, Output(a))
           n == Len(v)
           c == Sized(pc.size, outside)
           size == IF pc.size.bits >= 0 /\ ~ outside
                   THEN asn_put_few_bits(po, n - pc.size.lb[3], pc.size.bits)
                   ELSE uper_put_length(po, n)
           er == OCTET_STRING_encode_uper(td, per, v, Output(a))
<1>1. er = IF outside /\ ~ pc.size.ext THEN EncodeFailed
           ELSE OCTET_STRING_per_put_characters(size, v, u, pc)
    <2> HIDE DEF outside
    <2> QED BY DEF OCTET_STRING_encode_uper, outside, OctetsOutside, Unit
<1>2. outside \in BOOLEAN /\ pc.size.ext \in BOOLEAN /\ SizeFits(c) /\ n \in Nat
    BY OctetsType
<1>3. po = Output(b)
    BY <1>2, PutMarkBits
<1>4. OctetsSendable(pc, v) <=> (outside => pc.size.ext) /\ SizeOk(c, n) /\ Legal(v, u, pc)
    BY DEF OctetsSendable
<1>5. outside <=> (pc.size.bits >= 0 /\ n \notin pc.size.lb[3] .. pc.size.ub[3])
    BY DEF OctetsOutside
<1>6. c = IF outside THEN SemiConstrained ELSE pc.size
    BY DEF Sized
<1> HIDE DEF outside, u, w, b, po, n, c, er
<1>7. EncodeFailed.ok = FALSE
    BY DEF EncodeFailed
<1>8. /\ SizeOk(c, n) => size = Output(b \o SizeBits(c, n))
      /\ ~ SizeOk(c, n) => size = EncodeFailed
    <2>1. CASE pc.size.bits >= 0 /\ ~ outside
        <3>1. c = pc.size /\ SizeOk(c, n) /\ SizeBits(c, n) = BitsOf(n - pc.size.lb[3], pc.size.bits)
            BY <1>5, <1>6, <2>1 DEF SizeOk, SizeBits
        <3>2. size = asn_put_few_bits(Output(b), n - pc.size.lb[3], pc.size.bits)
            BY <1>3, <2>1
        <3> HIDE DEF size
        <3> QED BY <3>1, <3>2, PutFewBits
    <2>2. CASE ~ (pc.size.bits >= 0 /\ ~ outside)
        <3>1. size = uper_put_length(Output(b), n)
            BY <1>3, <2>2
        <3>2. ~ (c.bits >= 0)
            BY <1>6, <2>2, SemiConstrainedParts
        <3>3. (SizeOk(c, n) <=> IsLength(n)) /\ SizeBits(c, n) = LengthBits(n)
            BY <3>2 DEF SizeOk, SizeBits
        <3> HIDE DEF size
        <3> QED BY <1>2, <3>1, <3>3, PutLength
    <2> QED BY <2>1, <2>2
<1> HIDE DEF size
<1>9. CASE OctetsSendable(pc, v)
    <2>1. er = asn_put_many_bits(size, w)
        BY <1>1, <1>4, <1>9, PutCharacters DEF w
    <2>2. size = Output(b \o SizeBits(c, n))
        BY <1>4, <1>8, <1>9
    <2>3. er = Output((b \o SizeBits(c, n)) \o w)
        BY <2>1, <2>2, PutBits
    <2>4. er.ok = TRUE
        BY <2>3, OutputParts
    <2> QED BY <1>9, <2>3, <2>4 DEF er, w, c, b, outside, n, u
<1>10. CASE ~ OctetsSendable(pc, v)
    <2>1. ~ er.ok
        <3>1. CASE outside /\ ~ pc.size.ext
            BY <1>1, <1>7, <3>1
        <3>2. CASE ~ (outside /\ ~ pc.size.ext) /\ ~ Legal(v, u, pc)
            <4>1. OCTET_STRING_per_put_characters(size, v, u, pc) = EncodeFailed
                BY <3>2, PutCharacters
            <4> QED BY <1>1, <1>7, <3>2, <4>1
        <3>3. CASE ~ (outside /\ ~ pc.size.ext) /\ Legal(v, u, pc) /\ ~ SizeOk(c, n)
            <4>1. OCTET_STRING_per_put_characters(size, v, u, pc) = asn_put_many_bits(size, w)
                BY <3>3, PutCharacters DEF w
            <4>2. asn_put_many_bits(EncodeFailed, w).ok = FALSE
                BY <1>7 DEF asn_put_many_bits
            <4> QED BY <1>1, <1>8, <3>3, <4>1, <4>2
        <3> QED BY <1>4, <1>10, <3>1, <3>2, <3>3
    <2> QED BY <1>10, <2>1 DEF er
<1> QED BY <1>9, <1>10

\* What OCTET_STRING_decode_uper does behind the mark.
OctetsFrom(pc, c, u, pd, len) ==
    LET got == OCTET_STRING_per_get_characters(pd, len[2], len[1], u, pc)
    IN  IF len[1] < 0 THEN ASN__DECODE_STARVED
        ELSE IF got.ret > 0 THEN ASN__DECODE_FAILED
        ELSE IF got.ret < 0 THEN ASN__DECODE_STARVED
        ELSE Decoded(got.chars, len[2] + len[1] * u, IF c.bits = 0 THEN len[1] * u ELSE 0)

\* The two ways to go on behind the mark.
LEMMA OctetsForms ==
    ASSUME NEW td, NEW per, NEW pc, pc = StringConstraints(td, per), NEW pd, NEW pos,
           NEW mark, mark = ExtensionMark(pc.size, pd, pos), NEW after, after = AfterMark(pc.size, pos)
    PROVE  /\ mark < 0 => OCTET_STRING_decode_uper(td, per, pd, pos) = ASN__DECODE_STARVED
           /\ mark = 0 => OCTET_STRING_decode_uper(td, per, pd, pos)
                              = OctetsFrom(pc, pc.size, UnitBits(pc), pd, GetSize(pc.size, pd, after))
           /\ mark = 1 => OCTET_STRING_decode_uper(td, per, pd, pos)
                              = OctetsFrom(pc, SemiConstrained, 8, pd, GetSize(SemiConstrained, pd, after))
BY DEF OCTET_STRING_decode_uper, OctetsFrom

\* A size and the characters behind it, complete or cut.
LEMMA OctetsRead ==
    ASSUME NEW pc, NEW c, SizeFits(c), NEW u, NEW v, IsText(v, u, pc), SizeOk(c, Len(v)),
           NEW pd \in Bits, NEW pos \in Nat
    PROVE  LET y == SizeBits(c, Len(v)) \o CharacterBits(v, u, pc)
               rv == OctetsFrom(pc, c, u, pd, GetSize(c, pd, pos))
           IN  /\ y \in Bits
               /\ At(pd, pos, y) => rv = Decoded(v, pos + Len(y), Consumed(c, Len(v) * u))
               /\ CutAt(pd, pos, y) => rv = ASN__DECODE_STARVED
<1> DEFINE n == Len(v)
           w == CharacterBits(v, u, pc)
           s == SizeBits(c, n)
           y == s \o w
           len == GetSize(c, pd, pos)
           q == pos + Len(s)
           rv == OctetsFrom(pc, c, u, pd, len)
           got == OCTET_STRING_per_get_characters(pd, q, n, u, pc)
<1>0. w \in Bits /\ Len(w) = n * u
    BY GetCharacters
<1>1. \A p \in Nat :
        /\ At(pd, p, w) => OCTET_STRING_per_get_characters(pd, p, n, u, pc) = [ret |-> 0, chars |-> v]
        /\ CutAt(pd, p, w) => OCTET_STRING_per_get_characters(pd, p, n, u, pc) = [ret |-> -1, chars |-> <<>>]
    BY GetCharacters
<1> HIDE DEF w
<1>2. /\ y \in Bits /\ n \in Nat /\ q \in Nat /\ q + Len(w) = pos + Len(y)
      /\ At(pd, pos, y) => len = <<n, q>> /\ At(pd, q, w)
      /\ CutAt(pd, pos, y) => len[1] = -1 \/ (len = <<n, q>> /\ CutAt(pd, q, w))
    <2> HIDE DEF n
    <2>1. SizeOk(c, n) /\ w \in Bits
        BY <1>0 DEF n
    <2> QED BY <2>1, ReadSized
<1> HIDE DEF y, q, len, s
<1>3. q + n * u = pos + Len(y) /\ ~ (n < 0)
    BY <1>0, <1>2
<1> HIDE DEF n
<1>4. ASSUME len = <<n, q>>
      PROVE  rv = IF got.ret > 0 THEN ASN__DECODE_FAILED
                  ELSE IF got.ret < 0 THEN ASN__DECODE_STARVED
                  ELSE Decoded(got.chars, q + n * u, Consumed(c, n * u))
    <2>1. len[1] = n /\ len[2] = q
        BY <1>4
    <2> QED BY <1>3, <2>1 DEF OctetsFrom, Consumed
<1>5. len[1] = -1 => rv = ASN__DECODE_STARVED
    BY DEF OctetsFrom
<1>6. At(pd, q, w) => got = [ret |-> 0, chars |-> v]
    BY <1>1, <1>2
<1>7. CutAt(pd, q, w) => got = [ret |-> -1, chars |-> <<>>]
    BY <1>1, <1>2
<1> HIDE DEF rv, got
<1>8. ASSUME At(pd, pos, y) PROVE rv = Decoded(v, pos + Len(y), Consumed(c, n * u))
    <2>1. len = <<n, q>> /\ got = [ret |-> 0, chars |-> v]
        BY <1>2, <1>6, <1>8
    <2>2. got.ret = 0 /\ got.chars = v
        BY <2>1
    <2> QED BY <1>3, <1>4, <2>1, <2>2
<1>9. ASSUME CutAt(pd, pos, y) PROVE rv = ASN__DECODE_STARVED
    <2>1. CASE len[1] = -1
        BY <1>5, <2>1
    <2>2. CASE len = <<n, q>> /\ CutAt(pd, q, w)
        <3>1. got.ret = -1
            BY <1>7, <2>2
        <3> QED BY <1>4, <2>2, <3>1
    <2> QED BY <1>2, <1>9, <2>1, <2>2
<1> QED BY <1>2, <1>8, <1>9 DEF y, s, rv, len, n, w

\* x: the bits of the string v.
IsOctets(x, pc, v) ==
    LET outside == OctetsOutside(pc, v)
    IN  x = MarkBits(pc.size, outside)
              \o (SizeBits(Sized(pc.size, outside), Len(v)) \o CharacterBits(v, Unit(pc, outside), pc))

\* What the decoder makes of the bits of v, complete or cut.
LEMMA OctetsGet ==
    ASSUME NEW td, NEW per, NEW pc, pc = StringConstraints(td, per), StringFits(pc),
           NEW v \in Seq(0 .. 255), OctetsSendable(pc, v), NEW pd \in Bits, NEW pos \in Nat,
           NEW x, IsOctets(x, pc, v)
    PROVE  LET rv == OCTET_STRING_decode_uper(td, per, pd, pos)
               outside == OctetsOutside(pc, v)
           IN  /\ At(pd, pos, x) =>
                     rv = Decoded(v, pos + Len(x),
                                  Consumed(Sized(pc.size, outside), Len(v) * Unit(pc, outside)))
               /\ CutAt(pd, pos, x) => rv = ASN__DECODE_STARVED
<1> DEFINE inext == OctetsOutside(pc, v)
           ct == pc.size
           c == Sized(ct, inext)
           u == Unit(pc, inext)
           y == SizeBits(c, Len(v)) \o CharacterBits(v, u, pc)
           m == MarkBits(ct, inext)
           mark == ExtensionMark(ct, pd, pos)
           after == AfterMark(ct, pos)
           rv == OCTET_STRING_decode_uper(td, per, pd, pos)
           used == Consumed(c, Len(v) * u)
<1>1. ct.ext \in BOOLEAN /\ inext \in BOOLEAN /\ SizeFits(c) /\ CharactersFit(pc, u)
    BY OctetsType
<1>2. (inext => ct.ext) /\ SizeOk(c, Len(v)) /\ Legal(v, u, pc)
    BY DEF OctetsSendable
<1>2a. IsText(v, u, pc)
    <2> HIDE DEF u
    <2> QED BY <1>1, <1>2 DEF IsText
<1>3. x = m \o y /\ IsMark(m, ct, inext)
    BY DEF IsOctets, IsMark
<1>4. /\ mark < 0 => rv = ASN__DECODE_STARVED
      /\ mark = 0 => rv = OctetsFrom(pc, ct, UnitBits(pc), pd, GetSize(ct, pd, after))
      /\ mark = 1 => rv = OctetsFrom(pc, SemiConstrained, 8, pd, GetSize(SemiConstrained, pd, after))
    BY OctetsForms
<1>5. /\ c = IF inext THEN SemiConstrained ELSE ct
      /\ u = IF inext THEN 8 ELSE UnitBits(pc)
    BY DEF Sized, Unit
<1> HIDE DEF inext, c, u, m, rv, used
<1>6. \A q \in Nat :
        /\ y \in Bits
        /\ At(pd, q, y) => OctetsFrom(pc, c, u, pd, GetSize(c, pd, q)) = Decoded(v, q + Len(y), used)
        /\ CutAt(pd, q, y) => OctetsFrom(pc, c, u, pd, GetSize(c, pd, q)) = ASN__DECODE_STARVED
    BY <1>1, <1>2, <1>2a, OctetsRead DEF used
<1>7. 0 \in Nat
    OBVIOUS
<1>8. y \in Bits
    BY <1>6, <1>7
<1> HIDE DEF y, ct
<1>9. /\ At(pd, pos, m \o y) =>
             /\ mark = Marked(inext) /\ after \in Nat /\ At(pd, after, y)
             /\ after + Len(y) = pos + Len(m \o y)
      /\ CutAt(pd, pos, m \o y) =>
             mark = -1 \/ (mark = Marked(inext) /\ after \in Nat /\ CutAt(pd, after, y))
    <2>1. IsMark(m, ct, inext)
        BY <1>3
    <2> QED BY <1>1, <1>2, <1>8, <2>1, GetMarked
<1> HIDE DEF mark, after
<1>10. mark = Marked(inext) => rv = OctetsFrom(pc, c, u, pd, GetSize(c, pd, after))
    BY <1>4, <1>5 DEF Marked
<1>11. ASSUME At(pd, pos, m \o y) PROVE rv = Decoded(v, pos + Len(m \o y), used)
    BY <1>6, <1>9, <1>10, <1>11
<1>12. ASSUME CutAt(pd, pos, m \o y) PROVE rv = ASN__DECODE_STARVED
    BY <1>4, <1>6, <1>9, <1>10, <1>12
<1> QED BY <1>3, <1>11, <1>12 DEF rv, used, c, u, inext, ct

(***************************************************************************)
(* OCTET_STRING.c, also for IA5String, UTF8String and NumericString, for   *)
(* less than 16384 characters, which are not fragmented: exactly the       *)
(* strings whose number of characters has a form, and whose characters all *)
(* have a code, can be sent; what was sent comes back, wherever it was     *)
(* written and whatever follows it, and a cut one is noticed.              *)
(***************************************************************************)
THEOREM OctetStringRoundTrip ==
    ASSUME NEW td, NEW per, StringFits(StringConstraints(td, per)),
           NEW v \in Seq(0 .. 255), IsLength(Len(v)), NEW a \in Bits, NEW rest \in Bits
    PROVE  LET pc == StringConstraints(td, per)
               er == OCTET_STRING_encode_uper(td, per, v, Output(a))
               rv == OCTET_STRING_decode_uper(td, per, er.bits \o rest, Len(a))
           IN  /\ er.ok <=> OctetsSendable(pc, v)
               /\ er.ok =>
                    /\ rv.rc = "OK" /\ rv.pos = Len(er.bits) /\ rv.val = v
                    /\ \A cut \in Len(a) .. Len(er.bits) - 1 :
                          OCTET_STRING_decode_uper(td, per, SubSeq(er.bits, 1, cut), Len(a))
                              = ASN__DECODE_STARVED
<1> DEFINE er == OCTET_STRING_encode_uper(td, per, v, Output(a))
           pc == StringConstraints(td, per)
           ct == pc.size
           outside == OctetsOutside(pc, v)
           u == Unit(pc, outside)
           w == CharacterBits(v, u, pc)
           c == Sized(ct, outside)
           m == MarkBits(ct, outside)
           s == SizeBits(c, Len(v))
           x == m \o (s \o w)
           used == Consumed(c, Len(v) * u)
           rv == OCTET_STRING_decode_uper(td, per, er.bits \o rest, Len(a))
<1>0. pc = StringConstraints(td, per) /\ StringFits(pc)
    OBVIOUS
<1> HIDE DEF pc
<1>1. /\ er.ok <=> OctetsSendable(pc, v)
      /\ OctetsSendable(pc, v) => er = Output(((a \o m) \o s) \o w)
    BY <1>0, OctetsPut
<1>2. CASE ~ OctetsSendable(pc, v)
    BY <1>0, <1>1, <1>2
<1>3. CASE OctetsSendable(pc, v)
    <2>1. er = Output(((a \o m) \o s) \o w)
        BY <1>1, <1>3
    <2>2. /\ outside \in BOOLEAN /\ ct.ext \in BOOLEAN /\ SizeFits(c) /\ CharactersFit(pc, u)
          /\ Len(v) \in Nat
        BY <1>0, OctetsType
    <2>2a. SizeOk(c, Len(v)) /\ Legal(v, u, pc)
        BY <1>3 DEF OctetsSendable
    <2>2b. w \in Bits
        <3> HIDE DEF u, pc
        <3>1. IsText(v, u, pc)
            BY <2>2, <2>2a DEF IsText
        <3>2. <<>> \in Bits /\ 0 \in Nat
            BY DEF Bits
        <3> QED BY <3>1, <3>2, GetCharacters
    <2>3. m \in Bits
        BY <2>2, PutMarkBits
    <2>4. s \in Bits
        <3>1. <<>> \in Bits /\ 0 \in Nat
            BY DEF Bits
        <3> HIDE DEF c
        <3> QED BY <2>2, <2>2a, <3>1, ReadSize
    <2>5. \A pd \in Bits, pos \in Nat :
            /\ At(pd, pos, x) =>
                 OCTET_STRING_decode_uper(td, per, pd, pos) = Decoded(v, pos + Len(x), used)
            /\ CutAt(pd, pos, x) => OCTET_STRING_decode_uper(td, per, pd, pos) = ASN__DECODE_STARVED
        <3>1. IsOctets(x, pc, v)
            BY DEF IsOctets
        <3> HIDE DEF x
        <3> QED BY <1>0, <1>3, <3>1, OctetsGet
    <2> HIDE DEF m, s, w, er, used, c, u, outside
    <2>6. ((a \o m) \o s) \o w = a \o x /\ x \in Bits
        <3>2. ((a \o m) \o s) \o w = a \o (m \o (s \o w)) /\ m \o (s \o w) \in Bits
            <4>1. Pieces(a, m, s, w)
                BY <2>3, <2>4, <2>2b DEF Pieces
            <4> HIDE DEF x
            <4> QED BY <4>1, FourPieces
        <3> QED BY <3>2
    <2> HIDE DEF x
    <2>7. Delivered(er, a, rest, x)
        BY <2>1, <2>6, Delivery
    <2>8. rv = Decoded(v, Len(er.bits), used)
        BY <2>5, <2>7 DEF Delivered
    <2> HIDE DEF rv
    <2>9. rv.rc = "OK" /\ rv.pos = Len(er.bits) /\ rv.val = v
        BY <2>8 DEF Decoded
    <2>10. ASSUME NEW cut \in Len(a) .. Len(er.bits) - 1
           PROVE  OCTET_STRING_decode_uper(td, per, SubSeq(er.bits, 1, cut), Len(a)) = ASN__DECODE_STARVED
        BY <2>5, <2>7 DEF Delivered
    <2> QED BY <1>0, <1>1, <1>3, <2>9, <2>10 DEF er, rv
<1> QED BY <1>2, <1>3

-----------------------------------------------------------------------------
\* asn_get_few_bits answers with an integer.
LEMMA FewBitsType ==
    ASSUME NEW pd \in Bits, NEW pos \in Nat, NEW n \in Nat, n =< 31
    PROVE  asn_get_few_bits(pd, pos, n) \in Int
BY FewBitsRange

\* The number of the item that was added is an integer, whatever the stream holds.
LEMMA SmallNumberType ==
    ASSUME NEW pd \in Bits, NEW pos \in Nat
    PROVE  uper_get_nsnnwn(pd, pos)[1] \in Int
<1> DEFINE small == asn_get_few_bits(pd, pos, 7)
           low == asn_get_few_bits(pd, pos + 7, 2)
           bytes == (small - 64) * 4 + low
           long == asn_get_few_bits(pd, pos + 9, 8 * bytes)
<1>1. small \in Int
    <2>1. 7 \in Nat /\ 7 =< 31
        OBVIOUS
    <2> QED BY <2>1, FewBitsType
<1>2. low \in Int
    <2>1. 2 \in Nat /\ 2 =< 31 /\ pos + 7 \in Nat
        OBVIOUS
    <2> QED BY <2>1, FewBitsType
<1>3. uper_get_nsnnwn(pd, pos)
        = IF small < 64 THEN <<small, pos + 7>>
          ELSE IF low < 0 \/ bytes >= 3 THEN <<-1, pos>>
          ELSE IF bytes = 0 THEN <<0, pos + 9>>
          ELSE <<long, pos + 9 + 8 * bytes>>
    BY DEF uper_get_nsnnwn
<1> HIDE DEF small, low
<1>4. bytes \in Int
    BY <1>1, <1>2
<1>5. ASSUME ~ (small < 64), ~ (low < 0 \/ bytes >= 3), bytes # 0 PROVE long \in Int
    <2>1. bytes = 1 \/ bytes = 2
        BY <1>1, <1>2, <1>5
    <2> HIDE DEF bytes
    <2>2. 8 * bytes \in Nat /\ 8 * bytes =< 31 /\ pos + 9 \in Nat
        BY <2>1
    <2> QED BY <2>2, FewBitsType
<1> HIDE DEF bytes, long
<1> QED BY <1>1, <1>3, <1>5

(***************************************************************************)
(* NativeEnumerated.c: whatever bits arrive, what is accepted is an item   *)
(* that can be sent.  Nothing else guards the application against items    *)
(* outside of the enumeration, and with EnumRoundTrip the item is the same *)
(* after a further hop.                                                    *)
(***************************************************************************)
THEOREM EnumAccepted ==
    ASSUME NEW td, NEW per, EnumFits(td, ValueConstraint(td, per)), NEW pd \in Bits, NEW pos \in Nat
    PROVE  LET rv == NativeEnumerated_decode_uper(td, per, pd, pos)
           IN  rv.rc = "OK" => rv.val \in Nat /\ EnumItem(td, ValueConstraint(td, per), rv.val)
<1> DEFINE ct == ValueConstraint(td, per)
           rv == NativeEnumerated_decode_uper(td, per, pd, pos)
           mark == ExtensionMark(ct, pd, pos)
           after == AfterMark(ct, pos)
           value == asn_get_few_bits(pd, after, ct.bits)
           ns == uper_get_nsnnwn(pd, after)
           added == ns[1] + td.extension - 1
<1> SUFFICES ASSUME rv.rc = "OK" PROVE rv.val \in Nat /\ EnumItem(td, ct, rv.val)
    OBVIOUS
<1>1. /\ ct.ext \in BOOLEAN /\ ct.bits \in Nat /\ ct.bits =< 31 /\ ct.bits >= 0
      /\ td.count \in Nat /\ td.extension \in Nat /\ td.extension <= td.count + 1
    BY DEF EnumFits
<1>2. /\ rv = IF mark < 0 THEN ASN__DECODE_STARVED
              ELSE IF mark = 0
              THEN IF value < 0 THEN ASN__DECODE_STARVED
                   ELSE IF value >= EnumRoot(td) THEN ASN__DECODE_FAILED
                   ELSE Decoded(value, after + ct.bits, 0)
              ELSE IF td.extension = 0 THEN ASN__DECODE_FAILED
              ELSE IF ns[1] < 0 THEN ASN__DECODE_STARVED
              ELSE IF added >= td.count THEN ASN__DECODE_FAILED
              ELSE Decoded(added, ns[2], 0)
    BY <1>1 DEF NativeEnumerated_decode_uper
<1>3. ASN__DECODE_STARVED.rc # "OK" /\ ASN__DECODE_FAILED.rc # "OK"
    BY DEF ASN__DECODE_STARVED, ASN__DECODE_FAILED
<1>4. after \in Nat
    BY DEF AfterMark
<1>5. mark = 0 \/ ct.ext
    BY DEF ExtensionMark
<1>6. value \in Int /\ ns[1] \in Int
    <2> HIDE DEF ct, after
    <2>1. value \in Int
        BY <1>1, <1>4, FewBitsType
    <2>2. ns[1] \in Int
        BY <1>4, SmallNumberType
    <2> QED BY <2>1, <2>2
<1>7. EnumRoot(td) = IF td.extension # 0 THEN td.extension - 1 ELSE td.count
    BY DEF EnumRoot
<1> HIDE DEF ct, mark, after, value, ns, rv
<1>8. CASE mark = 0
    <2>1. rv = Decoded(value, after + ct.bits, 0) /\ ~ (value < 0) /\ ~ (value >= EnumRoot(td))
        BY <1>2, <1>3, <1>8
    <2>2. rv.val = value
        BY <2>1 DEF Decoded
    <2>3. EnumRoot(td) \in Int /\ EnumRoot(td) <= td.count
        BY <1>1, <1>7
    <2> HIDE DEF added
    <2>4. value \in 0 .. td.count - 1 /\ ~ Added(td, value)
        BY <1>1, <1>6, <2>1, <2>3 DEF Added
    <2> QED BY <1>6, <2>2, <2>4 DEF EnumItem
<1>9. CASE mark # 0
    <2>1. rv = Decoded(added, ns[2], 0) /\ td.extension # 0 /\ ~ (ns[1] < 0) /\ ~ (added >= td.count)
        BY <1>2, <1>3, <1>9
    <2>2. rv.val = added
        BY <2>1 DEF Decoded
    <2>3. added \in 0 .. td.count - 1
        BY <1>1, <1>6, <2>1
    <2>4. ct.ext
        BY <1>5, <1>9
    <2> HIDE DEF added
    <2> QED BY <2>2, <2>3, <2>4 DEF EnumItem
<1> QED BY <1>8, <1>9

\* A mark that is read as 0; and bits that lie in front of a position.
MarkedRoot(ct, pd, pos) == ExtensionMark(ct, pd, pos) = 0
MarkLies(pd, pos, m, after) ==
    m \in Bits /\ after = pos + Len(m) /\ \A i \in 1 .. Len(m) : pd[pos + i] = m[i]

\* A mark that is read as 0 is there, or there is none to read.
LEMMA RootMark ==
    ASSUME NEW ct, NEW pd \in Bits, NEW pos \in Nat, MarkedRoot(ct, pd, pos)
    PROVE  MarkLies(pd, pos, MarkBits(ct, FALSE), AfterMark(ct, pos))
<1> DEFINE m == MarkBits(ct, FALSE)
<1>1. CASE ~ ct.ext
    <2>1. m = <<>> /\ AfterMark(ct, pos) = pos
        BY <1>1 DEF MarkBits, AfterMark
    <2>2. MarkLies(pd, pos, <<>>, pos)
        BY DEF Bits, MarkLies
    <2> HIDE DEF m
    <2>3. MarkLies(pd, pos, m, AfterMark(ct, pos))
        BY <2>1, <2>2
    <2> QED BY <2>3 DEF m
<1>2. CASE ct.ext
    <2> DEFINE one == 1
               x == SubSeq(pd, pos + 1, pos + one)
    <2>0. one \in Nat /\ one =< 31 /\ one = 1
        OBVIOUS
    <2>1. asn_get_few_bits(pd, pos, one) = 0
        BY <1>2 DEF ExtensionMark, MarkedRoot
    <2>2. m = BitsOf(0, one) /\ AfterMark(ct, pos) = pos + one
        BY <1>2 DEF MarkBits, Bit, Marked, AfterMark
    <2> HIDE DEF one, m
    <2>3. pos + one =< Len(pd)
        BY <2>0, <2>1, FewBitsRange
    <2>4. NumberOf(x) = 0
        <3>1. ~ (pos + one > Len(pd))
            BY <2>0, <2>3, BitsParts
        <3> QED BY <2>1, <3>1 DEF asn_get_few_bits
    <2>5. x \in Bits /\ Len(x) = one /\ \A i \in 1 .. one : x[i] = pd[pos + i]
        BY <2>0, <2>3, BitsSub
    <2> HIDE DEF x
    <2>6. BitsOf(0, one) = x
        BY <2>0, <2>4, <2>5, BitsOfNumberOf
    <2>7. m = x /\ AfterMark(ct, pos) = pos + Len(x)
        BY <2>2, <2>5, <2>6
    <2>8. MarkLies(pd, pos, x, pos + Len(x))
        BY <2>5 DEF MarkLies
    <2>9. MarkLies(pd, pos, m, AfterMark(ct, pos))
        BY <2>7, <2>8
    <2> QED BY <2>9 DEF m
<1> QED BY <1>1, <1>2

\* Two pieces that lie one behind the other are one.
LEMMA PiecesAt ==
    ASSUME NEW pd \in Bits, NEW pos \in Nat, NEW x \in Bits, NEW y \in Bits,
           \A i \in 1 .. Len(x) : pd[pos + i] = x[i], At(pd, pos + Len(x), y)
    PROVE  x \o y \in Bits /\ At(pd, pos, x \o y)
<1>1. Len(x) \in Nat /\ Len(y) \in Nat /\ Len(pd) \in Nat /\ Len(x \o y) = Len(x) + Len(y) /\ x \o y \in Bits
    BY BitsParts, BitsConcat
<1>2. pos + Len(x \o y) =< Len(pd)
    BY <1>1 DEF At
<1>3. ASSUME NEW i \in 1 .. Len(x \o y) PROVE pd[pos + i] = (x \o y)[i]
    <2>1. CASE i \in 1 .. Len(x)
        BY <2>1, BitsConcat
    <2>2. CASE i \notin 1 .. Len(x)
        <3>1. PICK j \in 1 .. Len(y) : i = Len(x) + j
            <4>1. i - Len(x) \in 1 .. Len(y) /\ i = Len(x) + (i - Len(x))
                BY <1>1, <2>2
            <4> QED BY <4>1
        <3>2. pd[(pos + Len(x)) + j] = y[j] /\ (pos + Len(x)) + j = pos + i
            BY <1>1, <3>1 DEF At
        <3>3. (x \o y)[i] = y[j]
            BY <3>1, BitsConcat
        <3> QED BY <3>2, <3>3
    <2> QED BY <2>1, <2>2
<1> QED BY <1>1, <1>2, <1>3 DEF At

\* What INTEGER_decode_uper accepts in the bits of a range that it checks.
LEMMA RangedAccepted ==
    ASSUME NEW td, td.unsigned = FALSE, NEW ct, IntegerFits(ct), ct.bits >= 0,
           NEW pd \in Bits, NEW pos \in Nat, Ranged(td, ct, pd, pos).rc = "OK"
    PROVE  LET rv == Ranged(td, ct, pd, pos)
           IN  /\ rv.val \in Longs /\ InRange(ct, rv.val) /\ rv.pos = pos + Len(IntegerBody(ct, rv.val))
               /\ IntegerBody(ct, rv.val) \in Bits /\ At(pd, pos, IntegerBody(ct, rv.val))
<1> DEFINE raw == asn_get_many_bits(pd, pos, ct.bits)
           v == per_long_range_unrebase(LongOf(raw), ct.lb, ct.ub)
           rv == Ranged(td, ct, pd, pos)
           n == ct.bits
<1>1. n \in 0 .. 64 /\ ct.lb \in Longs /\ ct.ub \in Longs
    BY DEF IntegerFits
<1>2. rv = IF Starving(raw) THEN ASN__DECODE_STARVED ELSE Offset(v, Long(0), pos + n)
    BY DEF Ranged
<1>3. raw = uper_get_constrained_whole_number(pd, pos, n)
    BY DEF uper_get_constrained_whole_number
<1> HIDE DEF raw, rv, n
<1>4. ~ Starving(raw) /\ v # << >> /\ rv = Decoded(Plus(v[1], Long(0)), pos + n, 0)
    <2>1. ASN__DECODE_STARVED.rc # "OK" /\ ASN__DECODE_FAILED.rc # "OK" /\ rv.rc = "OK"
        BY DEF ASN__DECODE_STARVED, ASN__DECODE_FAILED, rv
    <2> HIDE DEF v
    <2> QED BY <1>2, <2>1 DEF Offset
<1>5. /\ raw \in Bits /\ Len(raw) = n /\ At(pd, pos, raw)
      /\ v[1] \in Longs /\ Within(ct.lb, v[1], ct.ub)
      /\ LongBits(per_long_range_rebase(v[1], ct.lb, ct.ub)[1], n) = raw
    <2> DEFINE lb == ct.lb
               ub == ct.ub
               get == uper_get_constrained_whole_number(pd, pos, n)
               w == per_long_range_unrebase(LongOf(get), lb, ub)
    <2>1. w = v /\ get = raw /\ lb \in Longs /\ ub \in Longs /\ n \in 0 .. 64
        BY <1>1, <1>3
    <2> HIDE DEF lb, ub, v
    <2>2. ~ Starving(get) /\ per_long_range_unrebase(LongOf(get), lb, ub) # << >>
        BY <1>4, <2>1
    <2>3. /\ get \in Bits /\ Len(get) = n /\ At(pd, pos, get)
          /\ w[1] \in Longs /\ Within(lb, w[1], ub)
          /\ LongBits(per_long_range_rebase(w[1], lb, ub)[1], n) = get
        BY <2>1, <2>2, ConstrainedNumberBits
    <2> HIDE DEF w, get
    <2> QED BY <2>1, <2>3 DEF lb, ub
<1> HIDE DEF v
<1>6. rv.val = v[1] /\ rv.pos = pos + n
    <2>1. Plus(v[1], Long(0)) = v[1]
        BY <1>5, ZeroLong
    <2> QED BY <1>4, <2>1 DEF Decoded
<1>7. InRange(ct, v[1]) /\ IntegerBody(ct, v[1]) = raw
    BY <1>5 DEF InRange, IntegerBody, n
<1> QED BY <1>5, <1>6, <1>7 DEF rv

(***************************************************************************)
(* INTEGER.c and NativeInteger.c: whatever bits arrive for a number with a *)
(* range, what is accepted is within the range, no bit behind the end of   *)
(* the stream was used, and the encoder writes the very bits that were     *)
(* read.  Nothing else guards the application against numbers outside of   *)
(* their range, and with IntegerRoundTrip the number is the same after a   *)
(* further hop.  (Unsigned numbers are not checked; the only one among the *)
(* messages has a range of all its bits.)                                  *)
(***************************************************************************)
THEOREM IntegerAccepted ==
    ASSUME NEW td, NEW per, td.unsigned = FALSE, IntegerFits(ValueConstraint(td, per)),
           ValueConstraint(td, per).bits >= 0, NEW pd \in Bits, NEW pos \in Nat, NEW a \in Bits,
           ExtensionMark(ValueConstraint(td, per), pd, pos) = 0
    PROVE  LET ct == ValueConstraint(td, per)
               rv == INTEGER_decode_uper(td, per, pd, pos)
           IN  rv.rc = "OK" =>
                  /\ rv.val \in Longs /\ Within(ct.lb, rv.val, ct.ub) /\ rv.pos <= Len(pd)
                  /\ INTEGER_encode_uper(td, per, rv.val, Output(a))
                         = Output(a \o SubSeq(pd, pos + 1, rv.pos))
<1> DEFINE ct == ValueConstraint(td, per)
           rv == INTEGER_decode_uper(td, per, pd, pos)
           after == AfterMark(ct, pos)
           v == rv.val
           m == MarkBits(ct, FALSE)
           y == IntegerBody(ct, v)
           er == INTEGER_encode_uper(td, per, v, Output(a))
<1> SUFFICES ASSUME rv.rc = "OK"
             PROVE  /\ v \in Longs /\ Within(ct.lb, v, ct.ub) /\ rv.pos <= Len(pd)
                    /\ er = Output(a \o SubSeq(pd, pos + 1, rv.pos))
    OBVIOUS
<1>0. ct = ValueConstraint(td, per) /\ IntegerFits(ct) /\ ct.bits >= 0 /\ ExtensionMark(ct, pd, pos) = 0
    OBVIOUS
<1>1. rv = Ranged(td, ct, pd, after)
    <2> DEFINE mark == ExtensionMark(ct, pd, pos)
    <2>1. mark = 0 /\ ct.bits >= 0
        BY <1>0
    <2> HIDE DEF ct
    <2> HIDE DEF mark, after
    <2> QED BY <1>0, <2>1, IntegerForms DEF mark, after
<1> HIDE DEF ct
<1>2. ct.ext \in BOOLEAN
    BY <1>0 DEF IntegerFits
<1> HIDE DEF rv
<1>3. m \in Bits /\ after = pos + Len(m) /\ \A i \in 1 .. Len(m) : pd[pos + i] = m[i]
    <2>1. MarkedRoot(ct, pd, pos)
        BY <1>0 DEF MarkedRoot
    <2>2. MarkLies(pd, pos, m, after)
        BY <2>1, RootMark
    <2> HIDE DEF m, after
    <2> QED BY <2>2 DEF MarkLies
<1>4. after \in Nat
    BY DEF AfterMark
<1> HIDE DEF after, m
<1>5. v \in Longs /\ InRange(ct, v) /\ rv.pos = after + Len(y) /\ y \in Bits /\ At(pd, after, y)
    BY <1>0, <1>1, <1>4, RangedAccepted
<1>6. er = Output((a \o m) \o y)
    <2>1. ~ Beyond(ct, v) /\ Held(td, ct, v) /\ IntegerSent(ct, v)
        BY <1>0, <1>5, RangeCases DEF Held, IntegerSent
    <2>2. MarkBits(ct, Beyond(ct, v)) = m
        BY <2>1 DEF MarkBits, Marked, m
    <2> HIDE DEF v
    <2>3. INTEGER_encode_uper(td, per, v, Output(a)) = Output((a \o MarkBits(ct, Beyond(ct, v))) \o y)
        BY <1>0, <1>5, <2>1, IntegerPut
    <2> QED BY <2>2, <2>3
<1> HIDE DEF y, v, er
<1>7. m \o y \in Bits /\ At(pd, pos, m \o y)
    BY <1>3, <1>5, PiecesAt
<1>8. Len(m \o y) = Len(m) + Len(y) /\ Len(m) \in Nat /\ Len(y) \in Nat
    BY <1>3, <1>5, BitsConcat, BitsParts
<1>9. rv.pos = pos + Len(m \o y)
    BY <1>3, <1>5, <1>8
<1>10. SubSeq(pd, pos + 1, rv.pos) = m \o y
    BY <1>7, <1>9, AtGet
<1>11. (a \o m) \o y = a \o (m \o y)
    BY <1>3, <1>5, BitsAssociative
<1>12. rv.pos <= Len(pd)
    BY <1>7, <1>9 DEF At
<1>13. Within(ct.lb, v, ct.ub)
    BY <1>5 DEF InRange
<1> QED BY <1>5, <1>6, <1>10, <1>11, <1>12, <1>13

-----------------------------------------------------------------------------
(* Open types *)

\* What uper_encode_to_new_buffer makes of the bits x, its octets, and the
\* bits of the open type.
Filled(x) == IF x = <<>> THEN BitsOf(0, 8) ELSE _uper_encode_flush_outp(x)
OpenSize(x) == Len(Filled(x)) \div 8
OpenBits(x) == LengthBits(OpenSize(x)) \o Filled(x)

\* The filled contents begin with x, and the decoder accepts the filling.
LEMMA FilledUp ==
    ASSUME NEW x \in Bits
    PROVE  /\ Filled(x) \in Bits /\ OpenSize(x) \in Nat /\ Len(Filled(x)) = 8 * OpenSize(x)
           /\ At(Filled(x), 0, x) /\ PaddingValid(Filled(x), Len(x))
<1> DEFINE y == Filled(x)
<1>1. y \in Bits /\ Len(y) % 8 = 0 /\ At(y, 0, x) /\ PaddingValid(y, Len(x))
    <2>1. CASE x = <<>>
        <3>1. y = BitsOf(0, 8) /\ Len(x) = 0
            BY <2>1 DEF Filled
        <3>2. y \in Bits /\ Len(y) = 8 /\ \A i \in 1 .. 8 : y[i] = 0
            BY <3>1, ZeroBits
        <3> HIDE DEF y
        <3>3. At(y, 0, x)
            BY <3>1, <3>2 DEF At
        <3>4. Len(y) % 8 = 0
            BY <3>2
        <3>5. PaddingValid(y, Len(x))
            BY <3>1, <3>2 DEF PaddingValid
        <3> QED BY <3>2, <3>3, <3>4, <3>5
    <2>2. CASE x # <<>>
        <3>1. y = _uper_encode_flush_outp(x)
            BY <2>2 DEF Filled
        <3>2. /\ y \in Bits /\ Len(y) % 8 = 0 /\ PaddingValid(y, Len(x))
              /\ Len(x) <= Len(y) /\ \A i \in 1 .. Len(x) : y[i] = x[i]
            BY <3>1, PaddingAccepted
        <3> HIDE DEF y
        <3> QED BY <3>2, BitsParts DEF At
    <2> QED BY <2>1, <2>2
<1> HIDE DEF y
<1>2. Len(y) \in Nat
    BY <1>1, BitsParts
<1>3. Len(y) \div 8 \in Nat /\ Len(y) = 8 * (Len(y) \div 8)
    BY <1>1, <1>2, SMT
<1> QED BY <1>1, <1>3 DEF y, OpenSize

\* rv is what a decoder answers that finds x, the encoding of v, at pos: v where
\* x lies there, and that bits are missing where the stream ends within x.
Reads(rv, pd, pos, v, x, used) ==
    /\ At(pd, pos, x) => rv = Decoded(v, pos + Len(x), used)
    /\ CutAt(pd, pos, x) => rv = ASN__DECODE_STARVED

\* The octets of an open type behind their length, complete or cut.
LEMMA OpenOctets ==
    ASSUME NEW x \in Bits, IsLength(OpenSize(x)), NEW pd \in Bits, NEW pos \in Nat
    PROVE  LET len == uper_get_length(pd, pos, -1, 0)
               buf == asn_get_many_bits(pd, len[2], 8 * len[1])
           IN  /\ OpenBits(x) \in Bits
               /\ At(pd, pos, OpenBits(x)) =>
                     /\ ~ (len[1] < 0) /\ buf = Filled(x)
                     /\ len[2] + 8 * len[1] = pos + Len(OpenBits(x))
               /\ CutAt(pd, pos, OpenBits(x)) => len[1] < 0 \/ buf = <<-1>>
<1> DEFINE len == uper_get_length(pd, pos, -1, 0)
           n == OpenSize(x)
           y == Filled(x)
           b == Behind(pos, n)
<1>1. y \in Bits /\ n \in Nat /\ Len(y) = 8 * n
    BY FilledUp
<1> HIDE DEF y
<1>2. OpenBits(x) = LengthBits(n) \o y
    BY DEF OpenBits, y
<1> HIDE DEF n
<1>0. IsLength(n)
    BY DEF n
<1>3. /\ LengthBits(n) \o y \in Bits /\ b \in Nat /\ b + Len(y) = pos + Len(LengthBits(n) \o y)
      /\ At(pd, pos, LengthBits(n) \o y) => len = <<n, b>> /\ At(pd, b, y)
      /\ CutAt(pd, pos, LengthBits(n) \o y) => len[1] = -1 \/ (len = <<n, b>> /\ CutAt(pd, b, y))
    <2>1. y \in Bits
        BY <1>1
    <2> QED BY <1>0, <2>1, GetSized
<1> HIDE DEF len, b
<1>4. At(pd, b, y) => asn_get_many_bits(pd, b, 8 * n) = y
    BY <1>1, <1>3, GetManyBits
<1>5. CutAt(pd, b, y) => asn_get_many_bits(pd, b, 8 * n) = <<-1>>
    BY <1>1, <1>3, GetCut
<1>6. len = <<n, b>> => len[1] = n /\ len[2] = b
    OBVIOUS
<1>7. -1 < 0 /\ ~ (n < 0)
    BY <1>1
<1> QED BY <1>1, <1>2, <1>3, <1>4, <1>5, <1>6, <1>7 DEF len, y

\* The open type codecs, given what the codec of the type in it answers.
OpenPut(er, po) ==
    LET buf == IF ~er.ok THEN er ELSE [ok |-> TRUE, bits |-> Filled(er.bits)]
    IN  IF ~buf.ok THEN EncodeFailed
        ELSE asn_put_many_bits(uper_put_length(po, Len(buf.bits) \div 8), buf.bits)
OpenLength(pd, pos) == uper_get_length(pd, pos, -1, 0)
OpenBuffer(pd, pos) == asn_get_many_bits(pd, OpenLength(pd, pos)[2], 8 * OpenLength(pd, pos)[1])
OpenGet(rv, pd, pos) ==
    IF OpenLength(pd, pos)[1] < 0 \/ Starving(OpenBuffer(pd, pos)) THEN ASN__DECODE_STARVED
    ELSE IF rv.rc # "OK" \/ ~PaddingValid(OpenBuffer(pd, pos), rv.pos) THEN ASN__DECODE_FAILED
    ELSE Decoded(rv.val, OpenLength(pd, pos)[2] + 8 * OpenLength(pd, pos)[1], rv.consumed)

\* What is put.
LEMMA OpenPutBits ==
    ASSUME NEW x \in Bits, IsLength(OpenSize(x)), NEW a \in Bits, NEW er, er = Output(x)
    PROVE  OpenPut(er, Output(a)) = Output(a \o OpenBits(x))
<1> DEFINE y == Filled(x)
           n == OpenSize(x)
<1>1. n \in Nat /\ y \in Bits /\ IsLength(n)
    BY FilledUp
<1>2. er.ok = TRUE /\ er.bits = x
    BY OutputParts
<1>3. OpenPut(er, Output(a)) = asn_put_many_bits(uper_put_length(Output(a), n), y)
    BY <1>2 DEF OpenPut, OpenSize
<1> HIDE DEF n, y
<1>4. uper_put_length(Output(a), n) = Output(a \o LengthBits(n))
    BY <1>1, PutLength
<1>5. OpenPut(er, Output(a)) = Output((a \o LengthBits(n)) \o y)
    BY <1>3, <1>4, PutBits
<1>6. LengthBits(n) \in Bits
    BY <1>1, LengthBitsType
<1>7. (a \o LengthBits(n)) \o y = a \o (LengthBits(n) \o y)
    BY <1>1, <1>6, BitsAssociative
<1> QED BY <1>5, <1>7 DEF OpenBits, n, y

\* What is read, if the codec of the type in it reads v from the filled contents.
LEMMA OpenGetBits ==
    ASSUME NEW x \in Bits, IsLength(OpenSize(x)), NEW v, NEW used, NEW pd \in Bits, NEW pos \in Nat,
           NEW rv, OpenBuffer(pd, pos) = Filled(x) => rv = Decoded(v, Len(x), used)
    PROVE  Reads(OpenGet(rv, pd, pos), pd, pos, v, OpenBits(x), used)
<1> DEFINE len == OpenLength(pd, pos)
           buf == OpenBuffer(pd, pos)
           y == OpenBits(x)
<1>1. /\ At(pd, pos, y) =>
            ~ (len[1] < 0) /\ buf = Filled(x) /\ len[2] + 8 * len[1] = pos + Len(y)
      /\ CutAt(pd, pos, y) => len[1] < 0 \/ buf = <<-1>>
    BY OpenOctets DEF OpenLength, OpenBuffer
<1> HIDE DEF len, buf, y
<1>2. ~ Starving(Filled(x)) /\ PaddingValid(Filled(x), Len(x))
    BY FilledUp, NotStarving
<1>3. Starving(<<-1>>)
    BY DEF Starving
<1>4. OpenGet(rv, pd, pos) =
          IF len[1] < 0 \/ Starving(buf) THEN ASN__DECODE_STARVED
          ELSE IF rv.rc # "OK" \/ ~PaddingValid(buf, rv.pos) THEN ASN__DECODE_FAILED
          ELSE Decoded(rv.val, len[2] + 8 * len[1], rv.consumed)
    BY DEF OpenGet, len, buf
<1>5. ASSUME At(pd, pos, y) PROVE OpenGet(rv, pd, pos) = Decoded(v, pos + Len(y), used)
    <2>1. rv = Decoded(v, Len(x), used)
        BY <1>1, <1>5 DEF buf
    <2>2. rv.rc = "OK" /\ rv.pos = Len(x) /\ rv.val = v /\ rv.consumed = used
        BY <2>1 DEF Decoded
    <2>3. ~ (len[1] < 0 \/ Starving(buf)) /\ PaddingValid(buf, rv.pos)
        BY <1>1, <1>2, <1>5, <2>2
    <2> QED BY <1>1, <1>4, <1>5, <2>2, <2>3
<1>6. ASSUME CutAt(pd, pos, y) PROVE OpenGet(rv, pd, pos) = ASN__DECODE_STARVED
    BY <1>1, <1>3, <1>4, <1>6
<1> QED BY <1>5, <1>6 DEF Reads, y

(***************************************************************************)
(* per_opentype.c: whatever the type in it, a value that its codec returns *)
(* is also returned from an open type, where the codec works on a buffer   *)
(* of its own that is filled up to whole octets; an open type that is cut  *)
(* is noticed.                                                             *)
(***************************************************************************)
THEOREM OpenTypeRoundTrip ==
    ASSUME NEW CONSTANT Enc(_, _, _, _), NEW CONSTANT Dec(_, _, _, _),
           NEW t, NEW per, NEW v, NEW used, NEW x \in Bits, IsLength(OpenSize(x)),
           \A a \in Bits : Enc(t, per, v, Output(a)) = Output(a \o x),
           \A pd \in Bits, pos \in Nat : Reads(Dec(t, per, pd, pos), pd, pos, v, x, used)
    PROVE  /\ OpenBits(x) \in Bits
           /\ \A a \in Bits : OpenTypePut(Enc, t, per, v, Output(a)) = Output(a \o OpenBits(x))
           /\ \A pd \in Bits, pos \in Nat :
                  Reads(OpenTypeGet(Dec, t, per, pd, pos), pd, pos, v, OpenBits(x), used)
<1>1. OpenBits(x) \in Bits
    BY OpenOctets
<1>2. Enc(t, per, v, NoOutput) = Output(x)
    <2>1. <<>> \in Bits /\ <<>> \o x = x
        BY ConcatEmptySeq DEF Bits
    <2>2. NoOutput = Output(<<>>)
        BY DEF NoOutput, Output
    <2> QED BY <2>1, <2>2
<1>3. ASSUME NEW a \in Bits
      PROVE  OpenTypePut(Enc, t, per, v, Output(a)) = Output(a \o OpenBits(x))
    <2> DEFINE er == Enc(t, per, v, NoOutput)
    <2>1. OpenPut(er, Output(a)) = Output(a \o OpenBits(x))
        BY <1>2, OpenPutBits
    <2>2. OpenTypePut(Enc, t, per, v, Output(a)) = OpenPut(er, Output(a))
        BY DEF OpenTypePut, uper_encode_to_new_buffer, OpenPut, Filled
    <2> QED BY <2>1, <2>2
<1>4. ASSUME NEW pd \in Bits, NEW pos \in Nat
      PROVE  Reads(OpenTypeGet(Dec, t, per, pd, pos), pd, pos, v, OpenBits(x), used)
    <2> DEFINE rv == Dec(t, per, OpenBuffer(pd, pos), 0)
    <2>1. Filled(x) \in Bits /\ At(Filled(x), 0, x) /\ 0 + Len(x) = Len(x)
        BY FilledUp, BitsParts
    <2>2. OpenBuffer(pd, pos) = Filled(x) => rv = Decoded(v, Len(x), used)
        BY <2>1 DEF Reads
    <2>3. OpenTypeGet(Dec, t, per, pd, pos) = OpenGet(rv, pd, pos)
        BY DEF OpenTypeGet, OpenGet, OpenLength, OpenBuffer
    <2> HIDE DEF rv
    <2>4. Reads(OpenGet(rv, pd, pos), pd, pos, v, OpenBits(x), used)
        BY <2>2, OpenGetBits
    <2> QED BY <2>3, <2>4
<1> QED BY <1>1, <1>3, <1>4

-----------------------------------------------------------------------------
(* Unknown extensions *)

\* The octets behind the last three that uper_sot_suck takes at once.
LEMMA Threes ==
    ASSUME NEW n \in Nat
    PROVE  (8 * n) % 24 = 8 * (n % 3) /\ n % 3 \in 0 .. 2
<1> DEFINE q == n \div 3
           r == n % 3
<1>1. q \in Nat /\ r \in 0 .. 2 /\ n = 3 * q + r
    BY SMT
<1> HIDE DEF q, r
<1>2. ASSUME NEW k \in 0 .. 23 PROVE (24 * q + k) % 24 = k
    BY <1>1, <1>2, SMT
<1>3. 8 * n = 24 * q + 8 * r /\ 8 * r \in 0 .. 23
    BY <1>1, SMT
<1> QED BY <1>1, <1>2, <1>3 DEF r

\* y is n octets long (a name for the equation).
InOctets(y, n) == Len(y) = 8 * n

\* An extension of n octets y is taken to the end, or is the zero octet of an
\* empty encoding.
Skippable(n, y) == n % 3 = 0 \/ (n = 1 /\ \A i \in 1 .. 8 : y[i] = 0)

\* Skippable is what the check of the filling asks for.
LEMMA SuckedUp ==
    ASSUME NEW n \in Nat, NEW y \in Bits, Len(y) = 8 * n
    PROVE  PaddingValid(y, uper_sot_suck(y).pos) <=> Skippable(n, y)
<1> DEFINE used == uper_sot_suck(y).pos
           r == n % 3
<1>1. used = Len(y) - (Len(y) % 24)
    BY DEF uper_sot_suck, Decoded
<1>2. r \in 0 .. 2 /\ used = 8 * n - 8 * r /\ (n = 1 => r = 1) /\ r <= n
    BY <1>1, Threes, SMT
<1> HIDE DEF used, r
<1>3. CASE r = 0
    <2>1. used = Len(y) /\ used \in Nat
        BY <1>2, <1>3
    <2>2. PaddingValid(y, used)
        BY <2>1 DEF PaddingValid
    <2> QED BY <1>3, <2>2 DEF Skippable, r, used
<1>4. CASE r # 0
    <2>1. Len(y) - used = 8 * r /\ ~ (8 * r < 8) /\ (used = 0 /\ Len(y) = 8 <=> n = 1)
        BY <1>2, <1>4
    <2>2. n = 1 => used = 0 /\ Len(y) = 8
        BY <2>1
    <2>3. PaddingValid(y, used) <=> n = 1 /\ \A i \in 1 .. 8 : y[i] = 0
        <3>1. CASE n = 1
            BY <2>1, <2>2, <3>1 DEF PaddingValid
        <3>2. CASE n # 1
            BY <2>1, <3>2 DEF PaddingValid
        <3> QED BY <3>1, <3>2
    <2> QED BY <1>4, <2>3 DEF Skippable, r, used
<1> QED BY <1>3, <1>4

(***************************************************************************)
(* per_opentype.c: an extension that the receiver does not know is skipped *)
(* exactly when its length is a multiple of three octets, or when it is    *)
(* the single zero octet of an empty encoding; any other extension, and    *)
(* one that is cut, makes the message fail.                                *)
(***************************************************************************)
THEOREM UnknownSkipped ==
    ASSUME NEW n, IsLength(n), NEW y \in Bits, InOctets(y, n), NEW pd \in Bits, NEW pos \in Nat
    PROVE  LET x == LengthBits(n) \o y
           IN  /\ At(pd, pos, x) =>
                     uper_open_type_skip(pd, pos) = IF Skippable(n, y) THEN pos + Len(x) ELSE -1
               /\ CutAt(pd, pos, x) => uper_open_type_skip(pd, pos) = -1
<1> DEFINE x == LengthBits(n) \o y
           len == uper_get_length(pd, pos, -1, 0)
           b == Behind(pos, n)
           buf == asn_get_many_bits(pd, len[2], 8 * len[1])
<1>1. n \in Nat
    BY DEF IsLength
<1>2. uper_open_type_skip(pd, pos) =
          IF len[1] < 0 \/ Starving(buf) \/ ~PaddingValid(buf, uper_sot_suck(buf).pos) THEN -1
          ELSE len[2] + 8 * len[1]
    BY DEF uper_open_type_skip
<1>3. /\ x \in Bits /\ b \in Nat /\ b + Len(y) = pos + Len(x)
      /\ At(pd, pos, x) => len = <<n, b>> /\ At(pd, b, y)
      /\ CutAt(pd, pos, x) => len[1] = -1 \/ (len = <<n, b>> /\ CutAt(pd, b, y))
    BY GetSized
<1> HIDE DEF x, len, b
<1>4. At(pd, b, y) => asn_get_many_bits(pd, b, 8 * n) = y
    BY <1>3, GetManyBits DEF InOctets
<1>5. CutAt(pd, b, y) => asn_get_many_bits(pd, b, 8 * n) = <<-1>>
    BY <1>3, GetCut DEF InOctets
<1>6. len = <<n, b>> => len[1] = n /\ len[2] = b
    OBVIOUS
<1>7. ASSUME At(pd, pos, x)
      PROVE  uper_open_type_skip(pd, pos) = IF Skippable(n, y) THEN pos + Len(x) ELSE -1
    <2>1. len[1] = n /\ len[2] = b /\ buf = y /\ ~ (n < 0) /\ b + 8 * n = pos + Len(x)
        BY <1>1, <1>3, <1>4, <1>6, <1>7 DEF InOctets
    <2>2. ~ Starving(y)
        BY NotStarving
    <2>3. PaddingValid(y, uper_sot_suck(y).pos) <=> Skippable(n, y)
        BY <1>1, SuckedUp DEF InOctets
    <2> QED BY <1>2, <2>1, <2>2, <2>3
<1>8. ASSUME CutAt(pd, pos, x) PROVE uper_open_type_skip(pd, pos) = -1
    <2>1. len[1] = -1 \/ buf = <<-1>>
        BY <1>3, <1>5, <1>6, <1>8
    <2>2. -1 < 0 /\ Starving(<<-1>>)
        BY DEF Starving
    <2> QED BY <1>2, <2>1, <2>2
<1> QED BY <1>7, <1>8 DEF x

-----------------------------------------------------------------------------
(* CHOICE *)

\* The i-th alternative lies behind the root, can be sent, and its bits if
\* those of its value are x.
Extending(ct, i) == i - 1 > ct.ub[3]
Alternative(td, ct, i) == i \in 1 .. Len(td.members) /\ (Extending(ct, i) => ct.ext)
IndexBits(td, ct, i) == IF Extending(ct, i) THEN BitsOf(i - 1 - td.extension, 7) ELSE BitsOf(i - 1, ct.bits)
ContentBits(ct, i, x) == IF Extending(ct, i) THEN OpenBits(x) ELSE x
ChoiceBits(td, ct, i, x) ==
    MarkBits(ct, Extending(ct, i)) \o (IndexBits(td, ct, i) \o ContentBits(ct, i, x))

\* The answer of the decoder for the i-th alternative, from that of the value.
Present(rv, i) == IF rv.rc # "OK" THEN rv ELSE Decoded(<<i, rv.val>>, rv.pos, rv.consumed)

\* It answers with the number of the alternative, and passes on that bits are missing.
LEMMA PresentReads ==
    ASSUME NEW rv, NEW pd, NEW pos, NEW v, NEW x, NEW used, NEW i, Reads(rv, pd, pos, v, x, used)
    PROVE  Reads(Present(rv, i), pd, pos, <<i, v>>, x, used)
<1>1. ASSUME At(pd, pos, x) PROVE Present(rv, i) = Decoded(<<i, v>>, pos + Len(x), used)
    BY <1>1 DEF Reads, Present, Decoded
<1>2. ASSUME CutAt(pd, pos, x) PROVE Present(rv, i) = ASN__DECODE_STARVED
    BY <1>2 DEF Reads, Present, ASN__DECODE_STARVED
<1> QED BY <1>1, <1>2 DEF Reads

\* A mark m and an index r in front of x.
LEMMA ReadsBehind ==
    ASSUME NEW pd \in Bits, NEW pos \in Nat, NEW m \in Bits, NEW r \in Bits, NEW x \in Bits,
           NEW answer, NEW rest, NEW v, NEW used,
           At(pd, pos, m) /\ At(pd, pos + Len(m), r) => answer = rest,
           CutAt(pd, pos, m) => answer = ASN__DECODE_STARVED,
           At(pd, pos, m) /\ CutAt(pd, pos + Len(m), r) => answer = ASN__DECODE_STARVED,
           Reads(rest, pd, pos + Len(m) + Len(r), v, x, used)
    PROVE  Reads(answer, pd, pos, v, m \o (r \o x), used)
<1> DEFINE p == pos + Len(m)
           q == pos + Len(m) + Len(r)
           y == r \o x
<1>1. p \in Nat /\ q \in Nat /\ q = p + Len(r) /\ Len(m) \in Nat /\ Len(r) \in Nat /\ Len(x) \in Nat
    BY BitsParts
<1>2. y \in Bits /\ Len(y) = Len(r) + Len(x)
    BY BitsConcat
<1>3. Len(m \o y) = Len(m) + Len(y)
    <2> HIDE DEF y
    <2> QED BY <1>2, BitsConcat
<1>4. pos + Len(m \o y) = q + Len(x)
    BY <1>1, <1>2, <1>3
<1> HIDE DEF p, q
<1>5. At(pd, p, y) => At(pd, p, r) /\ At(pd, q, x)
    BY <1>1, AtConcat
<1>6. CutAt(pd, p, y) => CutAt(pd, p, r) \/ (At(pd, p, r) /\ CutAt(pd, q, x))
    BY <1>1, CutConcat
<1> HIDE DEF y
<1>7. At(pd, pos, m \o y) => At(pd, pos, m) /\ At(pd, p, y)
    BY <1>2, AtConcat DEF p
<1>8. CutAt(pd, pos, m \o y) => CutAt(pd, pos, m) \/ (At(pd, pos, m) /\ CutAt(pd, p, y))
    BY <1>2, CutConcat DEF p
<1>9. At(pd, pos, m \o y) => answer = Decoded(v, pos + Len(m \o y), used)
    BY <1>4, <1>5, <1>7 DEF Reads, p, q
<1>10. CutAt(pd, pos, m \o y) => answer = ASN__DECODE_STARVED
    BY <1>6, <1>8 DEF Reads, p, q
<1> QED BY <1>9, <1>10 DEF Reads, y

\* What ChoiceFits says of an alternative.
LEMMA Alternatives ==
    ASSUME NEW td, NEW ct, ChoiceFits(td, ct), NEW i, Alternative(td, ct, i)
    PROVE  /\ ct.ext \in BOOLEAN /\ Extending(ct, i) \in BOOLEAN /\ (Extending(ct, i) => ct.ext)
           /\ i \in DOMAIN td.members /\ i - 1 \in Nat /\ i - 1 + 1 = i /\ ct.bits \in Nat /\ ct.bits <= 31
           /\ (i - 1 \notin ct.lb[3] .. ct.ub[3]) <=> Extending(ct, i)
           /\ Extending(ct, i) => /\ i - 1 - td.extension \in Nat /\ i - 1 - td.extension <= 63
                                  /\ (i - 1 - td.extension) + td.extension = i - 1
                                  /\ td.extension # -1 /\ ~(i - 1 >= Len(td.members))
           /\ ~ Extending(ct, i) => i - 1 < 2^ct.bits /\ ~(i - 1 > ct.ub[3])
<1>1. /\ ct.ext \in BOOLEAN /\ Extending(ct, i) \in BOOLEAN /\ (Extending(ct, i) => ct.ext)
    BY DEF ChoiceFits, Alternative, Extending
<1> DEFINE n == Len(td.members)
           u == ct.ub[3]
           e == td.extension
<1>6. n \in Nat /\ DOMAIN td.members = 1 .. n /\ u \in Nat /\ ct.lb[3] = 0 /\ (ct.ext => e = u + 1 /\ n - e <= 64)
    BY DEF ChoiceFits
<1>7. i \in 1 .. n
    BY DEF Alternative
<1>8. ct.bits \in Nat /\ ct.bits <= 31
    <2>1. ct.bits \in 0 .. 31
        BY DEF ChoiceFits
    <2> QED BY <2>1
<1>9. Extending(ct, i) <=> i - 1 > u
    BY DEF Extending
<1> HIDE DEF n, u, e
<1>10. i \in Nat /\ i - 1 \in Nat /\ i - 1 + 1 = i
    BY <1>6, <1>7
<1>2. i \in DOMAIN td.members /\ i - 1 \in Nat /\ i - 1 + 1 = i /\ ct.bits \in Nat /\ ct.bits <= 31
    BY <1>6, <1>7, <1>8, <1>10
<1>3. (i - 1 \notin ct.lb[3] .. ct.ub[3]) <=> Extending(ct, i)
    BY <1>6, <1>9, <1>10 DEF u
<1>4. ASSUME Extending(ct, i)
      PROVE  /\ i - 1 - e \in Nat /\ i - 1 - e <= 63 /\ (i - 1 - e) + e = i - 1
             /\ e # -1 /\ ~(i - 1 >= n)
    <2>1. i - 1 > u /\ e = u + 1 /\ n - e <= 64
        BY <1>1, <1>4, <1>6, <1>9
    <2>2. i <= n
        BY <1>6, <1>7
    <2> QED BY <1>6, <1>10, <2>1, <2>2
<1>5. ~ Extending(ct, i) => i - 1 < 2^ct.bits /\ ~(i - 1 > ct.ub[3])
    <2>1. 2^ct.bits \in Nat
        BY <1>2, PowerPositive
    <2> QED BY <1>2, <2>1 DEF ChoiceFits, Extending
<1> QED BY <1>1, <1>2, <1>3, <1>4, <1>5 DEF n, e

\* The index, complete or cut.
LEMMA ReadIndex ==
    ASSUME NEW td, NEW ct, ChoiceFits(td, ct), NEW i, Alternative(td, ct, i)
    PROVE  LET r == IndexBits(td, ct, i)
               k == i - 1 - td.extension
           IN  /\ r \in Bits
               /\ Extending(ct, i) => \A a : uper_put_nsnnwn(Output(a), k) = Output(a \o r)
               /\ ~ Extending(ct, i) => \A a : asn_put_few_bits(Output(a), i - 1, ct.bits) = Output(a \o r)
               /\ \A pd \in Bits, pos \in Nat :
                     /\ At(pd, pos, r) =>
                           IF Extending(ct, i) THEN uper_get_nsnnwn(pd, pos) = <<k, pos + Len(r)>>
                           ELSE asn_get_few_bits(pd, pos, ct.bits) = i - 1 /\ ct.bits = Len(r)
                     /\ CutAt(pd, pos, r) =>
                           IF Extending(ct, i) THEN uper_get_nsnnwn(pd, pos)[1] = -1
                           ELSE asn_get_few_bits(pd, pos, ct.bits) = -1
<1> DEFINE r == IndexBits(td, ct, i)
           k == i - 1 - td.extension
<1>1. CASE Extending(ct, i)
    <2>1. k \in Nat /\ k <= 63
        BY <1>1, Alternatives
    <2>2. r = BitsOf(k, 7)
        BY <1>1 DEF IndexBits
    <2> HIDE DEF r, k
    <2>3. r \in Bits /\ Len(r) = 7 /\ \A a : uper_put_nsnnwn(Output(a), k) = Output(a \o r)
        <3>1. <<>> \in Bits /\ 0 \in Nat
            BY DEF Bits
        <3> QED BY <2>1, <2>2, <3>1, GetSmallNumber
    <2>4. ASSUME NEW pd \in Bits, NEW pos \in Nat
          PROVE  /\ At(pd, pos, r) => uper_get_nsnnwn(pd, pos) = <<k, pos + 7>>
                 /\ CutAt(pd, pos, r) => uper_get_nsnnwn(pd, pos)[1] = -1
        BY <2>1, <2>2, GetSmallNumber
    <2> QED BY <1>1, <2>3, <2>4 DEF r, k
<1>2. CASE ~ Extending(ct, i)
    <2> DEFINE w == ct.bits
               j == i - 1
    <2>1. j \in Nat /\ w \in Nat /\ w <= 31 /\ j < 2^w
        BY <1>2, Alternatives
    <2>2. r = BitsOf(j, w)
        BY <1>2 DEF IndexBits
    <2> HIDE DEF w, j
    <2>3. BitsOf(j, w) \in Bits /\ Len(BitsOf(j, w)) = w
        BY <2>1, BitsOfType
    <2>4. ASSUME NEW pd \in Bits, NEW pos \in Nat, At(pd, pos, BitsOf(j, w))
          PROVE  asn_get_few_bits(pd, pos, w) = j
        BY <2>1, <2>4, GetFewBits
    <2> HIDE DEF r
    <2>5. ASSUME NEW pd \in Bits, NEW pos \in Nat, CutAt(pd, pos, r)
          PROVE  asn_get_few_bits(pd, pos, w) = -1
        BY <2>2, <2>3, <2>5, GetCut
    <2>6. \A a : asn_put_few_bits(Output(a), j, w) = Output(a \o r)
        BY <2>2, PutFewBits
    <2> QED BY <1>2, <2>2, <2>3, <2>4, <2>5, <2>6 DEF r, w, j
<1>3. Extending(ct, i) \in BOOLEAN
    BY Alternatives
<1> QED BY <1>1, <1>2, <1>3

(***************************************************************************)
(* constr_CHOICE.c: whatever the alternatives, if the codec of the one     *)
(* that is present returns its value, so does the codec of the CHOICE, in  *)
(* the root and behind it, together with the number of the alternative;    *)
(* and a CHOICE that is cut is noticed.                                    *)
(***************************************************************************)
THEOREM ChoiceRoundTrip ==
    ASSUME NEW CONSTANT Enc(_, _, _, _), NEW CONSTANT Dec(_, _, _, _), NEW td, NEW per,
           ChoiceFits(td, ValueConstraint(td, per)), NEW i, Alternative(td, ValueConstraint(td, per), i),
           NEW v, NEW used, NEW x \in Bits,
           Extending(ValueConstraint(td, per), i) => IsLength(OpenSize(x)),
           \A a \in Bits : Enc(td.members[i].type, td.members[i].per, v, Output(a)) = Output(a \o x),
           \A pd \in Bits, pos \in Nat :
               Reads(Dec(td.members[i].type, td.members[i].per, pd, pos), pd, pos, v, x, used)
    PROVE  LET y == ChoiceBits(td, ValueConstraint(td, per), i, x)
           IN  /\ y \in Bits
               /\ \A a \in Bits : ChoiceEncode(Enc, td, per, <<i, v>>, Output(a)) = Output(a \o y)
               /\ \A pd \in Bits, pos \in Nat :
                      Reads(ChoiceDecode(Dec, td, per, pd, pos), pd, pos, <<i, v>>, y, used)
<1> DEFINE ct == ValueConstraint(td, per)
           out == Extending(ct, i)
           m == MarkBits(ct, out)
           r == IndexBits(td, ct, i)
           w == ContentBits(ct, i, x)
           t == td.members[i].type
           p == td.members[i].per
           k == i - 1 - td.extension
<1>1. ChoiceFits(td, ct) /\ Alternative(td, ct, i)
    OBVIOUS
<1>2. ChoiceBits(td, ct, i, x) = m \o (r \o w)
    BY DEF ChoiceBits
<1> HIDE DEF ct
<1>3. /\ ct.ext \in BOOLEAN /\ out \in BOOLEAN /\ (out => ct.ext)
      /\ i \in DOMAIN td.members /\ i - 1 \in Nat /\ i - 1 + 1 = i /\ ct.bits \in Nat
      /\ (i - 1 \notin ct.lb[3] .. ct.ub[3]) <=> out
      /\ out => k \in Nat /\ k + td.extension = i - 1 /\ td.extension # -1 /\ ~(i - 1 >= Len(td.members))
      /\ ~ out => ~(i - 1 > ct.ub[3])
    BY <1>1, Alternatives
<1>4. m \in Bits /\ \A a \in Bits : PutMark(ct, out, Output(a)) = Output(a \o m)
    <2>1. <<>> \in Bits
        BY DEF Bits
    <2> HIDE DEF out
    <2> QED BY <1>3, <2>1, PutMarkBits
<1>5. /\ r \in Bits
      /\ out => \A a : uper_put_nsnnwn(Output(a), k) = Output(a \o r)
      /\ ~ out => \A a : asn_put_few_bits(Output(a), i - 1, ct.bits) = Output(a \o r)
    BY <1>1, ReadIndex
<1>6. ASSUME NEW pd \in Bits, NEW pos \in Nat
      PROVE  /\ At(pd, pos, r) => IF out THEN uper_get_nsnnwn(pd, pos) = <<k, pos + Len(r)>>
                                  ELSE asn_get_few_bits(pd, pos, ct.bits) = i - 1 /\ ct.bits = Len(r)
             /\ CutAt(pd, pos, r) => IF out THEN uper_get_nsnnwn(pd, pos)[1] = -1
                                     ELSE asn_get_few_bits(pd, pos, ct.bits) = -1
    BY <1>1, ReadIndex
<1>7. w = IF out THEN OpenBits(x) ELSE x
    BY DEF ContentBits
<1>8. out => IsLength(OpenSize(x))
    BY DEF ct
<1>9. w \in Bits
    BY <1>3, <1>7, <1>8, OpenOctets
<1>10. ASSUME NEW pd \in Bits, NEW pos \in Nat
       PROVE  /\ At(pd, pos, m) => ExtensionMark(ct, pd, pos) = Marked(out) /\ AfterMark(ct, pos) = pos + Len(m)
              /\ CutAt(pd, pos, m) => ExtensionMark(ct, pd, pos) = -1
    <2> HIDE DEF out
    <2> QED BY <1>3, GetMarkBits
<1> HIDE DEF out, m, r, w
<1>11. Enc(t, p, v, NoOutput) = Output(x)
    <2>1. <<>> \in Bits /\ <<>> \o x = x
        BY ConcatEmptySeq DEF Bits
    <2>2. NoOutput = Output(<<>>)
        BY DEF NoOutput, Output
    <2> QED BY <2>1, <2>2
<1>12. ASSUME NEW a \in Bits
       PROVE  ChoiceEncode(Enc, td, per, <<i, v>>, Output(a)) = Output(a \o (m \o (r \o w)))
    <2> DEFINE b == a \o m
               c == b \o r
               beyond == ct.bits >= 0 /\ i - 1 \notin ct.lb[3] .. ct.ub[3]
               po == PutMark(ct, beyond, Output(a))
               er == ChoiceEncode(Enc, td, per, <<i, v>>, Output(a))
    <2>7. beyond = out
        <3>1. beyond <=> out
            BY <1>3
        <3> HIDE DEF beyond
        <3>2. beyond \in BOOLEAN
            BY DEF beyond
        <3> QED BY <1>3, <3>1, <3>2
    <2>8. ~ (i \notin DOMAIN td.members \/ (beyond /\ ~ct.ext)) =>
             /\ ct.bits >= 0 /\ ~beyond => er = Enc(t, p, v, asn_put_few_bits(po, i - 1, ct.bits))
             /\ beyond /\ td.extension # -1 =>
                    er = OpenTypePut(Enc, t, p, v, uper_put_nsnnwn(po, k))
        <3>1. <<i, v>>[1] = i /\ <<i, v>>[2] = v
            OBVIOUS
        <3> QED BY <3>1 DEF ChoiceEncode, OpenTypePut, uper_encode_to_new_buffer, ct
    <2>9. ~ (i \notin DOMAIN td.members \/ (beyond /\ ~ct.ext)) /\ ct.bits >= 0
        BY <1>3, <2>7
    <2>10. po = PutMark(ct, out, Output(a))
        BY <2>7
    <2> HIDE DEF beyond, po, er
    <2>1. b \in Bits
        BY <1>4, BitsConcat
    <2>2. PutMark(ct, out, Output(a)) = Output(b)
        BY <1>4
    <2>3. c \o w = a \o (m \o (r \o w)) /\ Pieces(a, m, r, w)
        BY <1>4, <1>5, <1>9, FourPieces DEF Pieces
    <2> HIDE DEF b
    <2>4. c \in Bits
        BY <1>5, <2>1, BitsConcat
    <2> HIDE DEF c
    <2>5. CASE out
        <3>1. uper_put_nsnnwn(Output(b), k) = Output(c)
            BY <1>5, <2>5 DEF c
        <3> DEFINE ea == Enc(t, p, v, NoOutput)
        <3>2. OpenPut(ea, Output(c)) = Output(c \o w)
            BY <1>7, <1>8, <1>11, <2>4, <2>5, OpenPutBits
        <3>3. OpenTypePut(Enc, t, p, v, Output(c)) = OpenPut(ea, Output(c))
            BY DEF OpenTypePut, uper_encode_to_new_buffer, OpenPut, Filled
        <3>4. er = OpenTypePut(Enc, t, p, v, Output(c))
            BY <1>3, <2>2, <2>5, <2>7, <2>8, <2>9, <2>10, <3>1
        <3> QED BY <2>3, <3>2, <3>3, <3>4 DEF er
    <2>6. CASE ~ out
        <3>1. asn_put_few_bits(Output(b), i - 1, ct.bits) = Output(c)
            BY <1>5, <2>6 DEF c
        <3>2. er = Enc(t, p, v, Output(c))
            BY <2>2, <2>6, <2>7, <2>8, <2>9, <2>10, <3>1
        <3>3. Enc(t, p, v, Output(c)) = Output(c \o x)
            BY <2>4
        <3> QED BY <1>7, <2>3, <2>6, <3>2, <3>3 DEF er
    <2> QED BY <1>3, <2>5, <2>6
<1>13. ASSUME NEW pd \in Bits, NEW pos \in Nat
       PROVE  Reads(ChoiceDecode(Dec, td, per, pd, pos), pd, pos, <<i, v>>, m \o (r \o w), used)
    <2> DEFINE q == pos + Len(m)
               s == pos + Len(m) + Len(r)
               answer == ChoiceDecode(Dec, td, per, pd, pos)
               rv == IF out THEN OpenTypeGet(Dec, t, p, pd, s) ELSE Dec(t, p, pd, s)
    <2>1. q \in Nat /\ s \in Nat /\ s = q + Len(r)
        BY <1>4, <1>5, BitsParts
    <2>2. Reads(rv, pd, s, v, w, used)
        <3>1. CASE out
            <4> DEFINE ra == Dec(t, p, OpenBuffer(pd, s), 0)
            <4>1. Filled(x) \in Bits /\ At(Filled(x), 0, x) /\ 0 + Len(x) = Len(x)
                BY FilledUp, BitsParts
            <4>2. OpenBuffer(pd, s) = Filled(x) => ra = Decoded(v, Len(x), used)
                BY <4>1 DEF Reads
            <4>3. OpenTypeGet(Dec, t, p, pd, s) = OpenGet(ra, pd, s)
                BY DEF OpenTypeGet, OpenGet, OpenLength, OpenBuffer
            <4> HIDE DEF ra, s
            <4>4. Reads(OpenGet(ra, pd, s), pd, s, v, OpenBits(x), used)
                BY <1>8, <2>1, <3>1, <4>2, OpenGetBits
            <4>5. rv = OpenGet(ra, pd, s)
                BY <3>1, <4>3
            <4> HIDE DEF rv
            <4> QED BY <1>7, <3>1, <4>4, <4>5
        <3>2. CASE ~ out
            <4> HIDE DEF s
            <4>1. rv = Dec(t, p, pd, s)
                BY <3>2
            <4> QED BY <1>7, <2>1, <3>2, <4>1
        <3> QED BY <1>3, <3>1, <3>2
    <2> HIDE DEF rv
    <2>3. Reads(Present(rv, i), pd, s, <<i, v>>, w, used)
        BY <2>2, PresentReads
    <2> DEFINE mark == ExtensionMark(ct, pd, pos)
               after == AfterMark(ct, pos)
               index == asn_get_few_bits(pd, after, ct.bits)
               ns == uper_get_nsnnwn(pd, after)
    <2> DEFINE root ==
                   IF index < 0 THEN ASN__DECODE_STARVED
                   ELSE IF index > ct.ub[3] THEN ASN__DECODE_FAILED
                   ELSE Present(Dec(td.members[index + 1].type, td.members[index + 1].per,
                                    pd, after + ct.bits), index + 1)
               added ==
                   IF ns[1] < 0 THEN ASN__DECODE_STARVED
                   ELSE IF ns[1] + td.extension >= Len(td.members) THEN ASN__DECODE_FAILED
                   ELSE Present(OpenTypeGet(Dec, td.members[ns[1] + td.extension + 1].type,
                                                   td.members[ns[1] + td.extension + 1].per, pd, ns[2]),
                                ns[1] + td.extension + 1)
    <2>0. ct.bits >= 0
        BY <1>3
    <2>7. /\ mark < 0 => answer = ASN__DECODE_STARVED
          /\ mark = 0 => answer = root
          /\ mark = 1 /\ td.extension # -1 => answer = added
        <3>1. mark < 0 => answer = ASN__DECODE_STARVED
            BY DEF ChoiceDecode, ct
        <3>2. mark = 0 => answer = root
            <4>1. mark = 0 => ~ (mark < 0)
                <5> HIDE DEF mark
                <5> QED OBVIOUS
            <4> QED BY <2>0, <4>1, Zenon DEF ChoiceDecode, Present, ct
        <3>3. mark = 1 /\ td.extension # -1 => answer = added
            BY DEF ChoiceDecode, Present, ct
        <3> QED BY <3>1, <3>2, <3>3
    <2>8. /\ At(pd, pos, m) => mark = Marked(out) /\ after = q
          /\ CutAt(pd, pos, m) => mark = -1
        BY <1>10
    <2>9. Marked(out) = IF out THEN 1 ELSE 0
        BY DEF Marked
    <2> HIDE DEF mark, answer
    <2>4. ASSUME At(pd, pos, m), At(pd, q, r) PROVE answer = Present(rv, i)
        <3>1. after = q /\ mark = IF out THEN 1 ELSE 0
            BY <2>4, <2>8, <2>9
        <3>2. CASE out
            <4>1. ns = <<k, s>>
                BY <1>6, <2>1, <2>4, <3>1, <3>2
            <4>2. ns[1] = k /\ ns[2] = s /\ ~ (k < 0) /\ k + td.extension + 1 = i
                BY <1>3, <3>2, <4>1
            <4> HIDE DEF ns, k
            <4>3. answer = Present(OpenTypeGet(Dec, t, p, pd, s), i)
                BY <1>3, <2>7, <3>1, <3>2, <4>2 DEF k
            <4> QED BY <3>2, <4>3 DEF rv
        <3>3. CASE ~ out
            <4>1. index = i - 1 /\ ct.bits = Len(r)
                BY <1>6, <2>1, <2>4, <3>1, <3>3
            <4>2. ~ (index < 0) /\ ~ (index > ct.ub[3]) /\ index + 1 = i /\ after + ct.bits = s
                BY <1>3, <2>1, <3>1, <3>3, <4>1
            <4> HIDE DEF index
            <4>3. answer = Present(Dec(t, p, pd, s), i)
                BY <2>7, <3>1, <3>3, <4>2
            <4> QED BY <3>3, <4>3 DEF rv
        <3> QED BY <1>3, <3>2, <3>3
    <2>5. ASSUME CutAt(pd, pos, m) PROVE answer = ASN__DECODE_STARVED
        BY <2>5, <2>7, <2>8
    <2>6. ASSUME At(pd, pos, m), CutAt(pd, q, r) PROVE answer = ASN__DECODE_STARVED
        <3>1. after = q /\ mark = IF out THEN 1 ELSE 0
            BY <2>6, <2>8, <2>9
        <3>2. CASE out
            BY <1>3, <1>6, <2>1, <2>6, <2>7, <3>1, <3>2
        <3>3. CASE ~ out
            BY <1>6, <2>1, <2>6, <2>7, <3>1, <3>3
        <3> QED BY <1>3, <3>2, <3>3
    <2> QED BY <1>4, <1>5, <1>9, <2>3, <2>4, <2>5, <2>6, ReadsBehind DEF answer
<1>14. m \o (r \o w) \in Bits
    BY <1>4, <1>5, <1>9, FourPieces DEF Pieces
<1> QED BY <1>2, <1>12, <1>13, <1>14 DEF ct

(***************************************************************************)
(* constr_CHOICE.c: whatever bits arrive and whatever the decoders of the  *)
(* alternatives accept, an accepted CHOICE is one of the alternatives, and *)
(* one behind the root only if the type can be extended.  In the root the  *)
(* code compares the index with the constraint's ub, not with the number   *)
(* of its members.                                                         *)
(***************************************************************************)
THEOREM ChoiceAccepted ==
    ASSUME NEW CONSTANT Dec(_, _, _, _), NEW td, NEW per, ChoiceFits(td, ValueConstraint(td, per)),
           NEW pd \in Bits, NEW pos \in Nat
    PROVE  LET rv == ChoiceDecode(Dec, td, per, pd, pos)
           IN  rv.rc = "OK" => Alternative(td, ValueConstraint(td, per), rv.val[1])
<1> DEFINE ct == ValueConstraint(td, per)
           rv == ChoiceDecode(Dec, td, per, pd, pos)
           mark == ExtensionMark(ct, pd, pos)
           after == AfterMark(ct, pos)
           index == asn_get_few_bits(pd, after, ct.bits)
           ns == uper_get_nsnnwn(pd, after)
           j == ns[1] + td.extension
           n == Len(td.members)
           u == ct.ub[3]
           inner == Dec(td.members[index + 1].type, td.members[index + 1].per, pd, after + ct.bits)
           outer == OpenTypeGet(Dec, td.members[j + 1].type, td.members[j + 1].per, pd, ns[2])
<1>1. rv = IF mark < 0 THEN ASN__DECODE_STARVED
           ELSE IF mark = 0 /\ ct.bits >= 0
           THEN IF index < 0 THEN ASN__DECODE_STARVED
                ELSE IF index > u THEN ASN__DECODE_FAILED
                ELSE Present(inner, index + 1)
           ELSE IF td.extension = -1 THEN ASN__DECODE_FAILED
           ELSE IF ns[1] < 0 THEN ASN__DECODE_STARVED
           ELSE IF j >= n THEN ASN__DECODE_FAILED
           ELSE Present(outer, j + 1)
    BY Zenon DEF ChoiceDecode, Present
<1> HIDE DEF rv, inner, outer
<1>2. ASN__DECODE_STARVED.rc # "OK" /\ ASN__DECODE_FAILED.rc # "OK"
    BY DEF ASN__DECODE_STARVED, ASN__DECODE_FAILED
<1>3. ASSUME NEW r, NEW i, Present(r, i).rc = "OK" PROVE Present(r, i).val[1] = i
    BY <1>3 DEF Present, Decoded
<1>4. n \in Nat /\ u \in Nat /\ u < n /\ (ct.ext => td.extension = u + 1) /\ (~ct.ext => td.extension = -1)
    BY DEF ChoiceFits
<1>5. ct.bits \in Nat /\ ct.bits <= 31 /\ ct.bits >= 0
    <2>1. ct.bits \in 0 .. 31
        BY DEF ChoiceFits
    <2> QED BY <2>1
<1>6. after \in Nat
    BY DEF AfterMark
<1> HIDE DEF ct, mark, after, n, u
<1>7. index \in Int /\ ns[1] \in Int
    <2>1. index \in Int
        BY <1>5, <1>6, FewBitsType
    <2>2. ns[1] \in Int
        BY <1>6, SmallNumberType
    <2> QED BY <2>1, <2>2
<1> HIDE DEF index, ns
<1> SUFFICES ASSUME rv.rc = "OK" PROVE Alternative(td, ct, rv.val[1])
    BY DEF rv, ct
<1>8. CASE mark = 0
    <2>1. rv = Present(inner, index + 1) /\ ~ (index < 0) /\ ~ (index > u)
        BY <1>1, <1>2, <1>5, <1>8
    <2>2. rv.val[1] = index + 1
        BY <1>3, <2>1
    <2>3. index + 1 \in 1 .. n /\ ~ (index + 1 - 1 > u)
        BY <1>4, <1>7, <2>1
    <2>4. Alternative(td, ct, index + 1)
        <3>1. ~ Extending(ct, index + 1)
            BY <1>4, <1>7, <2>3 DEF Extending, u
        <3> QED BY <2>3, <3>1, Zenon DEF Alternative, n
    <2> QED BY <2>2, <2>4
<1>9. CASE mark # 0
    <2>1. rv = Present(outer, j + 1) /\ ~ (ns[1] < 0) /\ ~ (j >= n) /\ td.extension # -1
        BY <1>1, <1>2, <1>9
    <2>2. rv.val[1] = j + 1
        <3> HIDE DEF j
        <3> QED BY <1>3, <2>1
    <2>3. ct.ext /\ td.extension = u + 1
        BY <1>4, <2>1
    <2>4. j + 1 \in 1 .. n
        BY <1>4, <1>7, <2>1, <2>3
    <2> QED BY <2>2, <2>3, <2>4 DEF Alternative, n
<1> QED BY <1>8, <1>9
=============================================================================
