--------------------------- MODULE UperPrimitives ---------------------------
(***************************************************************************)
(* The unaligned PER codecs of the types without members, the padding of   *)
(* encodings that stand on their own, open types and CHOICE, from          *)
(* src/vanetza-extension/asn1/support.                                     *)
(*                                                                         *)
(* Values: a long (see PerSupport) for an INTEGER, the enumeration's index *)
(* for an ENUMERATED, 0 or 1 for a BOOLEAN, and a tuple of octets or of    *)
(* bits for a string, <<present, value>> for a CHOICE.                     *)
(***************************************************************************)
EXTENDS AsnDescriptors

(* asn_dec_rval_t, with the decoded value and the position after it.        *)
(* consumed matters to SET_OF_decode_uper only.                             *)
Decoded(val, pos, consumed) == [rc |-> "OK", val |-> val, pos |-> pos, consumed |-> consumed]
ASN__DECODE_STARVED == [rc |-> "WMORE", val |-> <<>>, pos |-> 0, consumed |-> 0]
ASN__DECODE_FAILED == [rc |-> "FAIL", val |-> <<>>, pos |-> 0, consumed |-> 0]

(* The bit in front of an extensible type: 1 outside the extension root, -1  *)
(* when it is missing.                                                       *)
ExtensionMark(ct, pd, pos) == IF ct.ext THEN asn_get_few_bits(pd, pos, 1) ELSE 0
AfterMark(ct, pos) == IF ct.ext THEN pos + 1 ELSE pos
PutMark(ct, inext, po) == IF ct.ext THEN asn_put_few_bits(po, IF inext THEN 1 ELSE 0, 1) ELSE po

(* The size of a string: a fixed one is not sent. *)
GetSize(csiz, pd, pos) ==
    IF csiz.bits = 0 THEN <<csiz.ub[3], pos>> ELSE uper_get_length(pd, pos, csiz.bits, csiz.lb[3])

-----------------------------------------------------------------------------
(***************************************************************************)
(* What the codec relies on in the generated constraints: the width holds  *)
(* the range, a size has a width of at most 16 bits (a larger one is sent  *)
(* as a length), at most 64 items were added to an enumeration, and the    *)
(* codes of the characters fit into unit_bits.                             *)
(***************************************************************************)
IntegerFits(ct) ==
    /\ ct.ext \in BOOLEAN /\ ct.semi \in BOOLEAN /\ ct.lb \in Longs /\ ct.ub \in Longs
    /\ ct.bits \in -1 .. 64
    /\ ct.bits >= 0 => ~ ct.semi /\ Less(Minus(ct.ub, ct.lb), PowerLong(ct.bits))

SizeFits(c) ==
    /\ c.ext \in BOOLEAN /\ c.bits \in -1 .. 16
    /\ c.bits >= 0 =>
         /\ c.lb[3] \in Nat /\ c.ub[3] \in Nat /\ c.lb[3] <= c.ub[3]
         /\ c.ub[3] - c.lb[3] < 2^c.bits

(* NativeEnumerated.c: the root ends where the extension begins. *)
EnumRoot(td) == IF td.extension # 0 THEN td.extension - 1 ELSE td.count

EnumFits(td, ct) ==
    /\ td.count \in Nat /\ td.extension \in Nat /\ td.extension <= td.count + 1
    /\ ct.ext \in BOOLEAN /\ ct.bits \in 0 .. 31 /\ EnumRoot(td) <= 2^ct.bits
    /\ td.count - EnumRoot(td) <= 64

(* OCTET_STRING.c: a character is sent as it is when all of them fit into    *)
(* unit_bits, by its place in the alphabet when there is a map, relative to  *)
(* lb otherwise.  Outside of the root it is sent as an octet.                *)
CharacterOffset(cval, unit_bits) == IF cval.ub[3] <= 2^unit_bits THEN 0 ELSE cval.lb[3]
Mapped(pc, unit_bits) == pc.value.ub[3] > 2^unit_bits /\ pc.alphabet # <<>>
Copied(pc, u) == CharacterOffset(pc.value, u) = 0 /\ u = 8
UnitBits(pc) == IF pc.value.con THEN pc.value.bits ELSE 8

CharactersFit(pc, u) ==
    /\ u \in 1 .. 31 /\ pc.value.lb[3] \in Nat /\ pc.value.ub[3] \in Nat
    /\ IF Mapped(pc, u) THEN DOMAIN pc.alphabet = 1 .. Len(pc.alphabet) /\ Len(pc.alphabet) \in 0 .. 2^u
       ELSE Copied(pc, u) \/ pc.value.ub[3] - CharacterOffset(pc.value, u) < 2^u

StringFits(pc) == SizeFits(pc.size) /\ CharactersFit(pc, UnitBits(pc)) /\ CharactersFit(pc, 8)

(* constr_CHOICE.c: the alternatives up to ub are the root, what was added   *)
(* follows them.                                                             *)
ChoiceFits(td, ct) ==
    /\ DOMAIN td.members = 1 .. Len(td.members) /\ Len(td.members) \in Nat
    /\ ct.ext \in BOOLEAN /\ ct.bits \in 0 .. 31
    /\ ct.lb[3] = 0 /\ ct.ub[3] \in Nat /\ ct.ub[3] < 2^ct.bits /\ ct.ub[3] < Len(td.members)
    /\ ct.ext => td.extension = ct.ub[3] + 1 /\ Len(td.members) - td.extension <= 64
    /\ ~ct.ext => td.extension = -1

Fits(td, per) ==
    CASE td.op = "INTEGER" -> IntegerFits(ValueConstraint(td, per))
      [] td.op = "ENUMERATED" -> EnumFits(td, ValueConstraint(td, per))
      [] td.op = "CHOICE" -> ChoiceFits(td, ValueConstraint(td, per))
      [] td.op = "BIT_STRING" -> SizeFits(SizeConstraint(td, per))
      [] td.op = "OCTET_STRING" -> StringFits(StringConstraints(td, per))
      [] OTHER -> TRUE

-----------------------------------------------------------------------------
(* INTEGER.c, NativeInteger.c *)

INTEGER_decode_uper(td, per, pd, pos0) ==
    LET native(bits) == IF td.unsigned THEN asn_INTEGER2umax(bits) ELSE asn_INTEGER2imax(bits)
        value(long, lb, after) ==
            IF long = <<>> THEN ASN__DECODE_FAILED ELSE Decoded(Plus(long[1], lb), after, 0)
        constrained(ct, raw, after) ==
            IF Starving(raw) THEN ASN__DECODE_STARVED
            ELSE IF td.unsigned THEN Decoded(Plus(LongOf(raw), ct.lb), after, 0)
            ELSE value(per_long_range_unrebase(LongOf(raw), ct.lb, ct.ub), Long(0), after)
        contents(ct, octets, after) ==
            IF Starving(octets) THEN ASN__DECODE_STARVED
            ELSE value(native(IF ct.semi THEN BitsOf(0, 8) \o octets ELSE octets), ct.lb, after)
        general(ct, len) ==
            IF len[1] < 0 THEN ASN__DECODE_STARVED
            ELSE contents(ct, asn_get_many_bits(pd, len[2], 8 * len[1]), len[2] + 8 * len[1])
        marked(ct, inext, pos) ==
            IF inext < 0 THEN ASN__DECODE_STARVED
            ELSE IF inext = 0 /\ ct.bits >= 0
            THEN constrained(ct, uper_get_constrained_whole_number(pd, pos, ct.bits), pos + ct.bits)
            ELSE general(IF inext = 1 THEN Unconstrained ELSE ct, uper_get_length(pd, pos, -1, 0))
        from(ct) == marked(ct, ExtensionMark(ct, pd, pos0), AfterMark(ct, pos0))
    IN  from(ValueConstraint(td, per))

INTEGER_encode_uper(td, per, v, po0) ==
    LET beyond(ct) == \/ ct.semi /\ Less(v, ct.lb)
                      \/ ct.bits >= 0 /\ ~Within(ct.lb, v, ct.ub)
        contents(po, octets) == asn_put_many_bits(uper_put_length(po, Len(octets) \div 8), octets)
        marked(ct, po) ==
            IF ct.bits >= 0
            THEN uper_put_constrained_whole_number_u(
                     po, per_long_range_rebase(v, ct.lb, ct.ub)[1], ct.bits)
            ELSE IF ct.lb # Long(0) THEN EncodeFailed
            ELSE contents(po, asn_imax2INTEGER(v))
        from(ct, inext) ==
            IF inext /\ ~ct.ext THEN EncodeFailed
            ELSE marked(IF inext THEN Unconstrained ELSE ct, PutMark(ct, inext, po0))
        into(ct) == from(ct, beyond(ct))
    IN  into(ValueConstraint(td, per))

-----------------------------------------------------------------------------
(* NativeEnumerated.c: value2enum lists 0 .. count - 1 in order, so that the *)
(* position in the map is the value.                                         *)
NativeEnumerated_decode_uper(td, per, pd, pos0) ==
    LET root(value, after) ==
            IF value < 0 THEN ASN__DECODE_STARVED
            ELSE IF value >= EnumRoot(td) THEN ASN__DECODE_FAILED
            ELSE Decoded(value, after, 0)
        added(ns) ==
            IF ns[1] < 0 THEN ASN__DECODE_STARVED
            ELSE IF ns[1] + td.extension - 1 >= td.count THEN ASN__DECODE_FAILED
            ELSE Decoded(ns[1] + td.extension - 1, ns[2], 0)
        marked(ct, inext, pos) ==
            IF inext < 0 THEN ASN__DECODE_STARVED
            ELSE IF inext = 0 /\ ct.bits >= 0
            THEN root(asn_get_few_bits(pd, pos, ct.bits), pos + ct.bits)
            ELSE IF td.extension = 0 THEN ASN__DECODE_FAILED
            ELSE added(uper_get_nsnnwn(pd, pos))
        from(ct) == marked(ct, ExtensionMark(ct, pd, pos0), AfterMark(ct, pos0))
    IN  from(ValueConstraint(td, per))

NativeEnumerated_encode_uper(td, per, v, po0) ==
    LET ct == ValueConstraint(td, per)
        inext == ct.bits >= 0 /\ v >= EnumRoot(td)
        po == PutMark(ct, inext, po0)
    IN  IF v \notin 0 .. td.count - 1 \/ (inext /\ ~ct.ext) THEN EncodeFailed
        ELSE IF ~inext /\ ct.bits >= 0 THEN asn_put_few_bits(po, v, ct.bits)
        ELSE IF td.extension = 0 THEN EncodeFailed
        ELSE uper_put_nsnnwn(po, v - (IF inext THEN td.extension - 1 ELSE 0))

(* BOOLEAN.c *)
BOOLEAN_decode_uper(pd, pos) ==
    LET b == asn_get_few_bits(pd, pos, 1)
    IN  IF b < 0 THEN ASN__DECODE_STARVED ELSE Decoded(b, pos + 1, 1)

BOOLEAN_encode_uper(v, po) == asn_put_few_bits(po, IF v # 0 THEN 1 ELSE 0, 1)

-----------------------------------------------------------------------------
(* OCTET_STRING.c, also the IA5String, UTF8String and NumericString.         *)

(* units characters: <<>> and -1 when starved, <<>> and 1 on a fatal code. *)
OCTET_STRING_per_get_characters(pd, pos, units, unit_bits, pc) ==
    LET bits == asn_get_many_bits(pd, pos, units * unit_bits)
        lb == CharacterOffset(pc.value, unit_bits)
        code(i) == NumberOf(SubSeq(bits, (i - 1) * unit_bits + 1, i * unit_bits))
        legal(i) == IF Mapped(pc, unit_bits) THEN code(i) < Len(pc.alphabet)
                                             ELSE Copied(pc, unit_bits) \/ code(i) + lb <= pc.value.ub[3]
        char(i) == IF Mapped(pc, unit_bits) THEN pc.alphabet[code(i) + 1] ELSE code(i) + lb
    IN  IF Starving(bits) THEN [ret |-> -1, chars |-> <<>>]
        ELSE IF \E i \in 1 .. units : ~legal(i) THEN [ret |-> 1, chars |-> <<>>]
        ELSE [ret |-> 0, chars |-> SubSeq([i \in 1 .. units |-> char(i)], 1, units)]

(* The code under which a character is sent, negative when it has none. *)
CharacterCode(c, unit_bits, pc) ==
    LET codes == {i \in DOMAIN pc.alphabet : pc.alphabet[i] = c}
    IN  IF Mapped(pc, unit_bits)
        THEN IF codes = {} THEN -1 ELSE (CHOOSE i \in codes : TRUE) - 1
        ELSE c - CharacterOffset(pc.value, unit_bits)

OCTET_STRING_per_put_characters(po, chars, unit_bits, pc) ==
    LET lb == CharacterOffset(pc.value, unit_bits)
        code(i) == CharacterCode(chars[i], unit_bits, pc)
        legal(i) == code(i) >= 0 /\ (Copied(pc, unit_bits) \/ Mapped(pc, unit_bits) \/ code(i) <= pc.value.ub[3] - lb)
        bit(j) == BitsOf(code(j \div unit_bits + 1), unit_bits)[(j % unit_bits) + 1]
    IN  IF \E i \in 1 .. Len(chars) : ~legal(i) THEN EncodeFailed
        ELSE asn_put_many_bits(po, [j \in 1 .. Len(chars) * unit_bits |-> bit(j - 1)])

OCTET_STRING_decode_uper(td, per, pd, pos0) ==
    LET got(chars, len, csiz, unit_bits) ==
            IF chars.ret > 0 THEN ASN__DECODE_FAILED
            ELSE IF chars.ret < 0 THEN ASN__DECODE_STARVED
            ELSE Decoded(chars.chars, len[2] + len[1] * unit_bits,
                         IF csiz.bits = 0 THEN len[1] * unit_bits ELSE 0)
        units(pc, len, csiz, unit_bits) ==
            IF len[1] < 0 THEN ASN__DECODE_STARVED
            ELSE got(OCTET_STRING_per_get_characters(pd, len[2], len[1], unit_bits, pc),
                     len, csiz, unit_bits)
        sized(pc, csiz, unit_bits, pos) == units(pc, GetSize(csiz, pd, pos), csiz, unit_bits)
        marked(pc, inext, pos) ==
            IF inext < 0 THEN ASN__DECODE_STARVED
            ELSE sized(pc, IF inext = 1 THEN SemiConstrained ELSE pc.size,
                       IF inext = 1 THEN 8 ELSE UnitBits(pc), pos)
        from(pc) == marked(pc, ExtensionMark(pc.size, pd, pos0), AfterMark(pc.size, pos0))
    IN  from(StringConstraints(td, per))

OCTET_STRING_encode_uper(td, per, v, po0) ==
    LET put(pc, outside, po) ==
            OCTET_STRING_per_put_characters(
                IF pc.size.bits >= 0 /\ ~outside
                THEN asn_put_few_bits(po, Len(v) - pc.size.lb[3], pc.size.bits)
                ELSE uper_put_length(po, Len(v)),
                v, IF outside THEN 8 ELSE UnitBits(pc), pc)
        marked(pc, outside) ==
            IF outside /\ ~pc.size.ext THEN EncodeFailed
            ELSE put(pc, outside, PutMark(pc.size, outside, po0))
        from(pc) == marked(pc, pc.size.bits >= 0 /\ Len(v) \notin pc.size.lb[3] .. pc.size.ub[3])
    IN  from(StringConstraints(td, per))

-----------------------------------------------------------------------------
(* BIT_STRING.c *)

BIT_STRING_decode_uper(td, per, pd, pos0) ==
    LET got(bits, len, csiz) ==
            IF len[1] < 0 \/ Starving(bits) THEN ASN__DECODE_STARVED
            ELSE Decoded(bits, len[2] + len[1], IF csiz.bits = 0 THEN len[1] ELSE 0)
        sized(csiz, len) == got(asn_get_many_bits(pd, len[2], len[1]), len, csiz)
        within(csiz, pos) == sized(csiz, GetSize(csiz, pd, pos))
        marked(ct, inext, pos) ==
            IF inext < 0 THEN ASN__DECODE_STARVED
            ELSE within(IF inext = 1 THEN SemiConstrained ELSE ct, pos)
        from(ct) == marked(ct, ExtensionMark(ct, pd, pos0), AfterMark(ct, pos0))
    IN  from(SizeConstraint(td, per))

(* Without the trailing zero bits. *)
BIT_STRING__compactify(bits) ==
    LET ones == {i \in DOMAIN bits : bits[i] = 1}
    IN  IF ones = {} THEN <<>>
        ELSE SubSeq(bits, 1, CHOOSE i \in ones : \A j \in ones : j <= i)

(* WRONG variant: what BIT_STRING__compactify removed is not put back *)
BIT_STRING_encode_uper_compact(td, per, v, po0) ==
    LET ct == SizeConstraint(td, per)
        st == BIT_STRING__compactify(v)
    IN  IF ct.bits < 0 THEN asn_put_many_bits(uper_put_length(po0, Len(st)), st)
        ELSE asn_put_many_bits(asn_put_few_bits(po0, Len(st) - ct.lb[3], ct.bits), st)

BIT_STRING_encode_uper(td, per, v, po0) ==
    LET ct == SizeConstraint(td, per)
        st == BIT_STRING__compactify(v)
        outside == ct.bits >= 0 /\ Len(st) > ct.ub[3]
        po == PutMark(ct, outside, po0)
        missing == IF Len(st) < ct.lb[3] THEN ct.lb[3] - Len(st) ELSE 0
    IN  IF outside /\ ~ct.ext THEN EncodeFailed
        ELSE IF ct.bits >= 0 /\ ~outside
        THEN asn_put_many_bits(
                 asn_put_few_bits(po, Len(st) + missing - ct.lb[3], ct.bits),
                 st \o [i \in 1 .. missing |-> 0])
        ELSE asn_put_many_bits(uper_put_length(po, Len(st)), st)

-----------------------------------------------------------------------------
(* per_opentype.c and per_encoder.c: padding to whole octets. *)

(* WRONG variant: the last octet is left as it is *)
_uper_encode_flush_outp_unfilled(bits) == bits

(* _uper_encode_flush_outp: the last octet is filled with zero bits. *)
_uper_encode_flush_outp(bits) == bits \o [i \in 1 .. (8 - (Len(bits) % 8)) % 8 |-> 0]

(* What the decoder of the contents leaves must be zero bits, fewer than     *)
(* eight, or the single zero octet of an empty encoding.                     *)
PaddingValid(buf, used) ==
    /\ Len(buf) - used < 8 \/ (used = 0 /\ Len(buf) = 8)
    /\ \A i \in used + 1 .. Len(buf) : buf[i] = 0

-----------------------------------------------------------------------------
(* per_opentype.c: a value encoded on its own, with its length in octets.    *)
(* Open types and CHOICE take the codec of the type that they hold,          *)
(* td->op->uper_encoder or uper_decoder, as an argument; UperCodec gives     *)
(* them its own.                                                             *)

(* uper_encode_to_new_buffer, from what the encoder wrote: no bits at all    *)
(* become one zero octet.                                                    *)
uper_encode_to_new_buffer(er) ==
    IF ~er.ok THEN er
    ELSE [ok |-> TRUE, bits |-> IF er.bits = <<>> THEN BitsOf(0, 8) ELSE _uper_encode_flush_outp(er.bits)]

(* uper_open_type_put *)
OpenTypePut(encoder(_, _, _, _), t, per, v, po) ==
    LET put(buf) ==
            IF ~buf.ok THEN EncodeFailed
            ELSE asn_put_many_bits(uper_put_length(po, Len(buf.bits) \div 8), buf.bits)
    IN  put(uper_encode_to_new_buffer(encoder(t, per, v, NoOutput)))

(* uper_open_type_get *)
OpenTypeGet(decoder(_, _, _, _), t, per, pd, pos) ==
    LET value(rv, buf, after) ==
            IF rv.rc # "OK" \/ ~PaddingValid(buf, rv.pos) THEN ASN__DECODE_FAILED
            ELSE Decoded(rv.val, after, rv.consumed)
        contents(buf, after) ==
            IF Starving(buf) THEN ASN__DECODE_STARVED
            ELSE value(decoder(t, per, buf, 0), buf, after)
        sized(len) ==
            IF len[1] < 0 THEN ASN__DECODE_STARVED
            ELSE contents(asn_get_many_bits(pd, len[2], 8 * len[1]), len[2] + 8 * len[1])
    IN  sized(uper_get_length(pd, pos, -1, 0))

(* The decoder of an unknown extension takes 24 bits at a time. *)
uper_sot_suck(buf) == Decoded(<<>>, Len(buf) - (Len(buf) % 24), 0)

(* The position after the extension, -1 if it was not skipped. *)
uper_open_type_skip(pd, pos) ==
    LET contents(buf, after) ==
            IF Starving(buf) \/ ~PaddingValid(buf, uper_sot_suck(buf).pos) THEN -1 ELSE after
        sized(len) ==
            IF len[1] < 0 THEN -1
            ELSE contents(asn_get_many_bits(pd, len[2], 8 * len[1]), len[2] + 8 * len[1])
    IN  sized(uper_get_length(pd, pos, -1, 0))

-----------------------------------------------------------------------------
(* constr_CHOICE.c.  No generated CHOICE has a canonical order of its own.   *)

(* CHOICE_decode_uper *)
ChoiceDecode(decoder(_, _, _, _), td, per, pd, pos0) ==
    LET present(rv, index) == IF rv.rc # "OK" THEN rv ELSE Decoded(<<index + 1, rv.val>>, rv.pos, rv.consumed)
        root(index, ct, after) ==
            IF index < 0 THEN ASN__DECODE_STARVED
            ELSE IF index > ct.ub[3] THEN ASN__DECODE_FAILED
            ELSE present(decoder(td.members[index + 1].type, td.members[index + 1].per, pd, after),
                         index)
        added(ns, index) ==
            IF ns[1] < 0 THEN ASN__DECODE_STARVED
            ELSE IF index >= Len(td.members) THEN ASN__DECODE_FAILED
            ELSE present(OpenTypeGet(decoder, td.members[index + 1].type, td.members[index + 1].per,
                                pd, ns[2]), index)
        extension(ns) == added(ns, ns[1] + td.extension)
        marked(ct, inext, pos) ==
            IF inext < 0 THEN ASN__DECODE_STARVED
            ELSE IF inext = 0 /\ ct.bits >= 0
            THEN root(asn_get_few_bits(pd, pos, ct.bits), ct, pos + ct.bits)
            ELSE IF td.extension = -1 THEN ASN__DECODE_FAILED
            ELSE extension(uper_get_nsnnwn(pd, pos))
        from(ct) == marked(ct, ExtensionMark(ct, pd, pos0), AfterMark(ct, pos0))
    IN  from(ValueConstraint(td, per))

(* CHOICE_encode_uper *)
ChoiceEncode(encoder(_, _, _, _), td, per, st, po0) ==
    LET ct == ValueConstraint(td, per)
        present == st[1] - 1
        elm == td.members[st[1]]
        outside == ct.bits >= 0 /\ present \notin ct.lb[3] .. ct.ub[3]
        po == PutMark(ct, outside, po0)
    IN  IF st[1] \notin DOMAIN td.members \/ (outside /\ ~ct.ext) THEN EncodeFailed
        ELSE IF ct.bits >= 0 /\ ~outside
        THEN encoder(elm.type, elm.per, st[2], asn_put_few_bits(po, present, ct.bits))
        ELSE IF td.extension = -1 THEN EncodeFailed
        ELSE OpenTypePut(encoder, elm.type, elm.per, st[2],
                         uper_put_nsnnwn(po, present - td.extension))
=============================================================================
