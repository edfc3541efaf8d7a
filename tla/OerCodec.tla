------------------------------ MODULE OerCodec ------------------------------
(***************************************************************************)
(* The OER codec of src/vanetza-extension/asn1/support, driven by the same *)
(* descriptors as the PER codec and with the same values.  A stream is a   *)
(* tuple of bits whose length, and every position in it, is a multiple of  *)
(* eight.  The decoders here start with an empty structure; what they do   *)
(* to one that was decoded into before is in OerWrapper.                   *)
(***************************************************************************)
EXTENDS UperCodec

-----------------------------------------------------------------------------
(* oer_support.c *)

(* <<length, position after it>>; -1 when more data are expected, -2 when    *)
(* the length cannot be represented (here: when it exceeds MAX_OCTETS, which *)
(* the code finds out by comparing it with the size of the buffer).          *)
FATAL == -2

OctetsValue(pd, pos, octets) ==
    LET bits == SubSeq(pd, pos + 1, pos + 8 * octets)
        first == IF Len(bits) > 64 THEN SubSeq(bits, 1, Len(bits) - 64) ELSE <<>>
        long == LongOf(SubSeq(bits, Len(first) + 1, Len(bits)))
    IN  IF \E i \in DOMAIN first : first[i] = 1 THEN FATAL
        ELSE IF long[1] >= 32768 THEN FATAL          \* RSIZE_MAX
        ELSE IF Less(Long(MAX_OCTETS), long) THEN MAX_OCTETS
        ELSE long[3]

oer_fetch_length(pd, pos) ==
    LET first == asn_get_few_bits(pd, pos, 8)
        len_len == first - 128
    IN  IF first < 0 THEN <<-1, pos>>
        ELSE IF first < 128 THEN <<first, pos + 8>>
        ELSE IF pos + 8 + 8 * len_len > Len(pd) THEN <<-1, pos>>
        ELSE <<OctetsValue(pd, pos + 8, len_len), pos + 8 + 8 * len_len>>

MinimalOctets(n) == IF n < 256 THEN 1 ELSE IF n < 65536 THEN 2 ELSE 3

oer_serialize_length(po, length) ==
    LET octets == MinimalOctets(length)
    IN  IF length <= 127 THEN asn_put_few_bits(po, length, 8)
        ELSE asn_put_few_bits(asn_put_few_bits(po, 128 + octets, 8), length, 8 * octets)

(* A length determinant that could not be read. *)
NoLength(len) == IF len[1] = FATAL THEN ASN__DECODE_FAILED ELSE ASN__DECODE_STARVED

RECURSIVE oer_encoder(_, _, _, _), oer_decoder(_, _, _, _)

-----------------------------------------------------------------------------
(* INTEGER_oer.c, NativeInteger_oer.c.  An INTEGER_t keeps the octets (here   *)
(* the number they stand for: every INTEGER_t with OER is positive and of    *)
(* eight octets), a native integer is a long.                                *)
IsUnsigned(td) == td.unsigned \/ ~td.native

(* WRONG variant: the first bit of a positive number is taken for its sign *)
PositiveContents_signed(ct, octets) == octets

(* A zero octet goes in front of a positive number that starts with a one. *)
PositiveContents(ct, octets) ==
    IF ct.positive = 1 /\ octets # <<>> /\ octets[1] = 1 THEN BitsOf(0, 8) \o octets ELSE octets

INTEGER_decode_oer(td, per, pd, pos) ==
    LET value(long, after) ==
            IF long = <<>> THEN ASN__DECODE_FAILED ELSE Decoded(long[1], after, 0)
        native(bits) == IF IsUnsigned(td) THEN asn_INTEGER2umax(bits) ELSE asn_INTEGER2imax(bits)
        contents(ct, octets, after) ==
            IF Starving(octets) THEN ASN__DECODE_STARVED
            ELSE value(native(PositiveContents(ct, octets)), after)
        sized(ct, len) ==
            IF len[1] < 0 THEN NoLength(len)
            ELSE contents(ct, asn_get_many_bits(pd, len[2], 8 * len[1]), len[2] + 8 * len[1])
        from(ct, width) == sized(ct, IF width > 0 THEN <<width, pos>> ELSE oer_fetch_length(pd, pos))
        within(ct) == from(ct, ct.width)
    IN  within(OerConstraints(td, per))

(* The octets of a positive INTEGER_t as INTEGER_decode_oer stores them: a    *)
(* zero octet in front of a first bit that is set.                           *)
StoredOctets(v) ==
    LET b == BitsOf(0, 8) \o LongBits(v, 64)
        fits(k) == \A i \in 1 .. 73 - 8 * k : b[i] = 0
        k == CHOOSE j \in 1 .. 9 : fits(j) /\ \A i \in 1 .. j - 1 : ~fits(i)
    IN  SubSeq(b, 73 - 8 * k, 72)

(* The conversion of an unsigned long is the one of a signed long: a number  *)
(* from 2^63 on becomes a negative one.                                      *)
asn_ulong2INTEGER(v) == asn_imax2INTEGER(v)

Contents(td, v) ==
    IF ~td.native THEN StoredOctets(v)
    ELSE IF td.unsigned THEN asn_ulong2INTEGER(v) ELSE asn_imax2INTEGER(v)

(* A negative number of a positive type is refused.  The leading zeros of a  *)
(* positive number are removed: there is at most one octet of them, because  *)
(* the contents have no octet too many.                                      *)
INTEGER_encode_oer(td, per, v, po) ==
    LET put(buf, width, req_bytes, sign) ==
            IF req_bytes < Len(buf) \div 8 THEN EncodeFailed
            ELSE asn_put_many_bits(
                     IF width > 0 THEN po ELSE oer_serialize_length(po, Len(buf) \div 8),
                     [i \in 1 .. 8 * req_bytes - Len(buf) |-> sign] \o buf)
        sized(buf, width, sign) == put(buf, width, IF width > 0 THEN width ELSE Len(buf) \div 8, sign)
        useful(ct, octets) ==
            IF ct.positive = 1 /\ Len(octets) > 8 /\ SubSeq(octets, 1, 8) = BitsOf(0, 8)
            THEN SubSeq(octets, 9, Len(octets)) ELSE octets
        from(ct, octets) ==
            IF ct.positive = 1 /\ octets[1] = 1 THEN EncodeFailed
            ELSE sized(useful(ct, octets), ct.width, octets[1])
    IN  from(OerConstraints(td, per), Contents(td, v))

-----------------------------------------------------------------------------
(* NativeEnumerated_oer.c: whatever value arrives is stored.  A value beyond *)
(* MAX_ENUM counts as MAX_ENUM: no enumeration has either.                   *)
MAX_ENUM == 65536

asn__nativeenumerated_convert(octets) ==
    LET long == asn_INTEGER2imax(octets)[1]
    IN  IF Less(long, Long(-MAX_ENUM)) THEN -MAX_ENUM
        ELSE IF Less(Long(MAX_ENUM), long) THEN MAX_ENUM
        ELSE IF long[1] < 0 THEN long[3] - LIMB ELSE long[3]

NativeEnumerated_decode_oer(pd, pos) ==
    LET b == asn_get_few_bits(pd, pos, 8)
        length == b - 128
        octets == asn_get_many_bits(pd, pos + 8, 8 * length)
    IN  IF b < 0 THEN ASN__DECODE_STARVED
        ELSE IF b < 128 THEN Decoded(b, pos + 8, 0)
        ELSE IF length \notin 1 .. 8 THEN ASN__DECODE_FAILED
        ELSE IF Starving(octets) THEN ASN__DECODE_STARVED
        ELSE Decoded(asn__nativeenumerated_convert(octets), pos + 8 + 8 * length, 0)

(* WRONG variant: the short form for every value *)
NativeEnumerated_encode_oer_short(v, po) == asn_put_few_bits(po, v, 8)

NativeEnumerated_encode_oer(v, po) ==
    LET octets == asn_imax2INTEGER(Long(v))
    IN  IF v \in 0 .. 127 THEN asn_put_few_bits(po, v, 8)
        ELSE asn_put_many_bits(asn_put_few_bits(po, 128 + Len(octets) \div 8, 8), octets)

(* BOOLEAN.c: every octet but zero is true.  The structure keeps the octet,  *)
(* the model only whether it is zero, which is all that anyone reads.        *)
BOOLEAN_decode_oer(pd, pos) ==
    LET b == asn_get_few_bits(pd, pos, 8)
    IN  IF b < 0 THEN ASN__DECODE_STARVED
        ELSE Decoded(IF b = 0 THEN 0 ELSE 1, pos + 8, 0)

BOOLEAN_encode_oer(v, po) == asn_put_few_bits(po, IF v # 0 THEN 255 ELSE 0, 8)

-----------------------------------------------------------------------------
(* OCTET_STRING_oer.c, BIT_STRING_oer.c *)

OCTET_STRING_decode_oer(td, per, pd, pos) ==
    LET octet(bits, i) == NumberOf(SubSeq(bits, 8 * i - 7, 8 * i))
        contents(bits, n, after) ==
            IF Starving(bits) THEN ASN__DECODE_STARVED
            ELSE Decoded(SubSeq([i \in 1 .. n |-> octet(bits, i)], 1, n), after, 0)
        sized(len) ==
            IF len[1] < 0 THEN NoLength(len)
            ELSE contents(asn_get_many_bits(pd, len[2], 8 * len[1]), len[1], len[2] + 8 * len[1])
        from(size) == sized(IF size >= 0 THEN <<size, pos>> ELSE oer_fetch_length(pd, pos))
    IN  from(OerConstraints(td, per).size)

RECURSIVE PutOctets(_, _)
PutOctets(po, octets) ==
    IF octets = <<>> THEN po ELSE PutOctets(asn_put_few_bits(po, Head(octets), 8), Tail(octets))

OCTET_STRING_encode_oer(td, per, v, po) ==
    LET size == OerConstraints(td, per).size
    IN  IF size >= 0 /\ Len(v) # size THEN EncodeFailed
        ELSE PutOctets(IF size >= 0 THEN po ELSE oer_serialize_length(po, Len(v)), v)

BIT_STRING_decode_oer(td, per, pd, pos) ==
    LET value(bits, used, after) ==
            IF Starving(bits) THEN ASN__DECODE_STARVED
            ELSE IF used < Len(bits) - 7 THEN ASN__DECODE_FAILED
            ELSE Decoded(SubSeq(bits, 1, used), after, 0)
        from(start, octets, used) ==
            value(asn_get_many_bits(pd, start, 8 * octets), used, start + 8 * octets)
        sized(len) ==
            IF len[1] < 0 THEN NoLength(len)
            ELSE IF len[1] = 0 THEN ASN__DECODE_FAILED
            ELSE from(len[2] + 8, len[1] - 1, 8 * (len[1] - 1) - asn_get_few_bits(pd, len[2], 8))
        within(size) == IF size >= 0 THEN from(pos, (size + 7) \div 8, size)
                                     ELSE sized(oer_fetch_length(pd, pos))
    IN  within(OerConstraints(td, per).size)

(* Octets that are missing of a fixed size are filled with zeros in a loop   *)
(* that does not count them.                                                 *)
EncodeNever == [ok |-> FALSE, bits |-> <<NEVER>>]

(* WRONG variant: the unused bits of the last octet are left out *)
BIT_STRING_encode_oer_unfilled(td, per, v, po) ==
    LET used == asn_put_few_bits(oer_serialize_length(po, 1 + (Len(v) + 7) \div 8), 0, 8)
    IN  asn_put_many_bits(IF OerConstraints(td, per).size >= 0 THEN po ELSE used, v)

BIT_STRING_encode_oer(td, per, v, po) ==
    LET size == OerConstraints(td, per).size
        octets == (Len(v) + 7) \div 8
        bits_unused == 8 * octets - Len(v)
        buf == v \o [i \in 1 .. bits_unused |-> 0]
    IN  IF size >= 0
        THEN IF octets > (size + 7) \div 8 THEN EncodeFailed
             ELSE IF octets < (size + 7) \div 8 THEN EncodeNever
             ELSE asn_put_many_bits(po, buf)
        ELSE asn_put_many_bits(
                 asn_put_few_bits(oer_serialize_length(po, 1 + octets), bits_unused, 8), buf)

-----------------------------------------------------------------------------
(* Open types: oer_decoder.c, oer_encoder.c *)

oer_open_type_put(t, per, v, po) ==
    LET put(er) == IF ~er.ok THEN er
                   ELSE asn_put_many_bits(oer_serialize_length(po, Len(er.bits) \div 8), er.bits)
    IN  put(oer_encoder(t, per, v, NoOutput))

(* What the contents leave over in their container is ignored. *)
oer_open_type_get(t, per, pd, pos) ==
    LET value(dr, after) ==
            IF dr.rc # "OK" THEN ASN__DECODE_FAILED ELSE Decoded(dr.val, after, 0)
        contents(container, after) ==
            IF Starving(container) THEN ASN__DECODE_STARVED
            ELSE value(oer_decoder(t, per, container, 0), after)
        sized(len) ==
            IF len[1] < 0 THEN NoLength(len)
            ELSE contents(asn_get_many_bits(pd, len[2], 8 * len[1]), len[2] + 8 * len[1])
    IN  sized(oer_fetch_length(pd, pos))

(* The length determinant is skipped, the contents are not. *)
oer_open_type_skip(pd, pos) ==
    LET sized(len) == IF len[1] < 0 THEN NoLength(len) ELSE Decoded(<<>>, len[2], 0)
    IN  sized(oer_fetch_length(pd, pos))

-----------------------------------------------------------------------------
(* constr_CHOICE_oer.c: every alternative has the tag [CONTEXT i], with i   *)
(* counted from 0.                                                          *)

(* <<class, number, position after the tag>>; class -1: more, -2: fatal. *)
RECURSIVE LongTag(_, _, _, _)
LongTag(class, val, pd, pos) ==
    LET oct == asn_get_few_bits(pd, pos, 8)
        next == val * 128 + (oct % 128)
    IN  IF oct < 0 THEN <<-1, 0, pos>>
        ELSE IF oct < 128 THEN <<class, next, pos + 8>>
        ELSE IF next >= 2^23 THEN <<FATAL, 0, pos>>
        ELSE LongTag(class, next, pd, pos + 8)

oer_fetch_tag(pd, pos) ==
    LET val == asn_get_few_bits(pd, pos, 8)
    IN  IF val < 0 THEN <<-1, 0, pos>>
        ELSE IF val % 64 # 63 THEN <<val \div 64, val % 64, pos + 8>>
        ELSE LongTag(val \div 64, 0, pd, pos + 8)

CONTEXT == 2

(* No CHOICE has an alternative that needs the long form. *)
oer_put_tag(po, index) ==
    IF index < 63 THEN asn_put_few_bits(po, CONTEXT * 64 + index, 8) ELSE EncodeFailed

InExtension(td, i) == td.extension >= 0 /\ td.extension < i

CHOICE_decode_oer(td, pd, pos) ==
    LET present(rval, i) == IF rval.rc # "OK" THEN rval ELSE Decoded(<<i, rval.val>>, rval.pos, 0)
        alternative(elm, i, after) ==
            present(IF InExtension(td, i) THEN oer_open_type_get(elm.type, elm.per, pd, after)
                                          ELSE oer_decoder(elm.type, elm.per, pd, after), i)
        tagged(tag, i) ==
            IF tag[1] = -1 THEN ASN__DECODE_STARVED
            ELSE IF tag[1] # CONTEXT \/ i \notin DOMAIN td.members THEN ASN__DECODE_FAILED
            ELSE alternative(td.members[i], i, tag[3])
        from(tag) == tagged(tag, tag[2] + 1)
    IN  from(oer_fetch_tag(pd, pos))

CHOICE_encode_oer(td, st, po) ==
    LET elm == td.members[st[1]]
        tagged == oer_put_tag(po, st[1] - 1)
    IN  IF st[1] \notin DOMAIN td.members THEN EncodeFailed
        ELSE IF InExtension(td, st[1]) THEN oer_open_type_put(elm.type, elm.per, st[2], tagged)
        ELSE oer_encoder(elm.type, elm.per, st[2], tagged)

-----------------------------------------------------------------------------
(* constr_SEQUENCE_oer.c *)

RECURSIVE OerRoot(_, _, _, _, _, _), OerExtensions(_, _, _, _, _, _), OerRest(_, _, _, _)

(* Phase 1: the root members from the i-th on, present their presence bits. *)
OerRoot(td, i, present, st, pd, pos) ==
    LET elm == td.members[i]
        rest == IF elm.optional THEN Tail(present) ELSE present
        with(rval) == IF rval.rc # "OK" THEN rval
                      ELSE OerRoot(td, i + 1, rest, Append(st, <<rval.val>>), pd, rval.pos)
    IN  IF i > RootCount(td) THEN Decoded(st, pos, 0)
        ELSE IF elm.optional /\ Head(present) = 0
        THEN OerRoot(td, i + 1, rest, Append(st, elm.dflt), pd, pos)
        ELSE IF elm.open THEN ASN__DECODE_FAILED    \* OPEN_TYPE_oer_get: no type_selector
        ELSE with(oer_decoder(elm.type, elm.per, pd, pos))

(* Phase 3: the extensions that the descriptor has. *)
OerExtensions(td, i, extadds, st, pd, pos) ==
    LET elm == td.members[i]
        with(rval) == IF rval.rc # "OK" THEN rval
                      ELSE OerExtensions(td, i + 1, Tail(extadds), Append(st, <<rval.val>>), pd, rval.pos)
    IN  IF i > Len(td.members) THEN OerRest(extadds, st, pd, pos)
        ELSE IF extadds = <<>> \/ Head(extadds) = 0
        THEN OerExtensions(td, i + 1, IF extadds = <<>> THEN extadds ELSE Tail(extadds),
                           Append(st, elm.dflt), pd, pos)
        ELSE with(oer_open_type_get(elm.type, elm.per, pd, pos))

(* Phase 4: the ones that it does not have. *)
OerRest(extadds, st, pd, pos) ==
    LET with(skipped) == IF skipped.rc # "OK" THEN skipped
                         ELSE OerRest(Tail(extadds), st, pd, skipped.pos)
    IN  IF extadds = <<>> THEN Decoded(st, pos, 0)
        ELSE IF Head(extadds) = 0 THEN OerRest(Tail(extadds), st, pd, pos)
        ELSE with(oer_open_type_skip(pd, pos))

OptionalRoot(td) == SelectSeq(SubSeq(td.members, 1, RootCount(td)), LAMBDA elm : elm.optional)
ExtensionBit(td) == IF td.extension >= 0 THEN 1 ELSE 0

(* Phase 2: the bitmap of the extensions. *)
OerBitmap(td, st, pd, pos) ==
    LET bitmap(len, unused_bits, end) ==
            IF end > Len(pd) THEN ASN__DECODE_STARVED
            ELSE IF unused_bits > 0 /\ len[1] = 1 THEN ASN__DECODE_FAILED
            ELSE OerExtensions(td, RootCount(td) + 1,
                               SubSeq(pd, len[2] + 9, end - unused_bits), st, pd, end)
        sized(len) ==
            IF len[1] < 0 THEN NoLength(len)
            ELSE IF len[1] = 0 THEN ASN__DECODE_FAILED
            ELSE bitmap(len, asn_get_few_bits(pd, len[2], 8) % 8, len[2] + 8 * len[1])
    IN  sized(oer_fetch_length(pd, pos))

SEQUENCE_decode_oer(td, pd, pos) ==
    LET noExtensions == SubSeq([i \in DOMAIN td.members |-> <<>>], RootCount(td) + 1, Len(td.members))
        rest(root, extended) ==
            IF root.rc # "OK" THEN root
            ELSE IF extended THEN OerBitmap(td, root.val, pd, root.pos)
            ELSE [root EXCEPT !.val = @ \o noExtensions]
        after(preamble, present) ==
            IF Starving(preamble) THEN ASN__DECODE_STARVED
            ELSE rest(OerRoot(td, 1, present, <<>>, pd, pos + Len(preamble)),
                      td.extension >= 0 /\ preamble[1] = 1)
        from(preamble, preamble_bits) ==
            after(preamble, SubSeq(preamble, ExtensionBit(td) + 1, preamble_bits))
        sized(bits) == from(asn_get_many_bits(pd, pos, 8 * ((bits + 7) \div 8)), bits)
    IN  sized(ExtensionBit(td) + Len(OptionalRoot(td)))

(* A member that has its default value is not encoded. *)
ToEncode(elm, m) == m # <<>> /\ m # elm.dflt

RECURSIVE PutRoot(_, _, _, _), PutExtensions(_, _, _, _)
PutRoot(td, i, st, po) ==
    LET elm == td.members[i]
    IN  IF i > RootCount(td) \/ ~po.ok THEN po
        ELSE IF ToEncode(elm, st[i])
        THEN PutRoot(td, i + 1, st, oer_encoder(elm.type, elm.per, st[i][1], po))
        ELSE IF st[i] = <<>> /\ ~elm.optional THEN EncodeFailed
        ELSE PutRoot(td, i + 1, st, po)

PutExtensions(td, i, st, po) ==
    LET elm == td.members[i]
    IN  IF i > Len(td.members) \/ ~po.ok THEN po
        ELSE IF ToEncode(elm, st[i])
        THEN PutExtensions(td, i + 1, st, oer_open_type_put(elm.type, elm.per, st[i][1], po))
        ELSE IF st[i] = <<>> /\ ~elm.optional THEN EncodeFailed
        ELSE PutExtensions(td, i + 1, st, po)

SEQUENCE_encode_oer(td, st, po) ==
    LET bit(i) == IF ToEncode(td.members[i], st[i]) THEN 1 ELSE 0
        root == SelectSeq([i \in 1 .. RootCount(td) |-> i], LAMBDA i : td.members[i].optional)
        lengths(bitmap, octets) == BitsOf(1 + octets, 8) \o BitsOf(8 * octets - Len(bitmap), 8)
        rest(put, bitmap, has_extensions) ==
            IF ~put.ok \/ ~has_extensions THEN put
            ELSE PutExtensions(td, RootCount(td) + 1, st,
                     asn_put_many_bits(put, lengths(bitmap, (Len(bitmap) + 7) \div 8)
                                            \o _uper_encode_flush_outp(bitmap)))
        marks(has_extensions) ==
            IF td.extension < 0 THEN <<>> ELSE <<IF has_extensions THEN 1 ELSE 0>>
        preamble(optional, has_extensions) ==
            _uper_encode_flush_outp(marks(has_extensions) \o [i \in DOMAIN optional |-> bit(optional[i])])
        from(bitmap, has_extensions) ==
            rest(PutRoot(td, 1, st, asn_put_many_bits(po, preamble(root, has_extensions))),
                 bitmap, has_extensions)
        with(bitmap) == from(bitmap, \E i \in DOMAIN bitmap : bitmap[i] = 1)
    IN  with([i \in 1 .. Len(td.members) - RootCount(td) |-> bit(RootCount(td) + i)])

-----------------------------------------------------------------------------
(* constr_SET_OF_oer.c *)

oer_fetch_quantity(pd, pos) ==
    LET sized(len) ==
            IF len[1] < 0 THEN len
            ELSE IF len[2] + 8 * len[1] > Len(pd) THEN <<-1, pos>>
            ELSE <<OctetsValue(pd, len[2], len[1]), len[2] + 8 * len[1]>>
    IN  sized(oer_fetch_length(pd, pos))

oer_put_quantity(po, qty) ==
    asn_put_few_bits(asn_put_few_bits(po, MinimalOctets(qty), 8), qty, 8 * MinimalOctets(qty))

RECURSIVE OerElements(_, _, _, _, _), PutElements(_, _, _)
OerElements(elm, left, list, pd, pos) ==
    LET with(rv) == IF rv.rc # "OK" THEN rv
                    ELSE OerElements(elm, left - 1, Append(list, rv.val), pd, rv.pos)
    IN  IF left = 0 THEN Decoded(list, pos, 0)
        ELSE with(oer_decoder(elm.type, elm.per, pd, pos))

(* The check against lists of nothing: no type here has elements that are    *)
(* encoded in no octets.                                                     *)
SET_OF_decode_oer(td, pd, pos) ==
    LET elements(qty) == IF qty[1] < 0 THEN NoLength(qty)
                         ELSE OerElements(td.members[1], qty[1], <<>>, pd, qty[2])
    IN  elements(oer_fetch_quantity(pd, pos))

PutElements(elm, list, po) ==
    IF list = <<>> \/ ~po.ok THEN po
    ELSE PutElements(elm, Tail(list), oer_encoder(elm.type, elm.per, Head(list), po))

SET_OF_encode_oer(td, list, po) ==
    PutElements(td.members[1], list, oer_put_quantity(po, Len(list)))

-----------------------------------------------------------------------------
(* td->op->oer_encoder and td->op->oer_decoder *)

oer_encoder(t, per, v, po) ==
    LET by(td) ==
            CASE td.op = "INTEGER" -> INTEGER_encode_oer(td, per, v, po)
              [] td.op = "ENUMERATED" -> NativeEnumerated_encode_oer(v, po)
              [] td.op = "BOOLEAN" -> BOOLEAN_encode_oer(v, po)
              [] td.op = "NULL" -> po
              [] td.op = "OCTET_STRING" -> OCTET_STRING_encode_oer(td, per, v, po)
              [] td.op = "BIT_STRING" -> BIT_STRING_encode_oer(td, per, v, po)
              [] td.op = "SEQUENCE" -> SEQUENCE_encode_oer(td, v, po)
              [] td.op = "SEQUENCE_OF" -> SET_OF_encode_oer(td, v, po)
              [] td.op = "CHOICE" -> CHOICE_encode_oer(td, v, po)
    IN  IF po.ok THEN by(TypeTable[t]) ELSE po

oer_decoder(t, per, pd, pos) ==
    LET by(td) ==
            CASE td.op = "INTEGER" -> INTEGER_decode_oer(td, per, pd, pos)
              [] td.op = "ENUMERATED" -> NativeEnumerated_decode_oer(pd, pos)
              [] td.op = "BOOLEAN" -> BOOLEAN_decode_oer(pd, pos)
              [] td.op = "NULL" -> Decoded(0, pos, 0)
              [] td.op = "OCTET_STRING" -> OCTET_STRING_decode_oer(td, per, pd, pos)
              [] td.op = "BIT_STRING" -> BIT_STRING_decode_oer(td, per, pd, pos)
              [] td.op = "SEQUENCE" -> SEQUENCE_decode_oer(td, pd, pos)
              [] td.op = "SEQUENCE_OF" -> SET_OF_decode_oer(td, pd, pos)
              [] td.op = "CHOICE" -> CHOICE_decode_oer(td, pd, pos)
    IN  by(TypeTable[t])

(* oer_encode and oer_decode: no constraints but the type's own. *)
oer_encode(t, v) == oer_encoder(t, NoPer, v, NoOutput)

oer_decode(t, buffer) == oer_decoder(t, NoPer, buffer, 0)
=============================================================================
