----------------------------- MODULE UperCodec -----------------------------
(***************************************************************************)
(* The unaligned PER codec and the constraint checker of                   *)
(* src/vanetza-extension/asn1/support, driven by a table of descriptors.   *)
(*                                                                         *)
(* Values: those of UperPrimitives, a tuple of values for a SEQUENCE OF,   *)
(* and for a SEQUENCE one entry per member, <<value>> or <<>> (a null      *)
(* pointer).                                                               *)
(***************************************************************************)
EXTENDS UperPrimitives

CONSTANT asn_DEF    \* the descriptors, a function from the names of types

TypeTable == asn_DEF

ASSUME DescriptorsFit ==
    \A t \in DOMAIN asn_DEF :
        /\ Fits(asn_DEF[t], NoPer)
        /\ \A i \in DOMAIN asn_DEF[t].members :
              LET elm == asn_DEF[t].members[i]
              IN  elm.type \in DOMAIN asn_DEF /\ Fits(asn_DEF[elm.type], elm.per)

RECURSIVE uper_encoder(_, _, _, _), uper_decoder(_, _, _, _), general_constraints(_, _, _)

-----------------------------------------------------------------------------
(* per_opentype.c and constr_CHOICE.c: the definitions of UperPrimitives,    *)
(* with the codec below for the type that they hold.                         *)

uper_open_type_put(t, per, v, po) == OpenTypePut(uper_encoder, t, per, v, po)

uper_open_type_get(t, per, pd, pos) == OpenTypeGet(uper_decoder, t, per, pd, pos)

CHOICE_encode_uper(td, per, st, po0) == ChoiceEncode(uper_encoder, td, per, st, po0)

CHOICE_decode_uper(td, per, pd, pos0) == ChoiceDecode(uper_decoder, td, per, pd, pos0)

-----------------------------------------------------------------------------
(* constr_SEQUENCE.c.  oms lists the optional root members in order.        *)

RootCount(td) == IF td.extension < 0 THEN Len(td.members) ELSE td.extension

RECURSIVE DecodeRoot(_, _, _, _, _, _), DecodeExtensions(_, _, _, _, _, _), SkipOverflow(_, _, _, _)

(* The root members from the i-th on; the presence bitmap starts at omap. *)
DecodeRoot(td, i, omap, st, pd, pos) ==
    LET elm == td.members[i]
        absent == elm.optional /\ pd[omap + 1] = 0
        next == IF elm.optional THEN omap + 1 ELSE omap
        with(rv) == IF rv.rc # "OK" THEN rv
                    ELSE DecodeRoot(td, i + 1, next, Append(st, <<rv.val>>), pd, rv.pos)
    IN  IF i > RootCount(td) THEN Decoded(st, pos, 0)
        ELSE IF absent THEN DecodeRoot(td, i + 1, next, Append(st, elm.dflt), pd, pos)
        ELSE IF elm.open THEN ASN__DECODE_FAILED   \* OPEN_TYPE_uper_get: no type_selector
        ELSE with(uper_decoder(elm.type, elm.per, pd, pos))

(* The known extensions from the i-th member on, and what the bitmap says.  *)
DecodeExtensions(td, i, epres, st, pd, pos) ==
    LET elm == td.members[i]
        with(rv) == IF rv.rc # "OK" THEN rv
                    ELSE DecodeExtensions(td, i + 1, Tail(epres), Append(st, <<rv.val>>), pd, rv.pos)
    IN  IF i > Len(td.members) THEN SkipOverflow(epres, st, pd, pos)
        ELSE IF epres = <<>> \/ Head(epres) = 0
        THEN DecodeExtensions(td, i + 1, IF epres = <<>> THEN epres ELSE Tail(epres),
                              Append(st, elm.dflt), pd, pos)
        ELSE with(uper_open_type_get(elm.type, elm.per, pd, pos))

SkipOverflow(epres, st, pd, pos) ==
    LET skipped(after) == IF after < 0 THEN ASN__DECODE_STARVED
                          ELSE SkipOverflow(Tail(epres), st, pd, after)
    IN  IF epres = <<>> THEN Decoded(st, pos, 0)
        ELSE IF Head(epres) = 0 THEN SkipOverflow(Tail(epres), st, pd, pos)
        ELSE skipped(uper_open_type_skip(pd, pos))

SEQUENCE_decode_uper(td, pd, pos0) ==
    LET known(epres, root, after) == DecodeExtensions(td, RootCount(td) + 1, epres, root.val, pd, after)
        extended(epres, root, after) ==
            IF Starving(epres) THEN ASN__DECODE_STARVED ELSE known(epres, root, after)
        bitmap(bm, root) ==
            IF bm[1] < 0 THEN ASN__DECODE_STARVED
            ELSE extended(asn_get_many_bits(pd, bm[2], bm[1]), root, bm[2] + bm[1])
        rest(root, extpresent) ==
            IF root.rc # "OK" THEN root
            ELSE IF extpresent = 0 THEN known(<<>>, root, root.pos)
            ELSE bitmap(uper_get_nslength(pd, root.pos), root)
        preamble(extpresent, omap, roms) ==
            IF extpresent < 0 \/ Starving(asn_get_many_bits(pd, omap, roms))
            THEN ASN__DECODE_STARVED
            ELSE rest(DecodeRoot(td, 1, omap, <<>>, pd, omap + roms), extpresent)
    IN  preamble(IF td.extension >= 0 THEN asn_get_few_bits(pd, pos0, 1) ELSE 0,
                 IF td.extension >= 0 THEN pos0 + 1 ELSE pos0,
                 Len(SelectSeq(SubSeq(td.members, 1, RootCount(td)), LAMBDA m : m.optional)))

RECURSIVE EncodeBitmap(_, _, _, _), EncodeRoot(_, _, _, _), EncodeExtensions(_, _, _, _)

(* A pointer member is there unless it is null, one equal to its DEFAULT is  *)
(* left out.                                                                 *)
IsDefault(elm, memb) == elm.dflt # <<>> /\ memb = elm.dflt

EncodeBitmap(td, i, st, po) ==
    LET elm == td.members[i]
        present == st[i] # <<>> /\ ~IsDefault(elm, st[i])
    IN  IF i > RootCount(td) THEN po
        ELSE EncodeBitmap(td, i + 1, st,
                 IF elm.optional THEN asn_put_few_bits(po, IF present THEN 1 ELSE 0, 1) ELSE po)

EncodeRoot(td, i, st, po) ==
    LET elm == td.members[i]
    IN  IF i > RootCount(td) \/ ~po.ok THEN po
        ELSE IF st[i] = <<>>
        THEN IF elm.optional THEN EncodeRoot(td, i + 1, st, po) ELSE EncodeFailed
        ELSE IF IsDefault(elm, st[i]) THEN EncodeRoot(td, i + 1, st, po)
        ELSE IF elm.open THEN EncodeFailed         \* OPEN_TYPE_encode_uper: no elements
        ELSE EncodeRoot(td, i + 1, st, uper_encoder(elm.type, elm.per, st[i][1], po))

EncodeExtensions(td, i, st, po) ==
    LET elm == td.members[i]
    IN  IF i > Len(td.members) \/ ~po.ok THEN po
        ELSE EncodeExtensions(td, i + 1, st,
                 IF st[i] = <<>> THEN po
                 ELSE uper_open_type_put(elm.type, elm.per, st[i][1], po))

(* SEQUENCE__handle_extensions with neither output counts, with the first     *)
(* writes the bitmap, with the second the extensions.                         *)
ExtensionBitmap(td, st) ==
    SubSeq([i \in 1 .. Len(td.members) |-> IF st[i] = <<>> THEN 0 ELSE 1],
           RootCount(td) + 1, Len(td.members))

SEQUENCE_encode_uper(td, st, po0) ==
    LET rest(po, bitmap, extended) ==
            IF ~po.ok \/ ~extended THEN po
            ELSE EncodeExtensions(td, RootCount(td) + 1, st,
                     asn_put_many_bits(uper_put_nslength(po, Len(bitmap)), bitmap))
        root(bitmap, extended) ==
            rest(EncodeRoot(td, 1, st, EncodeBitmap(td, 1, st,
                     IF td.extension < 0 THEN po0
                     ELSE asn_put_few_bits(po0, IF extended THEN 1 ELSE 0, 1))),
                 bitmap, extended)
        from(bitmap) == root(bitmap, \E i \in DOMAIN bitmap : bitmap[i] = 1)
    IN  from(ExtensionBitmap(td, st))

-----------------------------------------------------------------------------
(* constr_SET_OF.c and constr_SEQUENCE_OF.c *)

RECURSIVE DecodeElements(_, _, _, _, _), EncodeElements(_, _, _)

(* n elements of a list of nelems: the first half, then the second. *)
DecodeElements(elm, nelems, n, pd, pos) ==
    LET one(rv) == IF rv.rc # "OK" THEN rv
                   ELSE IF rv.consumed = 0 /\ nelems > 200 THEN ASN__DECODE_FAILED
                   ELSE [rv EXCEPT !.val = <<@>>]
        joined(left, right) == IF right.rc # "OK" THEN right ELSE [right EXCEPT !.val = left.val \o @]
        second(left) ==
            IF left.rc # "OK" THEN left
            ELSE joined(left, DecodeElements(elm, nelems, n - n \div 2, pd, left.pos))
    IN  IF n = 0 THEN Decoded(<<>>, pos, 0)
        ELSE IF n = 1 THEN one(uper_decoder(elm.type, elm.per, pd, pos))
        ELSE second(DecodeElements(elm, nelems, n \div 2, pd, pos))

SET_OF_decode_uper(td, per, pd, pos0) ==
    LET elements(nelems, after) ==
            IF nelems < 0 THEN ASN__DECODE_STARVED
            ELSE [DecodeElements(td.members[1], nelems, nelems, pd, after) EXCEPT !.consumed = 0]
        counted(count, lb, after) == elements(IF count < 0 THEN -1 ELSE count + lb, after)
        listed(len) == counted(len[1], 0, len[2])
        marked(ct, inext, pos) ==
            IF inext < 0 THEN ASN__DECODE_STARVED
            ELSE IF inext = 0 /\ ct.bits >= 0
            THEN counted(asn_get_few_bits(pd, pos, ct.bits), ct.lb[3], pos + ct.bits)
            ELSE listed(uper_get_length(pd, pos, -1, 0))
        from(ct) == marked(ct, ExtensionMark(ct, pd, pos0), AfterMark(ct, pos0))
    IN  from(SizeConstraint(td, per))

EncodeElements(elm, list, po) ==
    LET half == Len(list) \div 2
    IN  IF list = <<>> \/ ~po.ok THEN po
        ELSE IF Len(list) = 1 THEN uper_encoder(elm.type, elm.per, list[1], po)
        ELSE EncodeElements(elm, SubSeq(list, half + 1, Len(list)),
                            EncodeElements(elm, SubSeq(list, 1, half), po))

SEQUENCE_OF_encode_uper(td, per, list, po0) ==
    LET ct == SizeConstraint(td, per)
        given == Constraints(td, per) # NoPer
        not_in_root == given /\ Len(list) \notin ct.lb[3] .. ct.ub[3]
        po == PutMark(ct, not_in_root, po0)
        bounded == ct.bits >= 0 /\ ~(ct.ext /\ not_in_root)
    IN  IF not_in_root /\ ~ct.ext /\ ct.bits >= 0 THEN EncodeFailed
        ELSE EncodeElements(td.members[1], list,
                 IF bounded THEN asn_put_few_bits(po, Len(list) - ct.lb[3], ct.bits)
                            ELSE uper_put_length(po, Len(list)))

-----------------------------------------------------------------------------
(* td->op->uper_encoder and td->op->uper_decoder *)

uper_encoder(t, per, v, po) ==
    LET by(td) ==
            CASE td.op = "INTEGER" -> INTEGER_encode_uper(td, per, v, po)
              [] td.op = "ENUMERATED" -> NativeEnumerated_encode_uper(td, per, v, po)
              [] td.op = "BOOLEAN" -> BOOLEAN_encode_uper(v, po)
              [] td.op = "NULL" -> po
              [] td.op = "OCTET_STRING" -> OCTET_STRING_encode_uper(td, per, v, po)
              [] td.op = "BIT_STRING" -> BIT_STRING_encode_uper(td, per, v, po)
              [] td.op = "SEQUENCE" -> SEQUENCE_encode_uper(td, v, po)
              [] td.op = "SEQUENCE_OF" -> SEQUENCE_OF_encode_uper(td, per, v, po)
              [] td.op = "CHOICE" -> CHOICE_encode_uper(td, per, v, po)
              [] td.op = "OPEN_TYPE" -> EncodeFailed
    IN  IF po.ok THEN by(TypeTable[t]) ELSE po

uper_decoder(t, per, pd, pos) ==
    LET by(td) ==
            CASE td.op = "INTEGER" -> INTEGER_decode_uper(td, per, pd, pos)
              [] td.op = "ENUMERATED" -> NativeEnumerated_decode_uper(td, per, pd, pos)
              [] td.op = "BOOLEAN" -> BOOLEAN_decode_uper(pd, pos)
              [] td.op = "NULL" -> Decoded(0, pos, 0)
              [] td.op = "OCTET_STRING" -> OCTET_STRING_decode_uper(td, per, pd, pos)
              [] td.op = "BIT_STRING" -> BIT_STRING_decode_uper(td, per, pd, pos)
              [] td.op = "SEQUENCE" -> SEQUENCE_decode_uper(td, pd, pos)
              [] td.op = "SEQUENCE_OF" -> SET_OF_decode_uper(td, per, pd, pos)
              [] td.op = "CHOICE" -> CHOICE_decode_uper(td, per, pd, pos)
              [] td.op = "OPEN_TYPE" -> ASN__DECODE_FAILED
    IN  by(TypeTable[t])

(* per_encoder.c and per_decoder.c: whole octets out, whole octets in. *)
uper_encode(t, v) ==
    LET flushed(er) == IF er.ok THEN [er EXCEPT !.bits = _uper_encode_flush_outp(@)] ELSE er
    IN  flushed(uper_encoder(t, NoPer, v, NoOutput))

(* WRONG variant: octets after the message are an error *)
uper_decode_complete_exact(t, buffer) ==
    LET complete(rval) == IF rval.rc = "OK" /\ Len(buffer) - rval.pos >= 8
                          THEN ASN__DECODE_FAILED ELSE rval
    IN  complete(uper_decoder(t, NoPer, buffer, 0))

(* A value without bits takes an octet of zeros. *)
uper_decode_complete(t, buffer) ==
    LET complete(rval) ==
            IF rval.rc # "OK" \/ rval.pos > 0 THEN rval
            ELSE IF buffer = <<>> THEN ASN__DECODE_STARVED
            ELSE IF asn_get_few_bits(buffer, 0, 8) # 0 THEN ASN__DECODE_FAILED
            ELSE rval
    IN  complete(uper_decoder(t, NoPer, buffer, 0))

-----------------------------------------------------------------------------
(* The constraint checkers: 0 when the value passes, -1 when it does not,    *)
(* NEVER when the function calls itself for ever.                            *)
NEVER == -2

(* UTF8String_length: the number of characters, negative when ill-formed.    *)
RECURSIVE UTF8String__process(_, _)
UTF8String__process(octets, length) ==
    LET ch == Head(octets)
        want == IF ch < 128 THEN 1 ELSE IF ch < 192 THEN 0 ELSE IF ch < 224 THEN 2
                ELSE IF ch < 240 THEN 3 ELSE IF ch < 248 THEN 4 ELSE IF ch < 252 THEN 5
                ELSE IF ch < 254 THEN 6 ELSE 0
        minimal == \/ want = 1
                   \/ want = 2 /\ ch % 32 >= 2
                   \/ want > 2 /\ (ch % 2^(7 - want) > 0 \/ octets[2] % 64 >= 2^(8 - want))
    IN  IF octets = <<>> THEN length
        ELSE IF want = 0 \/ want > Len(octets) THEN -1
        ELSE IF \E i \in 2 .. want : octets[i] \notin 128 .. 191 THEN -1
        ELSE IF ~minimal THEN -1
        ELSE UTF8String__process(SubSeq(octets, want + 1, Len(octets)), length + 1)

RECURSIVE SEQUENCE_constraint_from(_, _, _), SET_OF_constraint_from(_, _, _)

(* Members up to and including the first one that leaves the check to its    *)
(* type: with that one the function returns.                                 *)
SEQUENCE_constraint_from(td, i, st) ==
    LET elm == td.members[i]
        with(ret) == IF elm.check.test = "absent" \/ ret # 0 THEN ret
                     ELSE SEQUENCE_constraint_from(td, i + 1, st)
    IN  IF i > Len(td.members) THEN 0
        ELSE IF st[i] = <<>>
        THEN IF elm.optional THEN SEQUENCE_constraint_from(td, i + 1, st) ELSE -1
        ELSE with(general_constraints(elm.type, elm.check, st[i][1]))

SET_OF_constraint_from(elm, i, list) ==
    LET with(ret) == IF ret # 0 THEN ret ELSE SET_OF_constraint_from(elm, i + 1, list)
    IN  IF i > Len(list) THEN 0 ELSE with(general_constraints(elm.type, elm.check, list[i]))

CHOICE_constraint_of(td, st) ==
    IF st[1] \notin DOMAIN td.members THEN -1
    ELSE general_constraints(td.members[st[1]].type, td.members[st[1]].check, st[2])

general_constraints(t, check, v) ==
    LET holds(p) == IF p THEN 0 ELSE -1
        by(td, chk) ==
            CASE chk.test = "none" -> 0
              [] chk.test = "value" -> holds(Within(chk.lb, v, chk.ub))
              [] chk.test = "size" -> holds(/\ Len(v) \in chk.lb .. chk.ub
                                            /\ \A i \in DOMAIN v : v[i] \in chk.chars)
              [] chk.test = "utf8" -> holds(UTF8String__process(v, 0) \in chk.lb .. chk.ub)
              [] chk.test = "sizeOf" -> IF Len(v) \notin chk.lb .. chk.ub THEN -1
                                        ELSE SET_OF_constraint_from(td.members[1], 1, v)
              [] chk.test = "SEQUENCE" -> SEQUENCE_constraint_from(td, 1, v)
              [] chk.test = "SEQUENCE_OF" -> SET_OF_constraint_from(td.members[1], 1, v)
              [] chk.test = "CHOICE" -> CHOICE_constraint_of(td, v)
              [] chk.test = "td" -> IF td.check.test = "td" THEN NEVER
                                    ELSE general_constraints(t, td.check, v)
        checked(td) == by(td, IF check.test = "absent" THEN td.check ELSE check)
    IN  checked(TypeTable[t])

asn_check_constraints(t, v) == general_constraints(t, NoCheck, v)
=============================================================================
