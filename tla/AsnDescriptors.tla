--------------------------- MODULE AsnDescriptors ---------------------------
(***************************************************************************)
(* The vocabulary of the generated type descriptors (asn_TYPE_descriptor_t,*)
(* asn_TYPE_member_t, asn_per_constraints_t of constr_TYPE.h and           *)
(* per_support.h) and the descriptors of the built-in types.  A descriptor *)
(* names its operations (op), its PER and OER constraints, its general     *)
(* constraint and, when constructed, its members; a member names its type. *)
(* BER tags and struct offsets are left out.                               *)
(***************************************************************************)
EXTENDS PerSupport

(***************************************************************************)
(* PER constraints.  The codec reads range_bits of a value and             *)
(* effective_bits of a size, and no other width: bits is that one, -1 when *)
(* there is none.  con, semi, ext are the flags APC_CONSTRAINED,           *)
(* APC_SEMI_CONSTRAINED and APC_EXTENSIBLE.                                *)
(***************************************************************************)
Constraint(con, semi, ext, bits, lb, ub) ==
    [con |-> con, semi |-> semi, ext |-> ext, bits |-> bits, lb |-> lb, ub |-> ub]

Unconstrained == Constraint(FALSE, FALSE, FALSE, -1, Long(0), Long(0))
SemiConstrainedFrom(lb) == Constraint(FALSE, TRUE, FALSE, -1, Long(lb), Long(0))
SemiConstrained == SemiConstrainedFrom(0)
Constrained(bits, lb, ub) == Constraint(TRUE, FALSE, FALSE, bits, Long(lb), Long(ub))
ConstrainedLong(bits, lb, ub) == Constraint(TRUE, FALSE, FALSE, bits, lb, ub)
Extensible(ct) == [ct EXCEPT !.ext = TRUE]

(* asn_oer_constraints_t: the octets of a number, or 0 for any, whether it   *)
(* is positive, and the fixed size of a string, or -1.                       *)
NoOer == [width |-> 0, positive |-> 0, size |-> -1]

(* A pointer to PER constraints: <<>> is the null pointer.  alphabet is the  *)
(* sequence of characters that the value2code map numbers from 0, if any.   *)
(* oer is the OER table, which the generated code always sets with the PER   *)
(* table; of the types without OER it is not transcribed.                    *)
NoPer == <<>>
PerAlphabet(value, size, alphabet) ==
    <<[value |-> value, size |-> size, alphabet |-> alphabet, oer |-> NoOer]>>
Per(value, size) == PerAlphabet(value, size, <<>>)
PerValue(bits, lb, ub) == Per(Constrained(bits, lb, ub), Unconstrained)
PerValueLong(bits, lb, ub) == Per(ConstrainedLong(bits, lb, ub), Unconstrained)
PerValueExt(bits, lb, ub) == Per(Extensible(Constrained(bits, lb, ub)), Unconstrained)
PerSize(bits, lb, ub) == Per(Unconstrained, Constrained(bits, lb, ub))
PerSizeExt(bits, lb, ub) == Per(Unconstrained, Extensible(Constrained(bits, lb, ub)))
PerSizeSemi == Per(Unconstrained, SemiConstrained)
PerNone == Per(Unconstrained, Unconstrained)
OerNumber(per, width, positive) ==
    <<[per[1] EXCEPT !.oer = [width |-> width, positive |-> positive, size |-> -1]]>>
OerFixed(per, size) == <<[per[1] EXCEPT !.oer = [NoOer EXCEPT !.size = size]]>>

(***************************************************************************)
(* General constraints: what the asn_constr_check_f of a type or a member  *)
(* tests.  "absent" is the null pointer of a member that leaves the check  *)
(* to its type; "td" is a generated function that does nothing but call    *)
(* td->encoding_constraints.general_constraints on its argument.           *)
(***************************************************************************)
Check(test, lb, ub, chars) == [test |-> test, lb |-> lb, ub |-> ub, chars |-> chars]
ValueInLong(lb, ub) == Check("value", lb, ub, {})
LONG_MAX == <<32767, LIMB - 1, LIMB - 1>>    \* what asn_INTEGER2long can represent
ValueIn(lb, ub) == ValueInLong(Long(lb), Long(ub))
SizeIn(lb, ub) == Check("size", lb, ub, 0 .. 255)
SizeInFrom(lb, ub, chars) == Check("size", lb, ub, chars)
SizeInOf(lb, ub) == Check("sizeOf", lb, ub, {})
CharactersIn(lb, ub) == Check("utf8", lb, ub, {})
Accepts == Check("none", 0, 0, {})
NoCheck == Check("absent", 0, 0, {})
OwnCheck == Check("td", 0, 0, {})
SEQUENCE_constraint == Check("SEQUENCE", 0, 0, {})
SEQUENCE_OF_constraint == Check("SEQUENCE_OF", 0, 0, {})
CHOICE_constraint == Check("CHOICE", 0, 0, {})
IA5Characters == 0 .. 127
MAX_OCTETS == 65535    \* no string of a packet is longer
IA5String_constraint == SizeInFrom(0, MAX_OCTETS, IA5Characters)
UTF8String_constraint == CharactersIn(0, MAX_OCTETS)
NumericCharacters == {32} \cup 48 .. 57

(***************************************************************************)
(* Members.  ptr is ATF_POINTER, optional the member's optional count      *)
(* being positive, open ATF_OPEN_TYPE; dflt is <<>> or <<default value>>.  *)
(***************************************************************************)
Mbr(name, type, ptr, optional, dflt) ==
    [name |-> name, type |-> type, ptr |-> ptr, optional |-> optional, open |-> FALSE,
     dflt |-> dflt, per |-> NoPer, check |-> NoCheck]

Member(name, type) == Mbr(name, type, FALSE, FALSE, <<>>)
Pointer(name, type) == Mbr(name, type, TRUE, FALSE, <<>>)
Optional(name, type) == Mbr(name, type, TRUE, TRUE, <<>>)
Default(name, type, v) == Mbr(name, type, FALSE, TRUE, <<v>>)
OptionalDefault(name, type, v) == Mbr(name, type, TRUE, TRUE, <<v>>)
OpenType(name, type) == [Mbr(name, type, FALSE, FALSE, <<>>) EXCEPT !.open = TRUE]
Limited(member, per, check) == [member EXCEPT !.per = per, !.check = check]

(***************************************************************************)
(* Descriptors.  count is the map_count of an enumeration; extension is    *)
(* specs->extension of an enumeration, first_extension of a SEQUENCE or    *)
(* ext_start of a CHOICE; unsigned is specs->field_unsigned; native tells   *)
(* a long (NativeInteger.c) from the octets of an INTEGER_t.               *)
(***************************************************************************)
Type(op, per, check, members) ==
    [op |-> op, per |-> per, check |-> check, members |-> members,
     extension |-> 0, count |-> 0, unsigned |-> FALSE, native |-> FALSE]

INTEGER(per, check) == Type("INTEGER", per, check, <<>>)
NativeInteger(per, check) == [INTEGER(per, check) EXCEPT !.native = TRUE]
Unsigned(td) == [td EXCEPT !.unsigned = TRUE]
NativeEnumerated(per, count, extension) ==
    [Type("ENUMERATED", per, Accepts, <<>>) EXCEPT !.count = count, !.extension = extension]
BOOLEAN_t == Type("BOOLEAN", NoPer, Accepts, <<>>)
OCTET_STRING(per, check) == Type("OCTET_STRING", per, check, <<>>)
BIT_STRING(per, check) == Type("BIT_STRING", per, check, <<>>)
SEQUENCE(first_extension, members) ==
    [Type("SEQUENCE", NoPer, SEQUENCE_constraint, members) EXCEPT !.extension = first_extension]
CHOICE(per, ext_start, members) ==
    [Type("CHOICE", per, CHOICE_constraint, members) EXCEPT !.extension = ext_start]
SEQUENCE_OF(per, member) == Type("SEQUENCE_OF", per, SEQUENCE_OF_constraint, <<member>>)
OPEN_TYPE == Type("OPEN_TYPE", NoPer, CHOICE_constraint, <<>>)
WithCheck(td, per, check) == [td EXCEPT !.per = per, !.check = check]

(* The constraints of the member if it has some, of the type otherwise. *)
Constraints(td, per) == IF per = NoPer THEN td.per ELSE per
ValueConstraint(td, per) ==
    LET c == Constraints(td, per) IN IF c = NoPer THEN Unconstrained ELSE c[1].value
SizeConstraint(td, per) ==
    LET c == Constraints(td, per) IN IF c = NoPer THEN Unconstrained ELSE c[1].size

OerConstraints(td, per) ==
    LET c == Constraints(td, per) IN IF c = NoPer THEN NoOer ELSE c[1].oer

(* OCTET_STRING.c has constraints for strings without any. *)
asn_DEF_OCTET_STRING_constraints == Per(Constrained(8, 0, 255), SemiConstrained)[1]

StringConstraints(td, per) ==
    LET c == Constraints(td, per) IN IF c = NoPer THEN asn_DEF_OCTET_STRING_constraints ELSE c[1]

-----------------------------------------------------------------------------
(* The built-in types that the generated descriptors refer to. *)
asn_DEF_OCTET_STRING == OCTET_STRING(NoPer, Accepts)
asn_DEF_IA5String ==
    OCTET_STRING(Per(Constrained(7, 0, 127), SemiConstrained), IA5String_constraint)
asn_DEF_UTF8String == OCTET_STRING(NoPer, UTF8String_constraint)
asn_DEF_BOOLEAN == BOOLEAN_t
asn_DEF_NativeInteger == NativeInteger(NoPer, Accepts)
asn_DEF_NULL == Type("NULL", NoPer, Accepts, <<>>)

BuiltIn ==
    [OCTET_STRING |-> asn_DEF_OCTET_STRING, IA5String |-> asn_DEF_IA5String,
     UTF8String |-> asn_DEF_UTF8String, BOOLEAN |-> asn_DEF_BOOLEAN,
     NativeInteger |-> asn_DEF_NativeInteger, NULL |-> asn_DEF_NULL]
=============================================================================
