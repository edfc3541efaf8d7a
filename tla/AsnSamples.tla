----------------------------- MODULE AsnSamples -----------------------------
(***************************************************************************)
(* Values of the ASN.1 types to run the codec on, chosen from the PER      *)
(* constraints: the least and the greatest value of every type, and the    *)
(* ones between them in which a single choice is made differently (one     *)
(* member at its greatest, an optional one present with it, one            *)
(* alternative, one enumeration item).                                     *)
(***************************************************************************)
EXTENDS AsnDescriptors

CONSTANTS Types,    \* the descriptors, a function from the names of types
          Depth,    \* how many levels down a greatest value is the greatest
          Nested    \* the types by how deep their values nest, see AsnNesting

MaxOutside == 300     \* no larger size is tried
LongForm == 129       \* a number for which OER has a form of its own

Inhabited == Nested[Len(Nested)]

(* The alternatives of a CHOICE, and the members of a SEQUENCE, that can be there. *)
Possible(td) == {i \in DOMAIN td.members : td.members[i].type \in Inhabited}

(* The first of the alternatives that nest least. *)
Simplest(td) ==
    LET n == CHOOSE n \in DOMAIN Nested :
                 /\ \E i \in DOMAIN td.members : td.members[i].type \in Nested[n]
                 /\ n > 1 => \A i \in DOMAIN td.members : td.members[i].type \notin Nested[n - 1]
    IN  CHOOSE i \in DOMAIN td.members :
            /\ td.members[i].type \in Nested[n]
            /\ \A j \in 1 .. i - 1 : td.members[j].type \notin Nested[n]

-----------------------------------------------------------------------------
RECURSIVE LeastValue(_, _), GreatestValue(_, _, _)

Repeated(n, v) == [i \in 1 .. n |-> v]

(* The sizes a string or list may have, and the characters. *)
LeastSize(ct) == ct.lb[3]
LargerSize(ct) == IF ct.bits < 0 \/ ct.ub[3] > ct.lb[3] THEN ct.lb[3] + 1 ELSE ct.lb[3]
LeastCharacter(pc) == IF pc.alphabet # <<>> THEN pc.alphabet[1] ELSE pc.value.lb[3]
GreatestCharacter(pc) ==
    IF pc.alphabet # <<>> THEN pc.alphabet[Len(pc.alphabet)]
    ELSE IF pc.value.con /\ pc.value.ub[3] < 128 THEN pc.value.ub[3] ELSE 127

TwoTo64 == <<65536, 0, 0>>
TwoTo63 == <<32768, 0, 0>>

LeastValue(t, per) ==
    LET td == Types[t]
        value == ValueConstraint(td, per)
        size == SizeConstraint(td, per)
        least(i) == LeastValue(td.members[i].type, td.members[i].per)
        absent(i) == td.members[i].optional
    IN  CASE td.op = "INTEGER" -> IF value.bits >= 0 THEN value.lb ELSE Long(0)
          [] td.op \in {"ENUMERATED", "BOOLEAN", "NULL", "OPEN_TYPE"} -> 0
          [] td.op = "OCTET_STRING" ->
                 Repeated(LeastSize(size), LeastCharacter(StringConstraints(td, per)))
          [] td.op = "BIT_STRING" -> Repeated(LeastSize(size), 0)
          [] td.op = "SEQUENCE" ->
                 [i \in DOMAIN td.members |->
                     IF absent(i) THEN td.members[i].dflt ELSE <<least(i)>>]
          [] td.op = "SEQUENCE_OF" -> Repeated(LeastSize(size), least(1))
          [] td.op = "CHOICE" -> <<Simplest(td), least(Simplest(td))>>

GreatestValue(t, per, d) ==
    LET td == Types[t]
        value == ValueConstraint(td, per)
        size == SizeConstraint(td, per)
        last == CHOOSE i \in Possible(td) : \A j \in Possible(td) : j <= i
        below(m) == IF d = 0 THEN LeastValue(m.type, m.per) ELSE GreatestValue(m.type, m.per, d - 1)
    IN  CASE td.op = "INTEGER" -> IF value.bits < 0 THEN Long(128)
                                  ELSE IF Less(value.ub, value.lb) THEN Plus(value.ub, TwoTo64)
                                  ELSE value.ub
          [] td.op = "ENUMERATED" -> td.count - 1
          [] td.op = "BOOLEAN" -> 1
          [] td.op \in {"NULL", "OPEN_TYPE"} -> 0
          [] td.op = "OCTET_STRING" ->
                 Repeated(LargerSize(size), GreatestCharacter(StringConstraints(td, per)))
          [] td.op = "BIT_STRING" -> Repeated(LargerSize(size), 1)
          [] td.op = "SEQUENCE" ->
                 [i \in DOMAIN td.members |->
                     IF i \in Possible(td) THEN <<below(td.members[i])>> ELSE <<>>]
          [] td.op = "SEQUENCE_OF" -> Repeated(LargerSize(size), below(td.members[1]))
          [] td.op = "CHOICE" -> <<last, below(td.members[last])>>

(* The values between them. *)
OtherValues(t) ==
    LET td == Types[t]
        value == ValueConstraint(td, NoPer)
        least == LeastValue(t, NoPer)
        one(i) == GreatestValue(td.members[i].type, td.members[i].per, 0)
        alternative(i) == <<i, LeastValue(td.members[i].type, td.members[i].per)>>
    IN  CASE td.op = "INTEGER" /\ value.bits < 0 ->
                 {n \in {Long(-1), Long(127), Long(-129), Long(65536), <<1, 2, 3>>, <<-1, 0, 0>>,
                         LONG_MAX} : value.semi => ~Less(n, value.lb)}
                 \cup (IF td.unsigned THEN {TwoTo63, Minus(TwoTo64, Long(1))} ELSE {})
          [] td.op = "INTEGER" /\ value.bits > 1 -> {Plus(value.lb, Long(1))}
          [] td.op = "ENUMERATED" -> 0 .. td.count - 1
          [] td.op = "SEQUENCE" ->
                 {[j \in DOMAIN td.members |-> IF j = i THEN <<one(i)>> ELSE least[j]]
                     : i \in Possible(td)}
          [] td.op = "CHOICE" -> {alternative(i) : i \in Possible(td)}
          [] OTHER -> {}

Samples(t) == {LeastValue(t, NoPer), GreatestValue(t, NoPer, Depth)} \cup OtherValues(t)

(* Values next to the bounds of a type without members, on the wrong side. *)
Beyond(t, per) ==
    LET td == Types[t]
        value == ValueConstraint(td, per)
        size == SizeConstraint(td, per)
        character == LeastCharacter(StringConstraints(td, per))
        wrongSizes == {n \in {0, size.lb[3] - 1, size.ub[3] + 1} :
                           n \in 0 .. MaxOutside /\ n \notin size.lb[3] .. size.ub[3]}
    IN  CASE td.op = "INTEGER" /\ value.bits >= 0 ->
                 {Minus(value.lb, Long(1)), Plus(value.ub, Long(1))}
          [] td.op = "ENUMERATED" -> {td.count, LongForm}
          [] td.op = "OCTET_STRING" /\ size.bits >= 0 ->
                 {Repeated(n, character) : n \in wrongSizes}
          [] td.op = "BIT_STRING" /\ size.bits >= 0 -> {Repeated(n, 1) : n \in wrongSizes}
          [] td.op = "SEQUENCE_OF" /\ size.bits >= 0 ->
                 {Repeated(n, LeastValue(td.members[1].type, td.members[1].per)) : n \in wrongSizes}
          [] OTHER -> {}

(* Such values, and the least SEQUENCE values with one such member. *)
Outside(t) ==
    LET td == Types[t]
        least == LeastValue(t, NoPer)
        beyond(i) == Beyond(td.members[i].type, td.members[i].per)
    IN  IF td.op # "SEQUENCE" THEN Beyond(t, NoPer)
        ELSE UNION {{[j \in DOMAIN td.members |-> IF j = i THEN <<value>> ELSE least[j]]
                        : value \in beyond(i)} : i \in Possible(td)}

=============================================================================
