----------------------------- MODULE AsnNesting -----------------------------
(***************************************************************************)
(* Which types have values.  A regional extension of DSRC holds an open    *)
(* type whose set of types is empty, so that it has no value; other types  *)
(* refer to themselves.                                                    *)
(***************************************************************************)
EXTENDS UperCodec

MaxNesting == 24

(* A type whose members can all be of the types below. *)
HasValue(td, below) ==
    LET has(i) == td.members[i].type \in below
    IN  \/ td.op \notin {"SEQUENCE", "SEQUENCE_OF", "CHOICE", "OPEN_TYPE"}
        \/ td.op = "SEQUENCE" /\ \A i \in DOMAIN td.members : td.members[i].optional \/ has(i)
        \/ td.op = "SEQUENCE_OF" /\ (has(1) \/ SizeConstraint(td, NoPer).lb = Long(0))
        \/ td.op = "CHOICE" /\ \E i \in DOMAIN td.members : has(i)

RECURSIVE NestedUpTo(_, _)
NestedUpTo(table, n) ==
    LET next(below) == {t \in DOMAIN table : HasValue(table[t], below)}
        longer(shallower) == Append(shallower, next(shallower[n - 1]))
    IN  IF n = 1 THEN <<next({})>> ELSE longer(NestedUpTo(table, n - 1))

(* NestedTypes[n] is the set of types with a value nested at most n deep. *)
NestedTypes == NestedUpTo(TypeTable, MaxNesting)
=============================================================================
