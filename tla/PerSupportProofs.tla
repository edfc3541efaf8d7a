--------------------------- MODULE PerSupportProofs ---------------------------
(***************************************************************************)
(* Proofs about PerSupport, for streams and numbers of any size:           *)
(*                                                                         *)
(*   - limbs compute what the numbers they stand for compute, and the      *)
(*     rebasing of a constrained INTEGER loses nothing and lets nothing    *)
(*     out of the range;                                                   *)
(*   - BitsOf and NumberOf are each other's inverse, by induction over the *)
(*     bits (with the least-number principle in place of an induction      *)
(*     rule with an operator parameter);                                   *)
(*   - every number encoding of asn_bit_data.c, per_support.c and INTEGER.c*)
(*     reads back what it wrote, behind any bits and in front of any       *)
(*     others, and notices that bits are missing.                          *)
(***************************************************************************)
EXTENDS PerSupport, WellFoundedInduction, SequenceTheorems, TLAPS

\* the number that a long stands for
Value(a) == LIMB * (LIMB * a[1] + a[2]) + a[3]

\* The limbs of a long.
LEMMA LongParts ==
    ASSUME NEW a \in Longs
    PROVE  /\ a[1] \in Int /\ a[2] \in Limb /\ a[3] \in Limb
           /\ a = <<a[1], a[2], a[3]>>
BY DEF Longs

\* A long stands for a number.
LEMMA LongValue == ASSUME NEW a \in Longs PROVE Value(a) \in Int
BY LongParts, SMT DEF Value, Limb, LIMB

\* Carry normalises: the limbs get into their range and the number stays.
LEMMA CarryValue ==
    ASSUME NEW hi \in Int, NEW mid \in Int, NEW lo \in Int
    PROVE  /\ Carry(hi, mid, lo) \in Longs
           /\ Value(Carry(hi, mid, lo)) = LIMB * (LIMB * hi + mid) + lo
<1> DEFINE m == mid + lo \div LIMB
           c == <<hi + m \div LIMB, m % LIMB, lo % LIMB>>
<1>1. Carry(hi, mid, lo) = c
    BY DEF Carry
<1>2. lo \div LIMB \in Int /\ lo % LIMB \in Limb /\ lo = LIMB * (lo \div LIMB) + (lo % LIMB)
    BY SMT DEF LIMB, Limb
<1>3. m \in Int
    BY <1>2
<1>4. m \div LIMB \in Int /\ m % LIMB \in Limb /\ m = LIMB * (m \div LIMB) + (m % LIMB)
    <2> HIDE DEF m
    <2> QED BY <1>3, SMT DEF LIMB, Limb
<1>5. c \in Longs
    BY <1>2, <1>4 DEF Longs
<1>6. Value(c) = LIMB * (LIMB * (hi + m \div LIMB) + (m % LIMB)) + (lo % LIMB)
    BY DEF Value
<1>7. Value(c) = LIMB * (LIMB * hi + mid) + lo
    <2>1. LIMB * (hi + m \div LIMB) + (m % LIMB) = LIMB * hi + m
        <3> HIDE DEF m
        <3> QED BY <1>3, <1>4, SMT DEF LIMB, Limb
    <2>2. LIMB * (LIMB * hi + m) + (lo % LIMB) = LIMB * (LIMB * hi + mid) + lo
        BY <1>2, SMT DEF LIMB, Limb
    <2> QED BY <1>6, <2>1, <2>2
<1> QED BY <1>1, <1>5, <1>7

\* Sum and difference of longs.
LEMMA PlusMinusValue ==
    ASSUME NEW a \in Longs, NEW b \in Longs
    PROVE  /\ Plus(a, b) \in Longs /\ Value(Plus(a, b)) = Value(a) + Value(b)
           /\ Minus(a, b) \in Longs /\ Value(Minus(a, b)) = Value(a) - Value(b)
<1>1. /\ a[1] \in Int /\ a[2] \in Int /\ a[3] \in Int
      /\ b[1] \in Int /\ b[2] \in Int /\ b[3] \in Int
    BY LongParts, SMT DEF Limb, LIMB
<1>2. /\ Plus(a, b) \in Longs
      /\ Value(Plus(a, b)) = LIMB * (LIMB * (a[1] + b[1]) + (a[2] + b[2])) + (a[3] + b[3])
    BY <1>1, CarryValue DEF Plus
<1>3. /\ Minus(a, b) \in Longs
      /\ Value(Minus(a, b)) = LIMB * (LIMB * (a[1] - b[1]) + (a[2] - b[2])) + (a[3] - b[3])
    BY <1>1, CarryValue DEF Minus
<1>4. /\ LIMB * (LIMB * (a[1] + b[1]) + (a[2] + b[2])) + (a[3] + b[3]) = Value(a) + Value(b)
      /\ LIMB * (LIMB * (a[1] - b[1]) + (a[2] - b[2])) + (a[3] - b[3]) = Value(a) - Value(b)
    BY <1>1, SMT DEF Value, LIMB
<1> QED BY <1>2, <1>3, <1>4

\* The comparison limb by limb is the order of the numbers.
LEMMA LessIsOrder ==
    ASSUME NEW a \in Longs, NEW b \in Longs
    PROVE  Less(a, b) <=> Value(a) < Value(b)
<1>1. /\ a[1] \in Int /\ a[2] \in Limb /\ a[3] \in Limb
      /\ b[1] \in Int /\ b[2] \in Limb /\ b[3] \in Limb
    BY LongParts
<1>2. \A x, y \in Longs : x[1] < y[1] => Value(x) < Value(y)
    BY LongParts, SMT DEF Value, Limb, LIMB
<1>3. \A x, y \in Longs : x[1] = y[1] /\ x[2] < y[2] => Value(x) < Value(y)
    BY LongParts, SMT DEF Value, Limb, LIMB
<1>4. a[1] = b[1] /\ a[2] = b[2] => (Value(a) < Value(b) <=> a[3] < b[3])
    BY <1>1, SMT DEF Value, Limb, LIMB
<1>5. Value(a) \in Int /\ Value(b) \in Int
    BY LongValue
<1>6. /\ a[1] < b[1] \/ a[1] = b[1] \/ b[1] < a[1]
      /\ a[2] < b[2] \/ a[2] = b[2] \/ b[2] < a[2]
      /\ a[1] < b[1] => a[1] # b[1] /\ ~ (b[1] < a[1])
      /\ a[2] < b[2] => a[2] # b[2] /\ ~ (b[2] < a[2])
    BY <1>1, SMT DEF Limb
<1>7. ~ (Value(a) < Value(b) /\ Value(b) < Value(a))
    BY <1>5, SMT
<1> QED BY <1>2, <1>3, <1>4, <1>6, <1>7 DEF Less

\* A number is a long in one way only.
LEMMA ValueInjective ==
    ASSUME NEW a \in Longs, NEW b \in Longs, Value(a) = Value(b)
    PROVE  a = b
<1>1. /\ a[1] \in Int /\ a[2] \in Limb /\ a[3] \in Limb
      /\ b[1] \in Int /\ b[2] \in Limb /\ b[3] \in Limb
      /\ a = <<a[1], a[2], a[3]>> /\ b = <<b[1], b[2], b[3]>>
    BY LongParts
<1>2. a[1] = b[1] /\ a[2] = b[2] /\ a[3] = b[3]
    BY <1>1, SMT DEF Value, Limb, LIMB
<1> QED BY <1>1, <1>2

\* Within is the range of the numbers.
LEMMA WithinIsRange ==
    ASSUME NEW lb \in Longs, NEW v \in Longs, NEW ub \in Longs
    PROVE  Within(lb, v, ub) <=> Value(lb) =< Value(v) /\ Value(v) =< Value(ub)
BY LessIsOrder, LongValue DEF Within

-----------------------------------------------------------------------------
(***************************************************************************)
(* The encoder's per_long_range_rebase refuses exactly the values outside  *)
(* the range, and yields a number that the range's bits can hold; the      *)
(* decoder's per_long_range_unrebase gives the value back.                 *)
(***************************************************************************)
THEOREM RebaseInverse ==
    \A lb, v, ub \in Longs :
        LET r == per_long_range_rebase(v, lb, ub) IN
        /\ r # << >> <=> Within(lb, v, ub)
        /\ r # << >> =>
              /\ r[1] \in Longs
              /\ 0 =< Value(r[1]) /\ Value(r[1]) =< Value(ub) - Value(lb)
              /\ per_long_range_unrebase(r[1], lb, ub) = <<v>>
<1> SUFFICES ASSUME NEW lb \in Longs, NEW v \in Longs, NEW ub \in Longs
             PROVE  LET r == per_long_range_rebase(v, lb, ub) IN
                    /\ r # << >> <=> Within(lb, v, ub)
                    /\ r # << >> =>
                          /\ r[1] \in Longs
                          /\ 0 =< Value(r[1]) /\ Value(r[1]) =< Value(ub) - Value(lb)
                          /\ per_long_range_unrebase(r[1], lb, ub) = <<v>>
    OBVIOUS
<1>1. CASE ~ Within(lb, v, ub)
    BY <1>1 DEF per_long_range_rebase
<1>2. CASE Within(lb, v, ub)
    <2> DEFINE d == Minus(v, lb)
    <2>1. per_long_range_rebase(v, lb, ub) = <<d>>
        BY <1>2 DEF per_long_range_rebase
    <2>2. Value(lb) \in Int /\ Value(v) \in Int /\ Value(ub) \in Int
        BY LongValue
    <2>3. Value(lb) =< Value(v) /\ Value(v) =< Value(ub)
        BY <1>2, WithinIsRange
    <2>4. d \in Longs /\ Value(d) = Value(v) - Value(lb)
        BY PlusMinusValue
    <2> HIDE DEF d
    <2>5. ~ Less(ub, lb) /\ ~ Less(Minus(ub, lb), d)
        BY <2>2, <2>3, <2>4, LessIsOrder, PlusMinusValue
    <2>6. Plus(d, lb) = v
        BY <2>2, <2>4, PlusMinusValue, ValueInjective
    <2>7. per_long_range_unrebase(d, lb, ub) = <<v>>
        BY <2>5, <2>6 DEF per_long_range_unrebase
    <2> QED BY <1>2, <2>1, <2>2, <2>3, <2>4, <2>7
<1> QED BY <1>1, <1>2

(***************************************************************************)
(* Whatever number the bits of a packet hold, the decoder's                *)
(* per_long_range_unrebase answers with a value inside the range or        *)
(* refuses it, and different numbers never become the same value.          *)
(***************************************************************************)
THEOREM UnrebaseInRange ==
    \A lb, inp, ub \in Longs : 0 =< Value(inp) =>
        LET v == per_long_range_unrebase(inp, lb, ub) IN
        /\ v # << >> <=> Value(inp) =< Value(ub) - Value(lb)
        /\ v # << >> => /\ v[1] \in Longs /\ Within(lb, v[1], ub)
                        /\ per_long_range_rebase(v[1], lb, ub) = <<inp>>
<1> SUFFICES ASSUME NEW lb \in Longs, NEW inp \in Longs, NEW ub \in Longs, 0 =< Value(inp)
             PROVE  LET v == per_long_range_unrebase(inp, lb, ub) IN
                    /\ v # << >> <=> Value(inp) =< Value(ub) - Value(lb)
                    /\ v # << >> => /\ v[1] \in Longs /\ Within(lb, v[1], ub)
                                    /\ per_long_range_rebase(v[1], lb, ub) = <<inp>>
    OBVIOUS
<1>1. Value(lb) \in Int /\ Value(inp) \in Int /\ Value(ub) \in Int
    BY LongValue
<1>2. Less(ub, lb) \/ Less(Minus(ub, lb), inp) <=> ~ (Value(inp) =< Value(ub) - Value(lb))
    <2>1. Less(Minus(ub, lb), inp) <=> Value(ub) - Value(lb) < Value(inp)
        BY LessIsOrder, PlusMinusValue
    <2>2. Less(ub, lb) <=> Value(ub) < Value(lb)
        BY LessIsOrder
    <2> QED BY <1>1, <2>1, <2>2
<1>3. CASE ~ (Value(inp) =< Value(ub) - Value(lb))
    BY <1>2, <1>3 DEF per_long_range_unrebase
<1>4. CASE Value(inp) =< Value(ub) - Value(lb)
    <2> DEFINE s == Plus(inp, lb)
    <2>1. per_long_range_unrebase(inp, lb, ub) = <<s>>
        BY <1>2, <1>4 DEF per_long_range_unrebase
    <2>2. s \in Longs /\ Value(s) = Value(inp) + Value(lb)
        BY PlusMinusValue
    <2> HIDE DEF s
    <2>3. Within(lb, s, ub)
        BY <1>1, <1>4, <2>2, WithinIsRange
    <2>4. Minus(s, lb) = inp
        BY <1>1, <2>2, PlusMinusValue, ValueInjective
    <2>5. per_long_range_rebase(s, lb, ub) = <<inp>>
        BY <2>3, <2>4 DEF per_long_range_rebase
    <2> QED BY <1>4, <2>1, <2>2, <2>3, <2>5
<1> QED BY <1>3, <1>4

-----------------------------------------------------------------------------
(* Powers of two, up to the 31 bits that asn_get_few_bits takes. *)

\* Equals may be put for equals in an exponent, one exponent at a time.
LEMMA PowerCase ==
    ASSUME NEW k
    PROVE
           /\ (k = 0 => 2^k = 2^0)
           /\ (k = 1 => 2^k = 2^1)
           /\ (k = 2 => 2^k = 2^2)
           /\ (k = 3 => 2^k = 2^3)
           /\ (k = 4 => 2^k = 2^4)
           /\ (k = 5 => 2^k = 2^5)
           /\ (k = 6 => 2^k = 2^6)
           /\ (k = 7 => 2^k = 2^7)
           /\ (k = 8 => 2^k = 2^8)
           /\ (k = 9 => 2^k = 2^9)
           /\ (k = 10 => 2^k = 2^10)
           /\ (k = 11 => 2^k = 2^11)
           /\ (k = 12 => 2^k = 2^12)
           /\ (k = 13 => 2^k = 2^13)
           /\ (k = 14 => 2^k = 2^14)
           /\ (k = 15 => 2^k = 2^15)
           /\ (k = 16 => 2^k = 2^16)
           /\ (k = 17 => 2^k = 2^17)
           /\ (k = 18 => 2^k = 2^18)
           /\ (k = 19 => 2^k = 2^19)
           /\ (k = 20 => 2^k = 2^20)
           /\ (k = 21 => 2^k = 2^21)
           /\ (k = 22 => 2^k = 2^22)
           /\ (k = 23 => 2^k = 2^23)
           /\ (k = 24 => 2^k = 2^24)
           /\ (k = 25 => 2^k = 2^25)
           /\ (k = 26 => 2^k = 2^26)
           /\ (k = 27 => 2^k = 2^27)
           /\ (k = 28 => 2^k = 2^28)
           /\ (k = 29 => 2^k = 2^29)
           /\ (k = 30 => 2^k = 2^30)
           /\ (k = 31 => 2^k = 2^31)
BY Zenon

\* The powers that the provers compute.
LEMMA PowerTable ==
    ASSUME NEW k
    PROVE
           /\ (k = 0 => 2^k = 1)
           /\ (k = 1 => 2^k = 2)
           /\ (k = 2 => 2^k = 4)
           /\ (k = 3 => 2^k = 8)
           /\ (k = 4 => 2^k = 16)
           /\ (k = 5 => 2^k = 32)
           /\ (k = 6 => 2^k = 64)
           /\ (k = 7 => 2^k = 128)
           /\ (k = 8 => 2^k = 256)
           /\ (k = 9 => 2^k = 512)
           /\ (k = 10 => 2^k = 1024)
           /\ (k = 11 => 2^k = 2048)
           /\ (k = 12 => 2^k = 4096)
           /\ (k = 13 => 2^k = 8192)
           /\ (k = 14 => 2^k = 16384)
           /\ (k = 15 => 2^k = 32768)
           /\ (k = 16 => 2^k = 65536)
           /\ (k = 17 => 2^k = 131072)
           /\ (k = 18 => 2^k = 262144)
           /\ (k = 19 => 2^k = 524288)
           /\ (k = 20 => 2^k = 1048576)
           /\ (k = 21 => 2^k = 2097152)
           /\ (k = 22 => 2^k = 4194304)
           /\ (k = 23 => 2^k = 8388608)
           /\ (k = 24 => 2^k = 16777216)
           /\ (k = 25 => 2^k = 33554432)
           /\ (k = 26 => 2^k = 67108864)
           /\ (k = 27 => 2^k = 134217728)
           /\ (k = 28 => 2^k = 268435456)
           /\ (k = 29 => 2^k = 536870912)
           /\ (k = 30 => 2^k = 1073741824)
           /\ (k = 31 => 2^k = 2147483648)
BY PowerCase, SMT

\* A width of at most 31 bits is one of these.
LEMMA WidthCases ==
    ASSUME NEW k \in Int, 0 =< k, k =< 31
    PROVE
           \/ k = 0
           \/ k = 1
           \/ k = 2
           \/ k = 3
           \/ k = 4
           \/ k = 5
           \/ k = 6
           \/ k = 7
           \/ k = 8
           \/ k = 9
           \/ k = 10
           \/ k = 11
           \/ k = 12
           \/ k = 13
           \/ k = 14
           \/ k = 15
           \/ k = 16
           \/ k = 17
           \/ k = 18
           \/ k = 19
           \/ k = 20
           \/ k = 21
           \/ k = 22
           \/ k = 23
           \/ k = 24
           \/ k = 25
           \/ k = 26
           \/ k = 27
           \/ k = 28
           \/ k = 29
           \/ k = 30
           \/ k = 31
BY SMT

\* Powers of two are positive numbers.
LEMMA PowerPositive ==
    ASSUME NEW k \in Nat, k =< 31
    PROVE  2^k \in Nat /\ 2^k > 0
BY PowerTable, WidthCases, SMT

\* The next power is twice the last.
LEMMA PowerDouble ==
    ASSUME NEW k \in Nat, k =< 30
    PROVE  2^(k+1) = 2 * 2^k
<1> DEFINE j == k + 1
<1>1. 2^j = 2 * 2^k
    <2>1. j = k + 1 /\ j \in Nat /\ j =< 31 OBVIOUS
    <2> HIDE DEF j
    <2>2. QED BY <2>1, PowerTable, WidthCases, SMT
<1> QED BY <1>1

-----------------------------------------------------------------------------
\* A set of natural numbers that is not empty has a least member.
LEMMA LeastNumber ==
    ASSUME NEW T, T \subseteq Nat, T # {}
    PROVE  \E x \in T : \A y \in T : x =< y
<1> DEFINE R == OpToRel(<, Nat)
<1>1. IsWellFoundedOn(R, Nat)
    BY NatLessThanWellFounded
<1>2. \A x, y \in Nat : <<y, x>> \in R <=> y < x
    BY DEF OpToRel
<1> HIDE DEF R
<1>3. PICK x \in T : \A y \in T : ~ (<<y, x>> \in R)
    BY <1>1, WFMin
<1>4. ASSUME NEW y \in T PROVE x =< y
    <2>1. x \in Nat /\ y \in Nat
        OBVIOUS
    <2>2. ~ (y < x)
        BY <1>2, <1>3, <2>1
    <2> QED BY <2>1, <2>2
<1> QED BY <1>4

\* Induction up to a bound, by the least number that would break it.
LEMMA UpTo ==
    ASSUME NEW n \in Nat, NEW S, 0 \in S, \A i \in Nat : i < n /\ i \in S => i + 1 \in S
    PROVE  \A i \in Nat : i =< n => i \in S
<1> DEFINE T == {i \in Nat : i =< n /\ i \notin S}
<1> SUFFICES ASSUME T # {} PROVE FALSE
    OBVIOUS
<1>1. PICK x \in T : \A y \in T : x =< y
    BY LeastNumber
<1>2. x \in Nat /\ x =< n /\ x \notin S /\ x # 0
    OBVIOUS
<1>3. x - 1 \in Nat /\ x - 1 < n /\ x - 1 + 1 = x /\ ~ (x =< x - 1)
    BY <1>2
<1>4. x - 1 \in S
    BY <1>1, <1>3
<1> QED BY <1>2, <1>3, <1>4

\* The streams.
Bits == Seq({0, 1})

\* u[i] is the number of the first i bits.
Recurrence(bits, n, u) ==
    /\ u[0] = 0
    /\ \A i \in 1 .. n : u[i] = 2 * u[i - 1] + bits[i]

\* A stream, its length and its bits.
LEMMA BitsParts ==
    ASSUME NEW bits \in Bits
    PROVE  /\ Len(bits) \in Nat /\ DOMAIN bits = 1 .. Len(bits)
           /\ \A i \in 1 .. Len(bits) : bits[i] \in {0, 1}
BY DEF Bits

\* The recurrence behind NumberOf has a solution ...
LEMMA RecurrenceExists ==
    ASSUME NEW bits \in Bits
    PROVE  \E u \in [0 .. Len(bits) -> Nat] : Recurrence(bits, Len(bits), u)
<1> DEFINE n == Len(bits)
           S == {m \in Nat : \E u \in [0 .. m -> Nat] : Recurrence(bits, m, u)}
<1>1. n \in Nat /\ \A i \in 1 .. n : bits[i] \in {0, 1}
    BY BitsParts
<1>2. 0 \in S
    <2> DEFINE u == [i \in 0 .. 0 |-> 0]
    <2>1. u \in [0 .. 0 -> Nat] /\ Recurrence(bits, 0, u)
        BY DEF Recurrence
    <2> QED BY <2>1
<1>3. ASSUME NEW m \in Nat, m < n, m \in S PROVE m + 1 \in S
    <2>1. PICK u \in [0 .. m -> Nat] : Recurrence(bits, m, u)
        BY <1>3
    <2>2. m + 1 \in 1 .. n /\ m \in 0 .. m
        BY <1>1, <1>3
    <2>3. bits[m + 1] \in Nat
        BY <1>1, <2>2
    <2> DEFINE w == [i \in 0 .. m + 1 |-> IF i = m + 1 THEN 2 * u[m] + bits[m + 1] ELSE u[i]]
    <2>4. w \in [0 .. m + 1 -> Nat]
        <3> SUFFICES ASSUME NEW i \in 0 .. m + 1 PROVE w[i] \in Nat
            OBVIOUS
        <3>1. u[m] \in Nat
            BY <2>2
        <3>2. CASE i = m + 1
            BY <2>3, <3>1, <3>2
        <3>3. CASE i # m + 1
            <4>1. i \in 0 .. m
                BY <3>3
            <4> QED BY <3>3, <4>1
        <3> QED BY <3>2, <3>3
    <2>5. Recurrence(bits, m + 1, w)
        <3>1. w[0] = 0
            BY <2>1 DEF Recurrence
        <3>2. ASSUME NEW i \in 1 .. m + 1 PROVE w[i] = 2 * w[i - 1] + bits[i]
            <4>1. CASE i = m + 1
                BY <4>1
            <4>2. CASE i # m + 1
                <5>1. i \in 1 .. m /\ i - 1 # m + 1 /\ i - 1 \in 0 .. m + 1
                    BY <4>2
                <5>2. u[i] = 2 * u[i - 1] + bits[i]
                    BY <2>1, <5>1 DEF Recurrence
                <5> QED BY <4>2, <5>1, <5>2
            <4> QED BY <4>1, <4>2
        <3> QED BY <3>1, <3>2 DEF Recurrence
    <2> QED BY <2>4, <2>5
<1> HIDE DEF S
<1>4. \A i \in Nat : i =< n => i \in S
    BY <1>1, <1>2, <1>3, UpTo
<1>5. n \in S
    BY <1>1, <1>4
<1> QED BY <1>5 DEF S

\* ... and only one ...
LEMMA RecurrenceUnique ==
    ASSUME NEW bits \in Bits, NEW u, NEW w,
           Recurrence(bits, Len(bits), u), Recurrence(bits, Len(bits), w)
    PROVE  \A i \in Nat : i =< Len(bits) => u[i] = w[i]
<1> DEFINE n == Len(bits)
           S == {m \in Nat : u[m] = w[m]}
<1>1. n \in Nat
    BY BitsParts
<1>2. 0 \in S
    BY DEF Recurrence
<1>3. ASSUME NEW m \in Nat, m < n, m \in S PROVE m + 1 \in S
    <2>1. m + 1 \in 1 .. n /\ m + 1 - 1 = m
        BY <1>1, <1>3
    <2>2. u[m + 1] = 2 * u[m] + bits[m + 1] /\ w[m + 1] = 2 * w[m] + bits[m + 1]
        BY <2>1 DEF Recurrence
    <2> QED BY <1>3, <2>2
<1> HIDE DEF S
<1>4. \A i \in Nat : i =< n => i \in S
    BY <1>1, <1>2, <1>3, UpTo
<1> QED BY <1>4 DEF S

\* ... of which NumberOf is the last value.
LEMMA NumberOfRecurrence ==
    ASSUME NEW bits \in Bits, NEW w, Recurrence(bits, Len(bits), w)
    PROVE  NumberOf(bits) = w[Len(bits)]
<1> DEFINE n == Len(bits)
           F(g) == [i \in 0 .. n |-> IF i = 0 THEN 0 ELSE 2 * g[i - 1] + bits[i]]
           c == CHOOSE g : g = F(g)
<1>1. NumberOf(bits) = c[n]
    BY DEF NumberOf
<1>2. n \in Nat
    BY BitsParts
<1>3. PICK u \in [0 .. n -> Nat] : Recurrence(bits, n, u)
    BY RecurrenceExists
<1>4. u = F(u)
    <2>1. ASSUME NEW i \in 0 .. n PROVE u[i] = F(u)[i]
        <3>1. CASE i = 0
            BY <1>3, <3>1 DEF Recurrence
        <3>2. CASE i # 0
            <4>1. i \in 1 .. n
                BY <3>2
            <4> QED BY <1>3, <3>2, <4>1 DEF Recurrence
        <3> QED BY <3>1, <3>2
    <2> QED BY <2>1
<1>5. c = F(c)
    BY <1>4
<1>6. Recurrence(bits, n, c)
    <2> HIDE DEF c
    <2>1. c[0] = 0
        BY <1>2, <1>5
    <2>2. ASSUME NEW i \in 1 .. n PROVE c[i] = 2 * c[i - 1] + bits[i]
        <3>1. i \in 0 .. n /\ i # 0
            BY <1>2
        <3> QED BY <1>5, <3>1
    <2> QED BY <2>1, <2>2 DEF Recurrence
<1> HIDE DEF c
<1> QED BY <1>1, <1>2, <1>6, RecurrenceUnique

\* Dividing by two once more.
LEMMA HalfOf ==
    ASSUME NEW v \in Nat, NEW a \in Nat, a > 0
    PROVE  (v \div a) \div 2 = v \div (2 * a)
BY SMT

\* Quotients are natural numbers.
LEMMA DivideOut ==
    ASSUME NEW v \in Nat, NEW k \in Nat, k =< 31
    PROVE  v \div 2^k \in Nat
<1>1. 2^k \in Nat /\ 2^k > 0
    BY PowerPositive
<1>2. ASSUME NEW a \in Nat, a > 0 PROVE v \div a \in Nat
    BY <1>2, SMT
<1> QED BY <1>1, <1>2

\* Dividing by the next power is halving what the last one left.
LEMMA HalfPower ==
    ASSUME NEW v \in Nat, NEW k \in Nat, k =< 30
    PROVE  v \div 2^(k + 1) = (v \div 2^k) \div 2
<1>1. 2^k \in Nat /\ 2^k > 0
    BY PowerPositive
<1>2. 2^(k + 1) = 2 * 2^k
    BY PowerDouble
<1> QED BY <1>1, <1>2, HalfOf

\* BitsOf writes as many bits as it is told to.
LEMMA BitsOfType ==
    ASSUME NEW v \in Nat, NEW n \in Nat, n =< 31
    PROVE  /\ BitsOf(v, n) \in Bits /\ Len(BitsOf(v, n)) = n
           /\ \A i \in 1 .. n : BitsOf(v, n)[i] = (v \div 2^(n - i)) % 2
<1>1. ASSUME NEW i \in 1 .. n PROVE (v \div 2^(n - i)) % 2 \in {0, 1}
    <2>1. n - i \in Nat /\ n - i =< 31
        OBVIOUS
    <2>2. v \div 2^(n - i) \in Nat
        BY <2>1, DivideOut
    <2>3. ASSUME NEW x \in Nat PROVE x % 2 \in {0, 1}
        BY SMT
    <2> QED BY <2>2, <2>3
<1>2. BitsOf(v, n) \in [1 .. n -> {0, 1}]
    BY <1>1 DEF BitsOf
<1>3. \A i \in 1 .. n : BitsOf(v, n)[i] = (v \div 2^(n - i)) % 2
    BY DEF BitsOf
<1> QED BY <1>2, <1>3 DEF Bits

\* The number read from the bits of a number that fits is that number ...
LEMMA NumberOfBitsOf ==
    ASSUME NEW v \in Nat, NEW n \in Nat, n =< 31, v < 2^n
    PROVE  NumberOf(BitsOf(v, n)) = v
<1> DEFINE b == BitsOf(v, n)
           w == [i \in 0 .. n |-> v \div 2^(n - i)]
<1>1. b \in Bits /\ Len(b) = n /\ \A i \in 1 .. n : b[i] = (v \div 2^(n - i)) % 2
    BY BitsOfType
<1>2. w[0] = 0
    <2>1. w[0] = v \div 2^n
        <3>1. 0 \in 0 .. n /\ n - 0 = n
            OBVIOUS
        <3> QED BY <3>1
    <2>2. 2^n \in Nat /\ 2^n > 0
        BY PowerPositive
    <2>3. ASSUME NEW a \in Nat, v < a PROVE v \div a = 0
        BY <2>3, SMT
    <2> QED BY <2>1, <2>2, <2>3
<1>3. ASSUME NEW i \in 1 .. n PROVE w[i] = 2 * w[i - 1] + b[i]
    <2> DEFINE k == n - i
    <2>1. k \in Nat /\ k =< 30 /\ n - (i - 1) = k + 1 /\ i \in 0 .. n /\ i - 1 \in 0 .. n
        OBVIOUS
    <2>2. w[i] = v \div 2^k /\ w[i - 1] = v \div 2^(k + 1)
        BY <2>1
    <2>3. b[i] = (v \div 2^k) % 2
        BY <1>1
    <2>4. v \div 2^(k + 1) = (v \div 2^k) \div 2 /\ v \div 2^k \in Nat
        BY <2>1, HalfPower, DivideOut
    <2>5. ASSUME NEW x \in Nat PROVE x = 2 * (x \div 2) + (x % 2)
        BY SMT
    <2> HIDE DEF k, w, b
    <2> QED BY <2>2, <2>3, <2>4, <2>5
<1>4. w[n] = v
    <2>1. n \in 0 .. n /\ n - n = 0
        OBVIOUS
    <2>2. w[n] = v \div 2^0
        BY <2>1
    <2>3. 2^0 = 1
        BY PowerTable
    <2> HIDE DEF w
    <2> QED BY <2>2, <2>3, SMT
<1>5. Recurrence(b, Len(b), w)
    <2> HIDE DEF w, b
    <2> QED BY <1>1, <1>2, <1>3 DEF Recurrence
<1> HIDE DEF w, b
<1>6. NumberOf(b) = w[Len(b)]
    BY <1>1, <1>5, NumberOfRecurrence
<1>7. NumberOf(b) = v
    BY <1>1, <1>4, <1>6
<1> QED BY <1>7 DEF b

\* ... any n bits denote a number below 2^n ...
LEMMA NumberOfRange ==
    ASSUME NEW bits \in Bits, Len(bits) =< 31
    PROVE  NumberOf(bits) \in Nat /\ NumberOf(bits) < 2^Len(bits)
<1> DEFINE n == Len(bits)
<1>1. n \in Nat /\ \A i \in 1 .. n : bits[i] \in {0, 1}
    BY BitsParts
<1>2. PICK u \in [0 .. n -> Nat] : Recurrence(bits, n, u)
    BY RecurrenceExists
<1> DEFINE S == {i \in Nat : u[i] \in Nat /\ u[i] < 2^i}
<1>3. 0 \in S
    <2>1. u[0] = 0 /\ 2^0 = 1
        BY <1>2, PowerTable DEF Recurrence
    <2> QED BY <2>1
<1>4. ASSUME NEW i \in Nat, i < n, i \in S PROVE i + 1 \in S
    <2>1. i + 1 \in 1 .. n /\ i + 1 - 1 = i /\ i =< 30
        BY <1>1, <1>4
    <2>2. u[i + 1] = 2 * u[i] + bits[i + 1] /\ bits[i + 1] \in {0, 1}
        BY <1>1, <1>2, <2>1 DEF Recurrence
    <2>3. 2^(i + 1) = 2 * 2^i /\ 2^i \in Nat
        BY <2>1, PowerDouble, PowerPositive
    <2>4. ASSUME NEW p \in Nat, NEW x \in Nat, x < p, NEW b \in {0, 1}
          PROVE  2 * x + b \in Nat /\ 2 * x + b < 2 * p
        BY <2>4, SMT
    <2> QED BY <1>4, <2>2, <2>3, <2>4
<1> HIDE DEF S
<1>5. \A i \in Nat : i =< n => i \in S
    BY <1>1, <1>3, <1>4, UpTo
<1>6. u[n] \in Nat /\ u[n] < 2^n
    BY <1>1, <1>5 DEF S
<1> QED BY <1>2, <1>6, NumberOfRecurrence

\* ... and the bits of that number are these bits.
LEMMA BitsOfNumberOf ==
    ASSUME NEW bits \in Bits, Len(bits) =< 31
    PROVE  BitsOf(NumberOf(bits), Len(bits)) = bits
<1> DEFINE n == Len(bits)
<1>1. n \in Nat /\ \A i \in 1 .. n : bits[i] \in {0, 1}
    BY BitsParts
<1>2. PICK u \in [0 .. n -> Nat] : Recurrence(bits, n, u)
    BY RecurrenceExists
<1>3. NumberOf(bits) = u[n]
    BY <1>2, NumberOfRecurrence
<1>4. u[n] \in Nat
    BY <1>1
<1> DEFINE S == {k \in Nat : u[n] \div 2^k = u[n - k]}
<1>5. 0 \in S
    <2>1. n - 0 = n /\ 2^0 = 1
        BY <1>1, PowerTable
    <2>2. u[n] \div 1 = u[n]
        BY <1>4, SMT
    <2> QED BY <2>1, <2>2
<1>6. ASSUME NEW k \in Nat, k < n, k \in S PROVE k + 1 \in S
    <2>1. n - k \in 1 .. n /\ n - k - 1 = n - (k + 1) /\ k =< 30 /\ n - (k + 1) \in 0 .. n
        BY <1>1, <1>6
    <2>2. u[n - k] = 2 * u[n - (k + 1)] + bits[n - k] /\ bits[n - k] \in {0, 1}
        BY <1>1, <1>2, <2>1 DEF Recurrence
    <2>3. u[n] \div 2^(k + 1) = (u[n] \div 2^k) \div 2
        BY <1>4, <2>1, HalfPower
    <2>4. ASSUME NEW x \in Nat, NEW b \in {0, 1} PROVE (2 * x + b) \div 2 = x
        BY SMT
    <2>5. u[n - (k + 1)] \in Nat
        BY <2>1
    <2>6. u[n] \div 2^k = u[n - k]
        BY <1>6
    <2>7. u[n - k] \div 2 = u[n - (k + 1)]
        BY <2>2, <2>4, <2>5
    <2>8. u[n] \div 2^(k + 1) = u[n - (k + 1)]
        BY <2>3, <2>6, <2>7
    <2> QED BY <2>8
<1> HIDE DEF S
<1>7. \A k \in Nat : k =< n => k \in S
    BY <1>1, <1>5, <1>6, UpTo
<1>8. ASSUME NEW i \in 1 .. n PROVE BitsOf(u[n], n)[i] = bits[i]
    <2>1. n - i \in Nat /\ n - i =< n /\ n - (n - i) = i /\ i - 1 \in 0 .. n
        BY <1>1
    <2>2. u[n] \div 2^(n - i) = u[i]
        BY <1>7, <2>1 DEF S
    <2>3. BitsOf(u[n], n)[i] = (u[n] \div 2^(n - i)) % 2
        BY <1>1, <1>4, BitsOfType
    <2>4. u[i] = 2 * u[i - 1] + bits[i] /\ bits[i] \in {0, 1} /\ u[i - 1] \in Nat
        BY <1>1, <1>2, <2>1 DEF Recurrence
    <2>5. ASSUME NEW x \in Nat, NEW b \in {0, 1} PROVE (2 * x + b) % 2 = b
        BY SMT
    <2> QED BY <2>2, <2>3, <2>4, <2>5
<1>9. BitsOf(u[n], n) \in Bits /\ Len(BitsOf(u[n], n)) = n
    BY <1>1, <1>4, BitsOfType
<1>10. BitsOf(u[n], n) = bits
    BY <1>8, <1>9, <1>1 DEF Bits
<1> QED BY <1>3, <1>10

-----------------------------------------------------------------------------
(* Streams: what lies where. *)

\* The stream pd holds the bits x from position pos on.
At(pd, pos, x) ==
    /\ pos + Len(x) =< Len(pd)
    /\ \A i \in 1 .. Len(x) : pd[pos + i] = x[i]

\* Two streams one behind the other.
LEMMA BitsConcat ==
    ASSUME NEW x \in Bits, NEW y \in Bits
    PROVE  /\ x \o y \in Bits /\ Len(x \o y) = Len(x) + Len(y)
           /\ \A i \in 1 .. Len(x) : (x \o y)[i] = x[i]
           /\ \A i \in 1 .. Len(y) : (x \o y)[Len(x) + i] = y[i]
BY ConcatProperties DEF Bits

\* A piece of a stream.
LEMMA BitsSub ==
    ASSUME NEW x \in Bits, NEW m \in Nat, NEW n \in Nat, m + n =< Len(x)
    PROVE  /\ SubSeq(x, m + 1, m + n) \in Bits
           /\ Len(SubSeq(x, m + 1, m + n)) = n
           /\ \A i \in 1 .. n : SubSeq(x, m + 1, m + n)[i] = x[m + i]
<1>1. \A i \in m + 1 .. m + n : x[i] \in {0, 1}
    BY BitsParts
<1>2. /\ SubSeq(x, m + 1, m + n) \in Seq({0, 1})
      /\ Len(SubSeq(x, m + 1, m + n)) = IF m + 1 <= m + n THEN m + n - (m + 1) + 1 ELSE 0
      /\ \A i \in 1 .. m + n - (m + 1) + 1 : SubSeq(x, m + 1, m + n)[i] = x[m + 1 + i - 1]
    BY <1>1, SubSeqProperties
<1> QED BY <1>2 DEF Bits

\* x are the n bits of b behind the first m.
IsPart(b, m, n, x) ==
    m \in Nat /\ n \in Nat /\ m + n =< Len(b) /\ x = SubSeq(b, m + 1, m + n)

\* A piece of a stream, with the premises in one.
LEMMA PartBits ==
    ASSUME NEW b \in Bits, NEW m, NEW n, NEW x, IsPart(b, m, n, x)
    PROVE  x \in Bits /\ Len(x) = n /\ \A i \in 1 .. n : x[i] = b[m + i]
BY BitsSub DEF IsPart

\* Streams with the same bits are the same.
LEMMA BitsEqual ==
    ASSUME NEW x \in Bits, NEW y \in Bits, Len(x) = Len(y), \A i \in 1 .. Len(x) : x[i] = y[i]
    PROVE  x = y
BY SeqEqual DEF Bits

\* Taking as many bits as x has, where x lies, gives x.
LEMMA AtGet ==
    ASSUME NEW pd \in Bits, NEW pos \in Nat, NEW x \in Bits, At(pd, pos, x)
    PROVE  SubSeq(pd, pos + 1, pos + Len(x)) = x
<1> DEFINE s == SubSeq(pd, pos + 1, pos + Len(x))
<1>1. Len(x) \in Nat /\ pos + Len(x) =< Len(pd)
    BY BitsParts DEF At
<1>2. s \in Bits /\ Len(s) = Len(x) /\ \A i \in 1 .. Len(x) : s[i] = pd[pos + i]
    BY <1>1, BitsSub
<1> HIDE DEF s
<1>3. s = x
    BY <1>2, BitsEqual DEF At
<1> QED BY <1>3 DEF s

\* Of two pieces written one behind the other each lies in its place.
LEMMA AtConcat ==
    ASSUME NEW pd \in Bits, NEW pos \in Nat, NEW x \in Bits, NEW y \in Bits, At(pd, pos, x \o y)
    PROVE  At(pd, pos, x) /\ At(pd, pos + Len(x), y)
<1>1. Len(x) \in Nat /\ Len(y) \in Nat /\ Len(pd) \in Nat /\ Len(x \o y) = Len(x) + Len(y)
    BY BitsParts, BitsConcat
<1>2. At(pd, pos, x)
    BY <1>1, BitsConcat DEF At
<1>3. ASSUME NEW i \in 1 .. Len(y) PROVE pd[pos + Len(x) + i] = y[i]
    <2>1. Len(x) + i \in 1 .. Len(x \o y) /\ pos + (Len(x) + i) = pos + Len(x) + i
        BY <1>1
    <2>2. (x \o y)[Len(x) + i] = y[i]
        BY BitsConcat
    <2> QED BY <2>1, <2>2 DEF At
<1>4. At(pd, pos + Len(x), y)
    BY <1>1, <1>3 DEF At
<1> QED BY <1>2, <1>4

\* What was appended to a and is followed by rest lies behind a.
LEMMA AtOutput ==
    ASSUME NEW a \in Bits, NEW x \in Bits, NEW rest \in Bits
    PROVE  At((a \o x) \o rest, Len(a), x)
<1>1. Len(a) \in Nat /\ Len(x) \in Nat /\ Len(rest) \in Nat
    BY BitsParts
<1>2. a \o x \in Bits /\ Len(a \o x) = Len(a) + Len(x)
    BY BitsConcat
<1>3. Len((a \o x) \o rest) = Len(a) + Len(x) + Len(rest)
    BY <1>2, BitsConcat
<1>4. ASSUME NEW i \in 1 .. Len(x) PROVE ((a \o x) \o rest)[Len(a) + i] = x[i]
    <2>1. Len(a) + i \in 1 .. Len(a \o x)
        BY <1>1, <1>2
    <2>2. ((a \o x) \o rest)[Len(a) + i] = (a \o x)[Len(a) + i]
        BY <1>2, <2>1, BitsConcat
    <2>3. (a \o x)[Len(a) + i] = x[i]
        BY BitsConcat
    <2> QED BY <2>2, <2>3
<1> QED BY <1>1, <1>3, <1>4 DEF At

\* asn_bit_data.c: what was put is got.
LEMMA GetFewBits ==
    ASSUME NEW pd \in Bits, NEW pos \in Nat, NEW v \in Nat, NEW n \in Nat, n =< 31, v < 2^n,
           At(pd, pos, BitsOf(v, n))
    PROVE  asn_get_few_bits(pd, pos, n) = v
<1>1. BitsOf(v, n) \in Bits /\ Len(BitsOf(v, n)) = n
    BY BitsOfType
<1>2. SubSeq(pd, pos + 1, pos + n) = BitsOf(v, n)
    BY <1>1, AtGet
<1>3. ~ (pos + n > Len(pd))
    BY <1>1, BitsParts DEF At
<1> QED BY <1>2, <1>3, NumberOfBitsOf DEF asn_get_few_bits

\* asn_get_few_bits answers -1 or a number of that many bits.
LEMMA FewBitsRange ==
    ASSUME NEW pd \in Bits, NEW pos \in Nat, NEW n \in Nat, n =< 31
    PROVE  \/ asn_get_few_bits(pd, pos, n) = -1 /\ pos + n > Len(pd)
           \/ /\ pos + n =< Len(pd)
              /\ asn_get_few_bits(pd, pos, n) \in Nat /\ asn_get_few_bits(pd, pos, n) < 2^n
<1>1. Len(pd) \in Nat
    BY BitsParts
<1>2. CASE pos + n > Len(pd)
    BY <1>2 DEF asn_get_few_bits
<1>3. CASE ~ (pos + n > Len(pd))
    <2>1. pos + n =< Len(pd)
        BY <1>1, <1>3
    <2>2. /\ SubSeq(pd, pos + 1, pos + n) \in Bits
          /\ Len(SubSeq(pd, pos + 1, pos + n)) = n
        BY <2>1, BitsSub
    <2> QED BY <1>3, <2>1, <2>2, NumberOfRange DEF asn_get_few_bits
<1> QED BY <1>2, <1>3

-----------------------------------------------------------------------------
(* A number of several fields. *)

\* Dividing by one power and then by another.
LEMMA DividePowers ==
    ASSUME NEW v \in Nat, NEW n \in Nat, NEW k \in Nat, n + k =< 31
    PROVE  (v \div 2^n) \div 2^k = v \div 2^(n + k)
<1> DEFINE x == v \div 2^n
           S == {j \in Nat : x \div 2^j = v \div 2^(n + j)}
<1>1. x \in Nat
    BY DivideOut
<1>2. 0 \in S
    <2>1. n + 0 = n /\ 2^0 = 1
        BY PowerTable
    <2> HIDE DEF x
    <2>2. x \div 1 = x
        BY <1>1, SMT
    <2> QED BY <2>1, <2>2 DEF x
<1>3. ASSUME NEW j \in Nat, j < k, j \in S PROVE j + 1 \in S
    <2>1. n + (j + 1) = n + j + 1 /\ j =< 30 /\ n + j =< 30 /\ n + j \in Nat
        BY <1>3
    <2>2. x \div 2^(j + 1) = (x \div 2^j) \div 2
        <3> HIDE DEF x
        <3> QED BY <1>1, <2>1, HalfPower
    <2>3. v \div 2^(n + j + 1) = (v \div 2^(n + j)) \div 2
        BY <2>1, HalfPower
    <2>4. x \div 2^j = v \div 2^(n + j)
        BY <1>3
    <2>5. x \div 2^(j + 1) = v \div 2^(n + (j + 1))
        BY <2>1, <2>2, <2>3, <2>4
    <2> QED BY <2>5
<1> HIDE DEF S
<1>4. \A j \in Nat : j =< k => j \in S
    BY <1>2, <1>3, UpTo
<1> QED BY <1>4 DEF S

\* The last bit of a number is not changed by an even multiple.
LEMMA Halves ==
    ASSUME NEW x \in Nat, NEW y \in Nat
    PROVE  (2 * x + y) \div 2 = x + y \div 2 /\ (2 * x + y) % 2 = y % 2
BY SMT

\* Quotient and remainder.
LEMMA DivMod ==
    ASSUME NEW v \in Nat, NEW a \in Nat, a > 0
    PROVE  /\ v \div a \in Nat /\ v % a \in Nat /\ v % a < a
           /\ v = (v \div a) * a + (v % a)
BY SMT

\* The last n bits of a number are those of its remainder.
LEMMA RemainderBits ==
    ASSUME NEW v \in Nat, NEW n \in Nat, NEW k \in Nat, k =< n, n =< 31
    PROVE  v \div 2^k = (v \div 2^n) * 2^(n - k) + ((v % 2^n) \div 2^k)
<1> DEFINE q == v \div 2^n
           r == v % 2^n
           S == {j \in Nat : v \div 2^j = q * 2^(n - j) + (r \div 2^j)}
<1>1. 2^n \in Nat /\ 2^n > 0
    BY PowerPositive
<1>2. q \in Nat /\ r \in Nat /\ v = q * 2^n + r
    BY <1>1, DivMod
<1> HIDE DEF q, r
<1>3. 0 \in S
    <2>1. n - 0 = n /\ 2^0 = 1
        BY PowerTable
    <2>2. v \div 1 = v /\ r \div 1 = r
        BY <1>2, SMT
    <2> QED BY <1>2, <2>1, <2>2
<1>4. ASSUME NEW j \in Nat, j < n, j \in S PROVE j + 1 \in S
    <2> DEFINE i == n - (j + 1)
    <2>1. i \in Nat /\ i =< 30 /\ n - j = i + 1 /\ j =< 30
        BY <1>4
    <2>2. 2^(n - j) = 2 * 2^i /\ 2^i \in Nat
        BY <2>1, PowerDouble, PowerPositive
    <2>3. r \div 2^j \in Nat
        BY <1>2, <2>1, DivideOut
    <2>4. v \div 2^j = q * 2^(n - j) + (r \div 2^j)
        BY <1>4
    <2>5. q * (2 * 2^i) = 2 * (q * 2^i) /\ q * 2^i \in Nat
        <3>1. ASSUME NEW p \in Nat PROVE q * (2 * p) = 2 * (q * p) /\ q * p \in Nat
            BY <1>2, SMT
        <3> QED BY <2>2, <3>1
    <2>6. (v \div 2^j) \div 2 = q * 2^i + ((r \div 2^j) \div 2)
        <3>1. v \div 2^j = 2 * (q * 2^i) + (r \div 2^j)
            BY <2>2, <2>4, <2>5
        <3> DEFINE a == q * 2^i
                   b == r \div 2^j
        <3>2. a \in Nat /\ b \in Nat
            BY <2>3, <2>5
        <3> HIDE DEF a, b
        <3>3. (2 * a + b) \div 2 = a + (b \div 2)
            BY <3>2, Halves
        <3> QED BY <3>1, <3>3 DEF a, b
    <2>7. v \div 2^(j + 1) = (v \div 2^j) \div 2 /\ r \div 2^(j + 1) = (r \div 2^j) \div 2
        BY <1>2, <2>1, HalfPower
    <2>8. v \div 2^(j + 1) = q * 2^(n - (j + 1)) + (r \div 2^(j + 1))
        BY <2>6, <2>7
    <2> QED BY <2>8
<1> HIDE DEF S
<1>5. \A j \in Nat : j =< n => j \in S
    BY <1>3, <1>4, UpTo
<1> QED BY <1>5 DEF S, q, r

\* The number of m + n bits is the number of the first m and the one of the last n.
LEMMA BitsOfSplit ==
    ASSUME NEW v \in Nat, NEW m \in Nat, NEW n \in Nat, m + n =< 31
    PROVE  BitsOf(v, m + n) = BitsOf(v \div 2^n, m) \o BitsOf(v % 2^n, n)
<1> DEFINE q == v \div 2^n
           r == v % 2^n
           x == BitsOf(q, m)
           y == BitsOf(r, n)
           z == BitsOf(v, m + n)
<1>1. q \in Nat /\ r \in Nat /\ m =< 31 /\ n =< 31
    BY PowerPositive, DivMod
<1>2. /\ z \in Bits /\ Len(z) = m + n
      /\ \A i \in 1 .. m + n : z[i] = (v \div 2^(m + n - i)) % 2
    BY BitsOfType
<1>3. x \in Bits /\ Len(x) = m /\ \A i \in 1 .. m : x[i] = (q \div 2^(m - i)) % 2
    <2> HIDE DEF q
    <2> QED BY <1>1, BitsOfType
<1>4. y \in Bits /\ Len(y) = n /\ \A i \in 1 .. n : y[i] = (r \div 2^(n - i)) % 2
    <2> HIDE DEF r
    <2> QED BY <1>1, BitsOfType
<1>5. ASSUME NEW i \in 1 .. m PROVE z[i] = x[i]
    <2>1. m - i \in Nat /\ n + (m - i) = m + n - i /\ i \in 1 .. m + n /\ n + (m - i) =< 31
        OBVIOUS
    <2>2. q \div 2^(m - i) = v \div 2^(m + n - i)
        <3>1. q \div 2^(m - i) = v \div 2^(n + (m - i))
            BY <2>1, DividePowers
        <3> QED BY <2>1, <3>1
    <2> QED BY <1>2, <1>3, <2>1, <2>2
<1>6. ASSUME NEW i \in 1 .. n PROVE z[m + i] = y[i]
    <2> DEFINE k == n - i
    <2>1. k \in Nat /\ k =< n /\ m + n - (m + i) = k /\ m + i \in 1 .. m + n /\ n =< 31
        OBVIOUS
    <2>2. i - 1 \in Nat /\ i - 1 =< 30 /\ n - k = i - 1 + 1
        OBVIOUS
    <2>3. v \div 2^k = q * 2^(n - k) + (r \div 2^k)
        BY <2>1, RemainderBits
    <2>4. 2^(n - k) = 2 * 2^(i - 1) /\ 2^(i - 1) \in Nat
        BY <2>2, PowerDouble, PowerPositive
    <2>5. r \div 2^k \in Nat
        <3> HIDE DEF r, k
        <3> QED BY <1>1, <2>1, DivideOut
    <2> HIDE DEF q, r, k
    <2>6. q * (2 * 2^(i - 1)) = 2 * (q * 2^(i - 1)) /\ q * 2^(i - 1) \in Nat
        <3>1. ASSUME NEW p \in Nat PROVE q * (2 * p) = 2 * (q * p) /\ q * p \in Nat
            BY <1>1, SMT
        <3> QED BY <2>4, <3>1
    <2>7. (v \div 2^k) % 2 = (r \div 2^k) % 2
        BY <2>3, <2>4, <2>5, <2>6, Halves
    <2>8. z[m + i] = (v \div 2^k) % 2
        BY <1>2, <2>1
    <2>9. y[i] = (r \div 2^k) % 2
        BY <1>4 DEF k
    <2> QED BY <2>7, <2>8, <2>9
<1> HIDE DEF x, y, z
<1>7. z = x \o y
    <2>1. x \o y \in Bits /\ Len(x \o y) = m + n
        BY <1>3, <1>4, BitsConcat
    <2>2. ASSUME NEW i \in 1 .. m + n PROVE z[i] = (x \o y)[i]
        <3>1. CASE i =< m
            <4>1. i \in 1 .. m
                BY <3>1
            <4> QED BY <1>3, <1>4, <1>5, <4>1, BitsConcat
        <3>2. CASE ~ (i =< m)
            <4>1. i - m \in 1 .. n /\ m + (i - m) = i
                BY <3>2
            <4>2. z[m + (i - m)] = y[i - m]
                BY <1>6, <4>1
            <4>3. (x \o y)[m + (i - m)] = y[i - m]
                BY <1>3, <1>4, <4>1, BitsConcat
            <4> QED BY <4>1, <4>2, <4>3
        <3> QED BY <3>1, <3>2
    <2> QED BY <1>2, <2>1, <2>2, BitsEqual
<1> QED BY <1>7 DEF x, y, z, q, r

-----------------------------------------------------------------------------
(* Streams that end too early, and the length determinant. *)

\* The stream pd ends within the bits x that should have followed position pos.
CutAt(pd, pos, x) ==
    /\ pos =< Len(pd) /\ Len(pd) < pos + Len(x)
    /\ \A i \in 1 .. Len(x) : pos + i =< Len(pd) => pd[pos + i] = x[i]

\* A stream cut within two pieces is cut within the first or within the second.
LEMMA CutConcat ==
    ASSUME NEW pd \in Bits, NEW pos \in Nat, NEW x \in Bits, NEW y \in Bits, CutAt(pd, pos, x \o y)
    PROVE  CutAt(pd, pos, x) \/ (At(pd, pos, x) /\ CutAt(pd, pos + Len(x), y))
<1>1. Len(x) \in Nat /\ Len(y) \in Nat /\ Len(pd) \in Nat /\ Len(x \o y) = Len(x) + Len(y)
    BY BitsParts, BitsConcat
<1>2. ASSUME NEW i \in 1 .. Len(x), pos + i =< Len(pd) PROVE pd[pos + i] = x[i]
    <2>1. i \in 1 .. Len(x \o y) /\ (x \o y)[i] = x[i]
        BY <1>1, BitsConcat
    <2> QED BY <1>2, <2>1 DEF CutAt
<1>3. ASSUME NEW i \in 1 .. Len(y), pos + Len(x) + i =< Len(pd) PROVE pd[pos + Len(x) + i] = y[i]
    <2>1. Len(x) + i \in 1 .. Len(x \o y) /\ pos + (Len(x) + i) = pos + Len(x) + i
        BY <1>1
    <2>2. (x \o y)[Len(x) + i] = y[i]
        BY BitsConcat
    <2>3. pos + (Len(x) + i) =< Len(pd)
        BY <1>3, <2>1
    <2>4. pd[pos + (Len(x) + i)] = (x \o y)[Len(x) + i]
        BY <2>1, <2>3 DEF CutAt
    <2> QED BY <2>1, <2>2, <2>4
<1>4. CASE Len(pd) < pos + Len(x)
    BY <1>2, <1>4 DEF CutAt
<1>5. CASE ~ (Len(pd) < pos + Len(x))
    <2>1. pos + Len(x) =< Len(pd) /\ Len(pd) < pos + Len(x) + Len(y)
        BY <1>1, <1>5 DEF CutAt
    <2>2. At(pd, pos, x)
        BY <1>1, <1>2, <2>1 DEF At
    <2>3. CutAt(pd, pos + Len(x), y)
        BY <1>3, <2>1 DEF CutAt
    <2> QED BY <2>2, <2>3
<1> QED BY <1>4, <1>5

\* The first n bits of a stream.
LEMMA BitsPrefix ==
    ASSUME NEW x \in Bits, NEW n \in Nat, n =< Len(x)
    PROVE  /\ SubSeq(x, 1, n) \in Bits /\ Len(SubSeq(x, 1, n)) = n
           /\ \A i \in 1 .. n : SubSeq(x, 1, n)[i] = x[i]
<1>1. \A i \in 1 .. n : x[i] \in {0, 1}
    BY BitsParts
<1>2. /\ SubSeq(x, 1, n) \in Seq({0, 1})
      /\ Len(SubSeq(x, 1, n)) = IF 1 <= n THEN n - 1 + 1 ELSE 0
      /\ \A i \in 1 .. n - 1 + 1 : SubSeq(x, 1, n)[i] = x[1 + i - 1]
    BY <1>1, SubSeqProperties
<1> QED BY <1>2 DEF Bits

\* An output cut within the bits x that were written last.
LEMMA CutOutput ==
    ASSUME NEW a \in Bits, NEW x \in Bits, NEW cut \in Nat, Len(a) =< cut, cut < Len(a) + Len(x)
    PROVE  SubSeq(a \o x, 1, cut) \in Bits /\ CutAt(SubSeq(a \o x, 1, cut), Len(a), x)
<1> DEFINE pd == SubSeq(a \o x, 1, cut)
<1>1. Len(a) \in Nat /\ Len(x) \in Nat /\ a \o x \in Bits /\ Len(a \o x) = Len(a) + Len(x)
    BY BitsParts, BitsConcat
<1>2. pd \in Bits /\ Len(pd) = cut /\ \A i \in 1 .. cut : pd[i] = (a \o x)[i]
    <2>1. cut =< Len(a \o x)
        BY <1>1
    <2> QED BY <1>1, <2>1, BitsPrefix
<1> HIDE DEF pd
<1>3. ASSUME NEW i \in 1 .. Len(x), Len(a) + i =< Len(pd) PROVE pd[Len(a) + i] = x[i]
    <2>1. Len(a) + i \in 1 .. cut
        BY <1>1, <1>2, <1>3
    <2>2. (a \o x)[Len(a) + i] = x[i]
        BY BitsConcat
    <2> QED BY <1>2, <2>1, <2>2
<1>4. CutAt(pd, Len(a), x)
    BY <1>1, <1>2, <1>3 DEF CutAt
<1> QED BY <1>2, <1>4 DEF pd

\* Both getters notice that bits are missing.
LEMMA GetCut ==
    ASSUME NEW pd \in Bits, NEW pos \in Nat, NEW x \in Bits, CutAt(pd, pos, x)
    PROVE  asn_get_few_bits(pd, pos, Len(x)) = -1 /\ asn_get_many_bits(pd, pos, Len(x)) = <<-1>>
BY BitsParts DEF CutAt, asn_get_few_bits, asn_get_many_bits

-----------------------------------------------------------------------------
\* An output stream into which the bits a were written.
Output(a) == [ok |-> TRUE, bits |-> a]

\* The parts of an output stream.
LEMMA OutputParts == ASSUME NEW a PROVE Output(a).ok = TRUE /\ Output(a).bits = a
BY DEF Output

\* What putting bits does to an output stream.
LEMMA PutBits ==
    ASSUME NEW a, NEW x
    PROVE  asn_put_many_bits(Output(a), x) = Output(a \o x)
BY DEF Output, asn_put_many_bits

\* What putting a number does to an output stream.
LEMMA PutFewBits ==
    ASSUME NEW a, NEW v, NEW n
    PROVE  asn_put_few_bits(Output(a), v, n) = Output(a \o BitsOf(v, n))
BY PutBits DEF asn_put_few_bits

\* The widths that the code names, kept symbolic.
OctetBits == 8

\* An octet, as a width.
LEMMA OctetWidth ==
    OctetBits \in Nat /\ OctetBits =< 31 /\ 2^OctetBits = 256 /\ OctetBits + OctetBits = 16
BY DEF OctetBits

\* The bits of an octet.
LEMMA Octet ==
    ASSUME NEW v \in Nat
    PROVE  BitsOf(v, OctetBits) \in Bits /\ Len(BitsOf(v, OctetBits)) = OctetBits
BY OctetWidth, BitsOfType

\* Numbers that one octet holds, and lengths without fragments.
IsOctet(v) == v \in Nat /\ v < 256
IsLength(len) == len \in Nat /\ len < 16384

\* Reading an octet, complete or cut.
LEMMA GetOctet ==
    ASSUME NEW pd \in Bits, NEW pos \in Nat, NEW v, IsOctet(v)
    PROVE  /\ At(pd, pos, BitsOf(v, OctetBits)) => asn_get_few_bits(pd, pos, OctetBits) = v
           /\ CutAt(pd, pos, BitsOf(v, OctetBits)) => asn_get_few_bits(pd, pos, OctetBits) = -1
<1>1. v \in Nat /\ v < 2^OctetBits /\ OctetBits \in Nat /\ OctetBits =< 31
    BY OctetWidth DEF IsOctet
<1>2. At(pd, pos, BitsOf(v, OctetBits)) => asn_get_few_bits(pd, pos, OctetBits) = v
    BY <1>1, GetFewBits, Zenon
<1>3. CutAt(pd, pos, BitsOf(v, OctetBits)) => asn_get_few_bits(pd, pos, OctetBits) = -1
    BY <1>1, Octet, GetCut, Zenon
<1> QED BY <1>2, <1>3

Octets(v, q, r) == v \in Nat /\ q = v \div 256 /\ r = v % 256

\* Sixteen bits are two octets.
LEMMA TwoOctets ==
    ASSUME NEW v, NEW q, NEW r, Octets(v, q, r)
    PROVE  BitsOf(v, 16) = BitsOf(q, OctetBits) \o BitsOf(r, OctetBits)
<1>1. OctetBits \in Nat /\ OctetBits + OctetBits =< 31 /\ OctetBits + OctetBits = 16
    BY OctetWidth
<1>2. v \in Nat /\ q = v \div 2^OctetBits /\ r = v % 2^OctetBits
    BY OctetWidth DEF Octets
<1>3. BitsOf(v, OctetBits + OctetBits)
          = BitsOf(v \div 2^OctetBits, OctetBits) \o BitsOf(v % 2^OctetBits, OctetBits)
    BY <1>1, <1>2, BitsOfSplit, Zenon
<1> QED BY <1>1, <1>2, <1>3, Zenon

LengthBits(len) == IF len <= 127 THEN BitsOf(len, 8) ELSE BitsOf(len + 32768, 16)

\* A length above 127 and the two octets it is sent in.
InTwo(len, o, p) == /\ IsLength(len) /\ len > 127 /\ o = 128 + (len \div 256) /\ p = len % 256

\* What the two octets of a long length are.
LEMMA LengthOctets ==
    ASSUME NEW len, NEW o, NEW p, InTwo(len, o, p)
    PROVE  /\ o \in Nat /\ o < 192 /\ o >= 128 /\ p \in Nat /\ p < 256
           /\ IsOctet(o) /\ IsOctet(p)
           /\ (o - 128) * 256 + p = len
           /\ o = (len + 32768) \div 256 /\ p = (len + 32768) % 256
BY SMT DEF InTwo, IsLength, IsOctet

\* A length takes one octet or two.
LEMMA LengthKinds ==
    ASSUME NEW len, IsLength(len)
    PROVE  (len \in Nat /\ len <= 127) \/ \E o, p : InTwo(len, o, p)
BY DEF IsLength, InTwo

\* The bits of a length up to 127.
LEMMA ShortLength ==
    ASSUME NEW len \in Nat, len <= 127
    PROVE  LengthBits(len) = BitsOf(len, OctetBits)
BY DEF LengthBits, OctetBits

\* The bits of a length above 127.
LEMMA LongLength ==
    ASSUME NEW len, NEW o, NEW p, InTwo(len, o, p)
    PROVE  LengthBits(len) = BitsOf(o, OctetBits) \o BitsOf(p, OctetBits)
<1> DEFINE v == len + 32768
<1>1. Octets(v, o, p)
    BY LengthOctets DEF InTwo, IsLength, Octets
<1>2. LengthBits(len) = BitsOf(v, 16)
    BY DEF LengthBits, InTwo, IsLength
<1> HIDE DEF v
<1>3. BitsOf(v, 16) = BitsOf(o, OctetBits) \o BitsOf(p, OctetBits)
    BY <1>1, TwoOctets
<1> QED BY <1>2, <1>3

\* How many bits a length takes.
LEMMA LengthBitsType ==
    ASSUME NEW len, IsLength(len)
    PROVE  /\ LengthBits(len) \in Bits
           /\ Len(LengthBits(len)) = IF len <= 127 THEN 8 ELSE 16
<1>1. CASE len \in Nat /\ len <= 127
    <2>1. LengthBits(len) \in Bits /\ Len(LengthBits(len)) = OctetBits
        BY <1>1, ShortLength, Octet
    <2> QED BY <1>1, <2>1 DEF OctetBits
<1>2. ASSUME NEW o, NEW p, InTwo(len, o, p)
      PROVE  /\ LengthBits(len) \in Bits
             /\ Len(LengthBits(len)) = IF len <= 127 THEN 8 ELSE 16
    <2>1. o \in Nat /\ p \in Nat
        BY <1>2, LengthOctets
    <2>2. LengthBits(len) = BitsOf(o, OctetBits) \o BitsOf(p, OctetBits)
        BY <1>2, LongLength
    <2>3. BitsOf(o, OctetBits) \in Bits /\ Len(BitsOf(o, OctetBits)) = OctetBits
        BY <2>1, Octet
    <2>4. BitsOf(p, OctetBits) \in Bits /\ Len(BitsOf(p, OctetBits)) = OctetBits
        BY <2>1, Octet
    <2>5. LengthBits(len) \in Bits /\ Len(LengthBits(len)) = OctetBits + OctetBits
        <3>1. /\ BitsOf(o, OctetBits) \o BitsOf(p, OctetBits) \in Bits
              /\ Len(BitsOf(o, OctetBits) \o BitsOf(p, OctetBits))
                    = Len(BitsOf(o, OctetBits)) + Len(BitsOf(p, OctetBits))
            BY <2>3, <2>4, BitsConcat
        <3> QED BY <2>2, <2>3, <2>4, <3>1
    <2>6. ~ (len <= 127)
        BY <1>2 DEF InTwo, IsLength
    <2> QED BY <2>5, <2>6 DEF OctetBits
<1> QED BY <1>1, <1>2, LengthKinds

\* What uper_put_length writes.
LEMMA PutLength ==
    ASSUME NEW a, NEW len \in Nat
    PROVE  /\ IsLength(len) => uper_put_length(Output(a), len) = Output(a \o LengthBits(len))
           /\ ~ IsLength(len) => uper_put_length(Output(a), len) = EncodeFailed
<1>1. CASE len <= 127
    <2>1. /\ uper_put_length(Output(a), len) = asn_put_few_bits(Output(a), len, 8)
          /\ LengthBits(len) = BitsOf(len, 8)
        BY <1>1 DEF uper_put_length, LengthBits
    <2>2. IsLength(len)
        BY <1>1 DEF IsLength
    <2> QED BY <2>1, <2>2, PutFewBits
<1>2. CASE ~ (len <= 127) /\ IsLength(len)
    <2> DEFINE w == len + 32768
    <2>1. /\ uper_put_length(Output(a), len) = asn_put_few_bits(Output(a), w, 16)
          /\ LengthBits(len) = BitsOf(w, 16)
        BY <1>2 DEF uper_put_length, LengthBits, IsLength
    <2> HIDE DEF w
    <2> QED BY <1>2, <2>1, PutFewBits
<1>3. CASE ~ (len <= 127) /\ ~ IsLength(len)
    BY <1>3 DEF uper_put_length, IsLength
<1> QED BY <1>1, <1>2, <1>3

\* The stream that a reader finds, when x was written behind a.
LEMMA ReadBack ==
    ASSUME NEW a \in Bits, NEW x \in Bits, NEW rest \in Bits, NEW pd, pd = (a \o x) \o rest
    PROVE  /\ pd \in Bits /\ Len(a) \in Nat /\ Len(x) \in Nat /\ At(pd, Len(a), x)
           /\ Len(a \o x) = Len(a) + Len(x)
<1>1. a \o x \in Bits
    BY BitsConcat
<1> QED BY <1>1, BitsConcat, BitsParts, AtOutput

\* What uper_get_length does, by the two octets it may look at.
LEMMA LengthFrom ==
    ASSUME NEW pd, NEW pos, NEW o, NEW p,
           o = asn_get_few_bits(pd, pos, OctetBits), p = asn_get_few_bits(pd, pos + OctetBits, OctetBits)
    PROVE  uper_get_length(pd, pos, -1, 0) =
               IF o < 0 THEN <<-1, pos>>
               ELSE IF o < 128 THEN <<o, pos + 8>>
               ELSE IF o < 192 THEN <<IF p < 0 THEN -1 ELSE (o - 128) * 256 + p, pos + 16>>
               ELSE <<IF o - 192 \in 1 .. 4 THEN 16384 * (o - 192) ELSE -1, pos + 8>>
<1>1. -1 \notin 0 .. 16
    OBVIOUS
<1>2. o = asn_get_few_bits(pd, pos, 8) /\ p = asn_get_few_bits(pd, pos + 8, 8)
    BY DEF OctetBits
<1> QED BY <1>1, <1>2 DEF uper_get_length

\* uper_get_length reads a length that lies there ...
LEMMA GetLength ==
    ASSUME NEW pd \in Bits, NEW pos \in Nat, NEW len, IsLength(len), At(pd, pos, LengthBits(len))
    PROVE  uper_get_length(pd, pos, -1, 0) = <<len, pos + Len(LengthBits(len))>>
<1>1. CASE len \in Nat /\ len <= 127
    <2>1. At(pd, pos, BitsOf(len, OctetBits)) /\ IsOctet(len)
        BY <1>1, ShortLength DEF IsOctet
    <2>2. asn_get_few_bits(pd, pos, OctetBits) = len
        BY <2>1, GetOctet
    <2>3. uper_get_length(pd, pos, -1, 0) = <<len, pos + 8>>
        BY <1>1, <2>2, LengthFrom
    <2>4. Len(LengthBits(len)) = 8
        BY <1>1, LengthBitsType
    <2> QED BY <2>3, <2>4
<1>2. ASSUME NEW o, NEW p, InTwo(len, o, p)
      PROVE  uper_get_length(pd, pos, -1, 0) = <<len, pos + Len(LengthBits(len))>>
    <2>1. /\ o \in Nat /\ o < 192 /\ o >= 128 /\ p \in Nat
          /\ (o - 128) * 256 + p = len /\ IsOctet(o) /\ IsOctet(p)
        BY <1>2, LengthOctets
    <2>2. At(pd, pos, BitsOf(o, OctetBits) \o BitsOf(p, OctetBits))
        BY <1>2, LongLength
    <2>3. Len(LengthBits(len)) = 16
        BY <1>2, LengthBitsType DEF InTwo, IsLength
    <2>4. BitsOf(o, OctetBits) \in Bits /\ Len(BitsOf(o, OctetBits)) = OctetBits
        BY <2>1, Octet
    <2>5. BitsOf(p, OctetBits) \in Bits
        BY <2>1, Octet
    <2>6. At(pd, pos, BitsOf(o, OctetBits)) /\ At(pd, pos + OctetBits, BitsOf(p, OctetBits))
        BY <2>2, <2>4, <2>5, AtConcat
    <2>7. pos + OctetBits \in Nat
        BY OctetWidth
    <2>8. asn_get_few_bits(pd, pos, OctetBits) = o
        BY <2>1, <2>6, GetOctet
    <2>9. asn_get_few_bits(pd, pos + OctetBits, OctetBits) = p
        BY <2>1, <2>6, <2>7, GetOctet
    <2> QED BY <2>1, <2>3, <2>8, <2>9, LengthFrom
<1> QED BY <1>1, <1>2, LengthKinds

\* ... and notices one that is cut.
LEMMA GetLengthCut ==
    ASSUME NEW pd \in Bits, NEW pos \in Nat, NEW len, IsLength(len), CutAt(pd, pos, LengthBits(len))
    PROVE  uper_get_length(pd, pos, -1, 0)[1] = -1
<1>1. asn_get_few_bits(pd, pos, OctetBits) = -1 => uper_get_length(pd, pos, -1, 0)[1] = -1
    BY LengthFrom
<1>2. CASE len \in Nat /\ len <= 127
    <2>1. CutAt(pd, pos, BitsOf(len, OctetBits)) /\ IsOctet(len)
        BY <1>2, ShortLength DEF IsOctet
    <2> QED BY <1>1, <2>1, GetOctet
<1>3. ASSUME NEW o, NEW p, InTwo(len, o, p)
      PROVE  uper_get_length(pd, pos, -1, 0)[1] = -1
    <2>1. o \in Nat /\ o < 192 /\ o >= 128 /\ p \in Nat /\ IsOctet(o) /\ IsOctet(p)
        BY <1>3, LengthOctets
    <2>2. CutAt(pd, pos, BitsOf(o, OctetBits) \o BitsOf(p, OctetBits))
        BY <1>3, LongLength
    <2>3. BitsOf(o, OctetBits) \in Bits /\ Len(BitsOf(o, OctetBits)) = OctetBits
        BY <2>1, Octet
    <2>4. BitsOf(p, OctetBits) \in Bits
        BY <2>1, Octet
    <2>5. pos + OctetBits \in Nat
        BY OctetWidth
    <2>6. CASE CutAt(pd, pos, BitsOf(o, OctetBits))
        BY <1>1, <2>1, <2>6, GetOctet
    <2>7. CASE At(pd, pos, BitsOf(o, OctetBits)) /\ CutAt(pd, pos + OctetBits, BitsOf(p, OctetBits))
        <3>1. asn_get_few_bits(pd, pos, OctetBits) = o
            BY <2>1, <2>7, GetOctet
        <3>2. asn_get_few_bits(pd, pos + OctetBits, OctetBits) = -1
            BY <2>1, <2>5, <2>7, GetOctet
        <3> QED BY <2>1, <3>1, <3>2, LengthFrom
    <2> QED BY <2>2, <2>3, <2>4, <2>6, <2>7, CutConcat
<1> QED BY <1>2, <1>3, LengthKinds

-----------------------------------------------------------------------------
(* Round trips of the small numbers. *)

\* v, of w = m + n bits, is q in the first m and r in the last n of them.
Split(v, w, q, m, r, n) ==
    /\ v \in Nat /\ q \in Nat /\ r \in Nat /\ m \in Nat /\ n \in Nat
    /\ w = m + n /\ w =< 31 /\ q < 2^m /\ r < 2^n /\ v = q * 2^n + r

\* The bits of both fields, one behind the other.
LEMMA SplitInto ==
    ASSUME NEW v, NEW w, NEW q, NEW m, NEW r, NEW n, Split(v, w, q, m, r, n)
    PROVE  BitsOf(v, w) = BitsOf(q, m) \o BitsOf(r, n)
<1>1. /\ v \in Nat /\ q \in Nat /\ r \in Nat /\ m \in Nat /\ n \in Nat
      /\ w = m + n /\ m + n =< 31 /\ n =< 31 /\ r < 2^n /\ v = q * 2^n + r
    BY DEF Split
<1>2. ASSUME NEW a \in Nat, r < a, v = q * a + r
      PROVE  v \div a = q /\ v % a = r
    BY <1>1, <1>2, SMT
<1>3. 2^n \in Nat
    BY <1>1, PowerPositive
<1>4. v \div 2^n = q /\ v % 2^n = r
    BY <1>1, <1>2, <1>3
<1>5. BitsOf(v, m + n) = BitsOf(v \div 2^n, m) \o BitsOf(v % 2^n, n)
    <2>1. v \in Nat /\ m \in Nat /\ n \in Nat /\ m + n =< 31
        BY <1>1
    <2> QED BY <2>1, BitsOfSplit, Zenon
<1>6. w = m + n
    BY <1>1
<1> QED BY <1>4, <1>5, <1>6, Zenon

\* Reading two fields that were written as one number.
LEMMA GetSplit ==
    ASSUME NEW pd \in Bits, NEW pos \in Nat,
           NEW v, NEW w, NEW q, NEW m, NEW r, NEW n, Split(v, w, q, m, r, n),
           At(pd, pos, BitsOf(v, w))
    PROVE  /\ asn_get_few_bits(pd, pos, m) = q
           /\ asn_get_few_bits(pd, pos + m, n) = r
           /\ At(pd, pos + m, BitsOf(r, n)) /\ pos + m \in Nat
<1>1. At(pd, pos, BitsOf(q, m) \o BitsOf(r, n))
    <2>1. BitsOf(v, w) = BitsOf(q, m) \o BitsOf(r, n)
        BY SplitInto
    <2> QED BY <2>1
<1>2. /\ q \in Nat /\ r \in Nat /\ m \in Nat /\ n \in Nat
      /\ m =< 31 /\ n =< 31 /\ pos + m \in Nat /\ q < 2^m /\ r < 2^n
    BY DEF Split
<1>3. BitsOf(q, m) \in Bits /\ Len(BitsOf(q, m)) = m /\ BitsOf(r, n) \in Bits
    BY <1>2, BitsOfType
<1>4. At(pd, pos, BitsOf(q, m)) /\ At(pd, pos + m, BitsOf(r, n))
    BY <1>1, <1>3, AtConcat
<1>5. asn_get_few_bits(pd, pos, m) = q
    BY <1>2, <1>4, GetFewBits
<1>6. asn_get_few_bits(pd, pos + m, n) = r
    BY <1>2, <1>4, GetFewBits
<1> QED BY <1>2, <1>4, <1>5, <1>6

(***************************************************************************)
(* What asn_put_few_bits wrote, behind any bits a and whatever follows,    *)
(* asn_get_few_bits reads; when a bit of it is missing it answers -1.      *)
(* Both take up to 31 bits, as the C functions do.                         *)
(***************************************************************************)
THEOREM FewBitsRoundTrip ==
    ASSUME NEW a \in Bits, NEW rest \in Bits, NEW n \in 0 .. 31, NEW v \in Nat, v < 2^n
    PROVE  LET er == asn_put_few_bits(Output(a), v, n)
           IN  /\ asn_get_few_bits(er.bits \o rest, Len(a), n) = v
               /\ \A cut \in Len(a) .. Len(er.bits) - 1 :
                      asn_get_few_bits(SubSeq(er.bits, 1, cut), Len(a), n) = -1
<1> DEFINE x == BitsOf(v, n)
           pd == (a \o x) \o rest
<1>1. n \in Nat /\ n =< 31
    OBVIOUS
<1>2. asn_put_few_bits(Output(a), v, n).bits = a \o x
    <2>1. asn_put_few_bits(Output(a), v, n) = Output(a \o x)
        BY PutFewBits
    <2> HIDE DEF x
    <2> QED BY <2>1, OutputParts
<1>3. x \in Bits /\ Len(x) = n
    BY <1>1, BitsOfType
<1>4. pd \in Bits /\ Len(a) \in Nat /\ At(pd, Len(a), x) /\ Len(a \o x) = Len(a) + Len(x)
    <2> HIDE DEF x
    <2> QED BY <1>3, ReadBack
<1>5. asn_get_few_bits(pd, Len(a), n) = v
    BY <1>1, <1>4, GetFewBits
<1>6. ASSUME NEW cut \in Len(a) .. Len(a \o x) - 1
      PROVE  asn_get_few_bits(SubSeq(a \o x, 1, cut), Len(a), n) = -1
    <2> HIDE DEF x
    <2>1. cut \in Nat /\ Len(a) =< cut /\ cut < Len(a) + Len(x)
        BY <1>1, <1>3, <1>4
    <2>2. SubSeq(a \o x, 1, cut) \in Bits /\ CutAt(SubSeq(a \o x, 1, cut), Len(a), x)
        BY <1>3, <2>1, CutOutput
    <2> QED BY <1>3, <1>4, <2>2, GetCut
<1> QED BY <1>2, <1>5, <1>6

(***************************************************************************)
(* Every length below 16384, which is sent in one piece: uper_get_length   *)
(* reads what uper_put_length wrote and stops behind it, and never takes a *)
(* determinant of which bits are missing for a shorter one.                *)
(***************************************************************************)
THEOREM LengthRoundTrip ==
    ASSUME NEW a \in Bits, NEW rest \in Bits, NEW length \in Nat, IsLength(length)
    PROVE  LET er == uper_put_length(Output(a), length)
           IN  /\ er.ok /\ uper_get_length(er.bits \o rest, Len(a), -1, 0) = <<length, Len(er.bits)>>
               /\ \A cut \in Len(a) .. Len(er.bits) - 1 :
                      uper_get_length(SubSeq(er.bits, 1, cut), Len(a), -1, 0)[1] = -1
<1> DEFINE x == LengthBits(length)
           pd == (a \o x) \o rest
<1>1. /\ uper_put_length(Output(a), length).bits = a \o x
      /\ uper_put_length(Output(a), length).ok = TRUE
    BY PutLength, OutputParts
<1>2. x \in Bits
    BY LengthBitsType
<1>3. /\ pd \in Bits /\ Len(a) \in Nat /\ Len(x) \in Nat
      /\ At(pd, Len(a), x) /\ Len(a \o x) = Len(a) + Len(x)
    <2> HIDE DEF x
    <2> QED BY <1>2, ReadBack
<1>4. uper_get_length(pd, Len(a), -1, 0) = <<length, Len(a \o x)>>
    BY <1>3, GetLength
<1>5. ASSUME NEW cut \in Len(a) .. Len(a \o x) - 1
      PROVE  uper_get_length(SubSeq(a \o x, 1, cut), Len(a), -1, 0)[1] = -1
    <2>1. cut \in Nat /\ Len(a) =< cut /\ cut < Len(a) + Len(x)
        BY <1>3
    <2>2. SubSeq(a \o x, 1, cut) \in Bits /\ CutAt(SubSeq(a \o x, 1, cut), Len(a), x)
        BY <1>2, <2>1, CutOutput
    <2> QED BY <1>3, <2>2, GetLengthCut
<1> QED BY <1>1, <1>4, <1>5

(***************************************************************************)
(* uper_put_nsnnwn and uper_get_nsnnwn, the index of an added alternative  *)
(* or enumeration item, agree exactly up to 63: behind that the sender     *)
(* leaves out the bit that announces the long form, so that the receiver   *)
(* reads 0 or 1 whatever was sent.                                         *)
(***************************************************************************)
THEOREM NsnnwnRoundTrip ==
    ASSUME NEW a \in Bits, NEW rest \in Bits, NEW n \in Nat
    PROVE  LET er == uper_put_nsnnwn(Output(a), n)
               got == uper_get_nsnnwn(er.bits \o rest, Len(a))
           IN  /\ er.ok <=> n < LIMB
               /\ n <= 63 => got = <<n, Len(er.bits)>>
               /\ er.ok /\ n > 63 => got[1] \in {0, 1}
<1> DEFINE er == uper_put_nsnnwn(Output(a), n)
           pd == er.bits \o rest
           pos == Len(a)
           seven == 7
           one == 1
<1>1. /\ seven \in Nat /\ seven =< 31 /\ 2^seven = 128 /\ seven + one = 8
      /\ one \in Nat /\ one =< 31 /\ 2^one = 2
    OBVIOUS
<1>2. asn_get_few_bits(pd, pos, seven) < 64 =>
          uper_get_nsnnwn(pd, pos) = <<asn_get_few_bits(pd, pos, seven), pos + 7>>
    BY DEF uper_get_nsnnwn
<1>3. CASE n <= 63
    <2> DEFINE x == BitsOf(n, seven)
    <2>1. er = asn_put_few_bits(Output(a), n, seven) /\ n < LIMB
        BY <1>3, SMT DEF uper_put_nsnnwn, LIMB
    <2> HIDE DEF seven, er, pd
    <2>2. er.ok = TRUE /\ er.bits = a \o x /\ x \in Bits /\ Len(x) = seven
        <3>1. er = Output(a \o x)
            BY <2>1, PutFewBits
        <3>2. x \in Bits /\ Len(x) = seven
            BY <1>1, BitsOfType
        <3> QED BY <3>1, <3>2, OutputParts
    <2>3. pd = (a \o x) \o rest
        BY <2>2 DEF pd
    <2>4. pd \in Bits /\ pos \in Nat /\ At(pd, pos, x) /\ Len(a \o x) = pos + Len(x)
        <3> HIDE DEF x
        <3> QED BY <2>2, <2>3, ReadBack
    <2>5. n < 2^seven
        BY <1>1, <1>3
    <2>6. asn_get_few_bits(pd, pos, seven) = n
        BY <1>1, <2>4, <2>5, GetFewBits
    <2>7. uper_get_nsnnwn(pd, pos) = <<n, Len(er.bits)>>
        <3>1. n < 64
            BY <1>3
        <3>2. uper_get_nsnnwn(pd, pos) = <<n, pos + 7>>
            BY <1>2, <2>6, <3>1
        <3>3. Len(er.bits) = pos + seven
            BY <2>2, <2>4
        <3> QED BY <3>2, <3>3 DEF seven
    <2>8. ~ (n > 63)
        BY <1>3
    <2> QED BY <1>3, <2>1, <2>2, <2>7, <2>8 DEF er, pd
<1>4. CASE n > 63 /\ n >= LIMB
    <2>1. ~ (n <= 63) /\ ~ (n < LIMB)
        BY <1>4, SMT DEF LIMB
    <2>2. er = EncodeFailed
        BY <1>4 DEF uper_put_nsnnwn
    <2> QED BY <2>1, <2>2 DEF EncodeFailed
<1>5. CASE n > 63 /\ n < LIMB
    <2> DEFINE bytes == IF n < 256 THEN 1 ELSE IF n < 65536 THEN 2 ELSE 3
               q == bytes \div 2
               r == bytes % 2
               x == BitsOf(bytes, 8)
               y == BitsOf(n, 8 * bytes)
    <2>1. er = asn_put_few_bits(asn_put_few_bits(Output(a), bytes, 8), n, 8 * bytes)
        <3>1. ~ (n < 0 \/ n >= LIMB) /\ ~ (n <= 63)
            BY <1>5, SMT DEF LIMB
        <3> QED BY <3>1 DEF uper_put_nsnnwn
    <2>2. bytes \in {1, 2, 3}
        OBVIOUS
    <2> HIDE DEF bytes
    <2>3. q \in {0, 1} /\ q < 2^seven /\ Split(bytes, 8, q, seven, r, one)
        BY <1>1, <2>2 DEF Split
    <2>4. x \in Bits /\ y \in Bits
        <3>1. bytes \in Nat /\ 8 * bytes \in Nat /\ 8 * bytes =< 31
            BY <2>2
        <3> QED BY <3>1, BitsOfType
    <2> HIDE DEF seven, one, er, pd, q, r
    <2>5. er.ok = TRUE /\ er.bits = (a \o x) \o y
        <3>1. asn_put_few_bits(Output(a), bytes, 8) = Output(a \o x)
            BY PutFewBits
        <3> HIDE DEF x
        <3>2. er = Output((a \o x) \o y)
            BY <2>1, <3>1, PutFewBits
        <3> QED BY <3>2, OutputParts
    <2>6. pd \in Bits /\ At(pd, pos, x) /\ pos \in Nat
        <3>1. pd = ((a \o x) \o y) \o rest
            BY <2>5 DEF pd
        <3> HIDE DEF x, y
        <3>2. a \o x \in Bits /\ y \o rest \in Bits
            BY <2>4, BitsConcat
        <3>3. ((a \o x) \o y) \o rest = (a \o x) \o (y \o rest)
            BY <2>4, <3>2, ConcatAssociative DEF Bits
        <3>4. pd = (a \o x) \o (y \o rest)
            BY <3>1, <3>3
        <3> QED BY <2>4, <3>2, <3>4, ReadBack
    <2>7. asn_get_few_bits(pd, pos, seven) = q
        BY <2>3, <2>6, GetSplit
    <2>8. uper_get_nsnnwn(pd, pos)[1] = q
        BY <1>2, <2>3, <2>7
    <2>9. ~ (n <= 63)
        BY <1>5
    <2> QED BY <1>5, <2>3, <2>5, <2>8, <2>9 DEF er, pd
<1>6. n >= LIMB \/ n < LIMB
    BY SMT DEF LIMB
<1>7. n <= 63 \/ n > 63
    OBVIOUS
<1> QED BY <1>3, <1>4, <1>5, <1>6, <1>7

(***************************************************************************)
(* uper_put_nslength and uper_get_nslength, the length of an extension     *)
(* bitmap, agree up to 64.  A longer one is written without the bit that   *)
(* announces it, and is never read as what it was.                         *)
(***************************************************************************)
THEOREM NslengthRoundTrip ==
    ASSUME NEW a \in Bits, NEW rest \in Bits, NEW length \in Nat
    PROVE  LET er == uper_put_nslength(Output(a), length)
               got == uper_get_nslength(er.bits \o rest, Len(a))
           IN  /\ length \in 1 .. 64 => er.ok /\ got = <<length, Len(er.bits)>>
               /\ length > 64 /\ er.ok => got[1] # length
<1> DEFINE er == uper_put_nslength(Output(a), length)
           pd == er.bits \o rest
           pos == Len(a)
           one == 1
           six == 6
           seven == 7
           eight == 8
           fifteen == 15
<1>1. /\ one \in Nat /\ one =< 31 /\ 2^one = 2 /\ six \in Nat /\ six =< 31 /\ 2^six = 64
      /\ seven \in Nat /\ seven =< 31 /\ 2^seven = 128 /\ eight \in Nat /\ eight =< 31 /\ 2^eight = 256
      /\ fifteen \in Nat /\ fifteen =< 31 /\ 2^fifteen = 32768
      /\ one + six = seven /\ one + seven = eight /\ six + one = seven
      /\ eight + seven = fifteen /\ one + fifteen = 16
    OBVIOUS
<1>2. /\ asn_get_few_bits(pd, pos, one) = 0 =>
             uper_get_nslength(pd, pos)
                 = <<IF asn_get_few_bits(pd, pos + one, six) < 0 THEN -1
                     ELSE asn_get_few_bits(pd, pos + one, six) + 1, pos + 7>>
      /\ asn_get_few_bits(pd, pos, one) = 1 /\ uper_get_length(pd, pos + one, -1, 0)[1] < 16384 =>
             uper_get_nslength(pd, pos) = uper_get_length(pd, pos + one, -1, 0)
    BY DEF uper_get_nslength
<1> HIDE DEF one, six, seven, fifteen, eight, er, pd
<1>3. ASSUME NEW x \in Bits, er = Output(a \o x)
      PROVE  /\ er.ok = TRUE /\ er.bits = a \o x /\ Len(er.bits) = pos + Len(x)
             /\ pd \in Bits /\ pos \in Nat /\ At(pd, pos, x)
    <2>1. er.ok = TRUE /\ er.bits = a \o x
        BY <1>3, OutputParts
    <2>2. pd = (a \o x) \o rest
        BY <2>1 DEF pd
    <2> QED BY <2>1, <2>2, ReadBack
<1>4. CASE length \in 1 .. 64
    <2> DEFINE v == length - 1
               x == BitsOf(v, seven)
    <2>1. v \in Nat /\ v < 64
        BY <1>4
    <2>2. er = Output(a \o x)
        <3>1. ~ (length = 0) /\ length <= 64
            BY <1>4
        <3>2. er = asn_put_few_bits(Output(a), v, seven)
            BY <3>1 DEF uper_put_nslength, er, seven
        <3> QED BY <3>2, PutFewBits
    <2>3. Split(v, seven, 0, one, v, six)
        BY <1>1, <2>1 DEF Split
    <2>4. x \in Bits /\ Len(x) = seven
        BY <1>1, <2>1, BitsOfType
    <2>5. /\ er.ok = TRUE /\ Len(er.bits) = pos + Len(x)
          /\ pd \in Bits /\ pos \in Nat /\ At(pd, pos, x)
        <3> HIDE DEF x
        <3> QED BY <1>3, <2>2, <2>4
    <2>6. asn_get_few_bits(pd, pos, one) = 0 /\ asn_get_few_bits(pd, pos + one, six) = v
        <3> HIDE DEF v
        <3> QED BY <2>3, <2>5, GetSplit
    <2>7. uper_get_nslength(pd, pos) = <<v + 1, pos + 7>>
        <3> HIDE DEF v
        <3>1. ~ (v < 0)
            BY <2>1
        <3> QED BY <1>2, <2>6, <3>1
    <2>8. v + 1 = length /\ pos + 7 = Len(er.bits) /\ ~ (length > 64)
        <3>1. Len(er.bits) = pos + seven
            <4> HIDE DEF x
            <4> QED BY <2>4, <2>5
        <3>2. seven = 7
            BY DEF seven
        <3>3. v + 1 = length /\ ~ (length > 64)
            BY <1>4
        <3> QED BY <3>1, <3>2, <3>3
    <2> QED BY <2>5, <2>7, <2>8 DEF er, pd
<1>5. CASE length > 64 /\ length <= 127
    <2> DEFINE x == BitsOf(length, eight)
               h == length \div 2
               l == length % 2
    <2>1. er = Output(a \o x)
        <3>1. ~ (length = 0) /\ ~ (length <= 64)
            BY <1>5
        <3>2. er = asn_put_few_bits(Output(a), length, eight)
            BY <1>5, <3>1 DEF uper_put_nslength, uper_put_length, er, eight
        <3> QED BY <3>2, PutFewBits
    <2>2. /\ h \in Nat /\ h < 64 /\ h + 1 # length
          /\ Split(length, eight, 0, one, length, seven) /\ Split(length, seven, h, six, l, one)
        BY <1>1, <1>5 DEF Split
    <2> HIDE DEF h, l
    <2>3. pd \in Bits /\ pos \in Nat /\ At(pd, pos, x)
        <3>1. x \in Bits
            BY <1>1, BitsOfType
        <3> HIDE DEF x
        <3> QED BY <1>3, <2>1, <3>1
    <2>4. /\ asn_get_few_bits(pd, pos, one) = 0
          /\ At(pd, pos + one, BitsOf(length, seven)) /\ pos + one \in Nat
        BY <2>2, <2>3, GetSplit
    <2>5. asn_get_few_bits(pd, pos + one, six) = h
        BY <2>2, <2>3, <2>4, GetSplit
    <2>6. uper_get_nslength(pd, pos)[1] = h + 1
        BY <1>2, <2>2, <2>4, <2>5
    <2>7. length \notin 1 .. 64
        BY <1>5
    <2> QED BY <2>2, <2>6, <2>7 DEF er, pd
<1>6. CASE length > 127 /\ ~ IsLength(length)
    <2>1. er = EncodeFailed
        <3>1. ~ (length = 0) /\ ~ (length <= 64)
            BY <1>6
        <3>2. er = uper_put_length(Output(a), length)
            BY <3>1 DEF uper_put_nslength, er
        <3> QED BY <1>6, <3>2, PutLength
    <2>2. length \notin 1 .. 64
        BY <1>6
    <2> QED BY <2>1, <2>2 DEF er, EncodeFailed
<1>7. CASE length > 127 /\ IsLength(length)
    <2> DEFINE w == length + 32768
               x == BitsOf(w, 16)
               h == length \div 128
               l == length % 128
    <2>1. er = Output(a \o x)
        <3>1. ~ (length = 0) /\ ~ (length <= 64)
            BY <1>7
        <3>2. er = uper_put_length(Output(a), length)
            BY <3>1 DEF uper_put_nslength, er
        <3>3. x = LengthBits(length)
            BY <1>7 DEF LengthBits
        <3> QED BY <1>7, <3>2, <3>3, PutLength
    <2>2. /\ h \in Nat /\ h < 128 /\ h # length /\ w \in Nat
          /\ Split(w, 16, 1, one, length, fifteen) /\ Split(length, fifteen, h, eight, l, seven)
        BY <1>1, <1>7, SMT DEF Split, IsLength
    <2> HIDE DEF w, h, l
    <2>3. pd \in Bits /\ pos \in Nat /\ At(pd, pos, x)
        <3>1. x \in Bits
            <4>1. ASSUME NEW n, n = 16 PROVE BitsOf(w, n) \in Bits
                <5>1. n \in Nat /\ n =< 31
                    BY <4>1
                <5> QED BY <2>2, <5>1, BitsOfType
            <4> QED BY <4>1
        <3> HIDE DEF x
        <3> QED BY <1>3, <2>1, <3>1
    <2>4. /\ asn_get_few_bits(pd, pos, one) = 1
          /\ At(pd, pos + one, BitsOf(length, fifteen)) /\ pos + one \in Nat
        BY <2>2, <2>3, GetSplit
    <2>5. asn_get_few_bits(pd, pos + one, eight) = h
        BY <2>2, <2>3, <2>4, GetSplit
    <2>6. uper_get_length(pd, pos + one, -1, 0)[1] = h
        <3>1. OctetBits = eight
            BY DEF OctetBits, eight
        <3>2. ~ (h < 0) /\ h < 128
            BY <2>2
        <3> QED BY <2>5, <3>1, <3>2, LengthFrom
    <2>7. uper_get_nslength(pd, pos)[1] = h
        <3>1. h < 16384
            BY <2>2
        <3> QED BY <1>2, <2>4, <2>6, <3>1
    <2>8. length \notin 1 .. 64
        BY <1>7
    <2> QED BY <2>2, <2>7, <2>8 DEF er, pd
<1>8. CASE length = 0
    <2>1. length \notin 1 .. 64 /\ ~ (length > 64)
        BY <1>8
    <2> QED BY <2>1
<1>9. \/ length = 0 \/ length \in 1 .. 64 \/ (length > 64 /\ length <= 127) \/ length > 127
    OBVIOUS
<1> QED BY <1>4, <1>5, <1>6, <1>7, <1>8, <1>9

-----------------------------------------------------------------------------
(* The bits of a long. *)

\* The widths of the limbs, kept symbolic.
HighBits == 16
LimbBits == 24

\* The widths of the limbs and what fits into them.
LEMMA LimbWidths ==
    /\ HighBits \in Nat /\ HighBits =< 31 /\ 2^HighBits = 65536 /\ HighBits = 16
    /\ LimbBits \in Nat /\ LimbBits =< 31 /\ 2^LimbBits = LIMB /\ LimbBits = 24
BY PowerTable, SMT DEF HighBits, LimbBits, LIMB

\* The 64 bits of a long.
High(v) == BitsOf(v[1] % 65536, HighBits)
LongStream(v) == (High(v) \o BitsOf(v[2], LimbBits)) \o BitsOf(v[3], LimbBits)

\* The longs that a uintmax_t holds.
Unsigned64 == {v \in Longs : v[1] \in Nat /\ v[1] < 65536}

\* The same, as far as no large number is needed.
LEMMA LimbNaturals ==
    HighBits \in Nat /\ HighBits =< 31 /\ LimbBits \in Nat /\ LimbBits =< 31
BY LimbWidths

\* The limbs fit into their widths.
LEMMA LimbNumbers ==
    ASSUME NEW v \in Longs
    PROVE  /\ v[1] % 65536 \in Nat /\ v[1] % 65536 < 2^HighBits
           /\ v[2] \in Nat /\ v[2] < 2^LimbBits /\ v[3] \in Nat /\ v[3] < 2^LimbBits
<1>1. v[1] \in Int /\ v[2] \in Limb /\ v[3] \in Limb
    BY LongParts
<1>2. v[1] % 65536 \in Nat /\ v[1] % 65536 < 65536
    BY <1>1, SMT
<1>3. 2^HighBits = 65536 /\ 2^LimbBits = LIMB
    BY LimbWidths
<1> QED BY <1>1, <1>2, <1>3 DEF Limb

\* The bits of the limbs.
LEMMA LimbStreams ==
    ASSUME NEW v \in Longs
    PROVE  /\ High(v) \in Bits /\ Len(High(v)) = HighBits
           /\ BitsOf(v[2], LimbBits) \in Bits /\ Len(BitsOf(v[2], LimbBits)) = LimbBits
           /\ BitsOf(v[3], LimbBits) \in Bits /\ Len(BitsOf(v[3], LimbBits)) = LimbBits
<1> DEFINE h == v[1] % 65536
<1>1. h \in Nat /\ v[2] \in Nat /\ v[3] \in Nat
    BY LimbNumbers
<1>2. High(v) = BitsOf(h, HighBits)
    BY DEF High
<1> HIDE DEF h
<1>3. BitsOf(h, HighBits) \in Bits /\ Len(BitsOf(h, HighBits)) = HighBits
    BY <1>1, LimbNaturals, BitsOfType
<1>4. /\ BitsOf(v[2], LimbBits) \in Bits /\ Len(BitsOf(v[2], LimbBits)) = LimbBits
      /\ BitsOf(v[3], LimbBits) \in Bits /\ Len(BitsOf(v[3], LimbBits)) = LimbBits
    BY <1>1, LimbNaturals, BitsOfType
<1> QED BY <1>2, <1>3, <1>4

\* Where the limbs lie in the 64 bits.
LEMMA LongStreamType ==
    ASSUME NEW v \in Longs
    PROVE  /\ LongStream(v) \in Bits /\ Len(LongStream(v)) = 64
           /\ At(LongStream(v), 0, High(v))
           /\ At(LongStream(v), HighBits, BitsOf(v[2], LimbBits))
           /\ At(LongStream(v), HighBits + LimbBits, BitsOf(v[3], LimbBits))
<1> DEFINE h == High(v)
           m == BitsOf(v[2], LimbBits)
           l == BitsOf(v[3], LimbBits)
           hm == h \o m
           b == hm \o l
<1>1. /\ h \in Bits /\ Len(h) = HighBits /\ m \in Bits /\ Len(m) = LimbBits
      /\ l \in Bits /\ Len(l) = LimbBits
    BY LimbStreams
<1>2. LongStream(v) = b
    BY DEF LongStream
<1> HIDE DEF h, m, l
<1>3. hm \in Bits /\ Len(hm) = HighBits + LimbBits
    BY <1>1, BitsConcat
<1>4. \A i \in 1 .. Len(h) : hm[i] = h[i]
    BY <1>1, BitsConcat
<1>5. \A i \in 1 .. Len(m) : hm[Len(h) + i] = m[i]
    BY <1>1, BitsConcat
<1> HIDE DEF hm
<1>6. b \in Bits /\ Len(b) = Len(hm) + Len(l)
    BY <1>1, <1>3, BitsConcat
<1>7. \A i \in 1 .. Len(hm) : b[i] = hm[i]
    BY <1>1, <1>3, BitsConcat
<1>8. \A i \in 1 .. Len(l) : b[Len(hm) + i] = l[i]
    BY <1>1, <1>3, BitsConcat
<1> HIDE DEF b
<1>9. At(b, 0, h)
    <2>1. ASSUME NEW i \in 1 .. Len(h) PROVE b[0 + i] = h[i]
        <3>1. i \in 1 .. Len(hm) /\ 0 + i = i
            BY <1>1, <1>3, LimbWidths
        <3> QED BY <1>4, <1>7, <3>1
    <2> QED BY <1>1, <1>3, <1>6, <2>1, LimbWidths DEF At
<1>10. At(b, HighBits, m)
    <2>1. ASSUME NEW i \in 1 .. Len(m) PROVE b[HighBits + i] = m[i]
        <3>1. HighBits + i \in 1 .. Len(hm)
            BY <1>1, <1>3, LimbWidths
        <3> QED BY <1>1, <1>5, <1>7, <3>1
    <2> QED BY <1>1, <1>3, <1>6, <2>1, LimbWidths DEF At
<1>11. At(b, HighBits + LimbBits, l)
    <2>1. \A i \in 1 .. Len(l) : b[HighBits + LimbBits + i] = l[i]
        BY <1>3, <1>8
    <2> QED BY <1>1, <1>3, <1>6, <2>1, LimbWidths DEF At
<1>12. Len(b) = 64
    BY <1>1, <1>3, <1>6, LimbWidths
<1> QED BY <1>2, <1>6, <1>9, <1>10, <1>11, <1>12 DEF h, m, l

\* The high limb of an unsigned long takes 16 bits.
LEMMA HighNumber ==
    ASSUME NEW v \in Unsigned64
    PROVE  /\ v \in Longs /\ v[1] \in Nat /\ v[1] < 2^HighBits
           /\ High(v) = BitsOf(v[1], HighBits)
<1>1. v \in Longs /\ v[1] \in Nat /\ v[1] < 65536
    BY DEF Unsigned64
<1>2. v[1] % 65536 = v[1]
    BY <1>1, SMT
<1>3. 2^HighBits = 65536
    BY LimbWidths
<1> QED BY <1>1, <1>2, <1>3 DEF High

\* From its 64 bits an unsigned long is read limb by limb.
LEMMA StreamNumbers ==
    ASSUME NEW v \in Unsigned64, NEW b, b = LongStream(v)
    PROVE  <<NumberOf(SubSeq(b, 1, 16)), NumberOf(SubSeq(b, 17, 40)), NumberOf(SubSeq(b, 41, 64))>> = v
<1> DEFINE h == BitsOf(v[1], HighBits)
           m == BitsOf(v[2], LimbBits)
           l == BitsOf(v[3], LimbBits)
           hm == HighBits + LimbBits
<1>1. v \in Longs /\ v[1] \in Nat /\ v[1] < 2^HighBits /\ High(v) = h
    BY HighNumber
<1>2. /\ b \in Bits /\ At(b, 0, h) /\ At(b, HighBits, m) /\ At(b, hm, l)
    BY <1>1, LongStreamType
<1>3. /\ h \in Bits /\ Len(h) = HighBits /\ m \in Bits /\ Len(m) = LimbBits
      /\ l \in Bits /\ Len(l) = LimbBits
    BY <1>1, LimbStreams
<1>4. /\ NumberOf(h) = v[1] /\ NumberOf(m) = v[2] /\ NumberOf(l) = v[3]
    <2>1. v[2] \in Nat /\ v[2] < 2^LimbBits /\ v[3] \in Nat /\ v[3] < 2^LimbBits
        BY <1>1, LimbNumbers
    <2> QED BY <1>1, <2>1, LimbNaturals, NumberOfBitsOf
<1>5. 0 \in Nat /\ HighBits \in Nat /\ hm \in Nat
    BY LimbNaturals
<1> HIDE DEF h, m, l, hm
<1>6. SubSeq(b, 0 + 1, 0 + HighBits) = h
    BY <1>2, <1>3, <1>5, AtGet
<1>7. SubSeq(b, HighBits + 1, HighBits + LimbBits) = m
    BY <1>2, <1>3, <1>5, AtGet
<1>8. SubSeq(b, hm + 1, hm + LimbBits) = l
    BY <1>2, <1>3, <1>5, AtGet
<1>9. /\ 0 + 1 = 1 /\ 0 + HighBits = 16 /\ HighBits + 1 = 17 /\ HighBits + LimbBits = 40
      /\ hm + 1 = 41 /\ hm + LimbBits = 64
    BY DEF HighBits, LimbBits, hm
<1>10. SubSeq(b, 1, 16) = h /\ SubSeq(b, 17, 40) = m /\ SubSeq(b, 41, 64) = l
    BY <1>6, <1>7, <1>8, <1>9
<1>11. v = <<v[1], v[2], v[3]>>
    BY <1>1, LongParts
<1> QED BY <1>4, <1>10, <1>11

-----------------------------------------------------------------------------
\* The bits in front of the last n are zero.
ShortLong(v, n) == \A i \in 1 .. 64 - n : LongStream(v)[i] = 0

\* LongBits takes the last n of the 64 bits.
LEMMA LongBitsType ==
    ASSUME NEW v \in Longs, NEW n \in 0 .. 64
    PROVE  /\ LongBits(v, n) \in Bits /\ Len(LongBits(v, n)) = n
           /\ \A i \in 1 .. n : LongBits(v, n)[i] = LongStream(v)[64 - n + i]
<1> DEFINE x == LongStream(v)
           m == 64 - n
<1>1. x \in Bits /\ Len(x) = 64
    BY LongStreamType
<1>2. LongBits(v, n) = SubSeq(x, 65 - n, 64)
    BY DEF LongBits, LongStream, High, HighBits, LimbBits
<1>3. m \in Nat /\ n \in Nat /\ m + 1 = 65 - n /\ m + n = 64
    OBVIOUS
<1> HIDE DEF x
<1>4. LongBits(v, n) = SubSeq(x, m + 1, m + n)
    BY <1>2, <1>3
<1>5. m + n =< Len(x)
    BY <1>1, <1>3
<1> HIDE DEF m
<1>6. /\ SubSeq(x, m + 1, m + n) \in Bits /\ Len(SubSeq(x, m + 1, m + n)) = n
      /\ \A i \in 1 .. n : SubSeq(x, m + 1, m + n)[i] = x[m + i]
    <2> DEFINE y == SubSeq(x, m + 1, m + n)
    <2>1. IsPart(x, m, n, y)
        BY <1>3, <1>5 DEF IsPart
    <2> HIDE DEF y
    <2>2. x \in Bits
        BY <1>1
    <2>3. y \in Bits /\ Len(y) = n /\ \A i \in 1 .. n : y[i] = x[m + i]
        BY <2>1, <2>2, PartBits
    <2> QED BY <2>3 DEF y
<1> QED BY <1>4, <1>6 DEF x, m

\* A run of zero bits.
LEMMA Zeros ==
    ASSUME NEW k \in Nat
    PROVE  /\ [i \in 1 .. k |-> 0] \in Bits /\ Len([i \in 1 .. k |-> 0]) = k
           /\ \A i \in 1 .. k : [j \in 1 .. k |-> 0][i] = 0
<1> DEFINE z == [i \in 1 .. k |-> 0]
<1>1. z \in [1 .. k -> {0, 1}]
    OBVIOUS
<1> QED BY <1>1 DEF Bits

\* LongOf reads back an unsigned long from the bits it fits into.
LEMMA LongOfShort ==
    ASSUME NEW v \in Unsigned64, NEW n \in 0 .. 64, ShortLong(v, n)
    PROVE  LongOf(LongBits(v, n)) = v
<1> DEFINE bits == LongBits(v, n)
           k == 64 - n
           z == [i \in 1 .. k |-> 0]
           b == z \o bits
           s == LongStream(v)
<1>0. v \in Longs
    BY DEF Unsigned64
<1>1. bits \in Bits /\ Len(bits) = n /\ \A i \in 1 .. n : bits[i] = s[k + i]
    BY <1>0, LongBitsType
<1>2. k \in Nat /\ n \in Nat /\ k + n = 64
    OBVIOUS
<1>3. z \in Bits /\ Len(z) = k /\ \A i \in 1 .. k : z[i] = 0
    BY <1>2, Zeros
<1>4. s \in Bits /\ Len(s) = 64
    BY <1>0, LongStreamType
<1>5. \A i \in 1 .. k : s[i] = 0
    BY DEF ShortLong
<1>6. LongOf(bits) = <<NumberOf(SubSeq(b, 1, 16)), NumberOf(SubSeq(b, 17, 40)), NumberOf(SubSeq(b, 41, 64))>>
    BY <1>1 DEF LongOf
<1> HIDE DEF bits, z, s, k
<1>7. b \in Bits /\ Len(b) = k + n
    BY <1>1, <1>3, BitsConcat
<1>8. \A i \in 1 .. k : b[i] = z[i]
    BY <1>1, <1>3, BitsConcat
<1>9. \A i \in 1 .. n : b[k + i] = bits[i]
    BY <1>1, <1>3, BitsConcat
<1> HIDE DEF b
<1>10. ASSUME NEW i \in 1 .. Len(b) PROVE b[i] = s[i]
    <2>1. CASE i =< k
        BY <1>2, <1>3, <1>5, <1>8, <2>1
    <2>2. CASE ~ (i =< k)
        <3>1. i - k \in 1 .. n /\ k + (i - k) = i
            BY <1>2, <1>7, <2>2
        <3> QED BY <1>1, <1>9, <3>1
    <2> QED BY <2>1, <2>2
<1>11. b = s
    <2>1. Len(b) = Len(s)
        BY <1>2, <1>4, <1>7
    <2> QED BY <1>4, <1>7, <1>10, <2>1, BitsEqual
<1> QED BY <1>6, <1>11, StreamNumbers DEF bits, s

\* More bits, more numbers.
LEMMA PowerMonotone ==
    ASSUME NEW j \in Nat, NEW k \in Nat, j =< k, k =< 31
    PROVE  2^j =< 2^k
<1> DEFINE S == {i \in Nat : 2^j =< 2^(j + i)}
<1>1. 0 \in S
    <2>1. j + 0 = j /\ 2^j \in Nat
        BY PowerPositive
    <2> QED BY <2>1
<1>2. ASSUME NEW i \in Nat, i < k - j, i \in S PROVE i + 1 \in S
    <2> DEFINE n == j + i
    <2>1. n \in Nat /\ n =< 30 /\ j + (i + 1) = n + 1
        BY <1>2
    <2>2. 2^j =< 2^n
        BY <1>2
    <2> HIDE DEF n
    <2>3. 2^(n + 1) = 2 * 2^n /\ 2^n \in Nat /\ 2^j \in Nat
        BY <2>1, PowerDouble, PowerPositive
    <2>4. ASSUME NEW a \in Nat, NEW b \in Nat, a =< b PROVE a =< 2 * b
        BY <2>4, SMT
    <2>5. 2^j =< 2^(n + 1)
        BY <2>2, <2>3, <2>4
    <2> QED BY <2>1, <2>5
<1> HIDE DEF S
<1>3. k - j \in Nat /\ j + (k - j) = k
    OBVIOUS
<1>4. k - j \in S
    <2> DEFINE d == k - j
    <2> HIDE DEF d
    <2>1. d \in Nat /\ \A i \in Nat : i < d /\ i \in S => i + 1 \in S
        BY <1>2, <1>3 DEF d
    <2>2. d \in S
        BY <1>1, <2>1, UpTo
    <2> QED BY <2>2 DEF d
<1> QED BY <1>3, <1>4 DEF S

\* A number of k bits has zeros in front of the last k.
LEMMA LeadingZeros ==
    ASSUME NEW v \in Nat, NEW n \in Nat, NEW k \in Nat, k =< n, n =< 31, v < 2^k
    PROVE  \A i \in 1 .. n - k : BitsOf(v, n)[i] = 0
<1> TAKE i \in 1 .. n - k
<1> DEFINE j == n - i
<1>1. i \in 1 .. n /\ j \in Nat /\ k =< j /\ j =< 31 /\ k =< 31
    OBVIOUS
<1>2. BitsOf(v, n)[i] = (v \div 2^j) % 2
    BY <1>1, BitsOfType
<1> HIDE DEF j
<1>3. 2^k =< 2^j /\ 2^k \in Nat /\ 2^j \in Nat
    BY <1>1, PowerMonotone, PowerPositive
<1>4. ASSUME NEW a \in Nat, v < a PROVE v \div a = 0
    BY <1>4, SMT
<1>5. v < 2^j
    BY <1>3
<1>6. v \div 2^j = 0
    BY <1>3, <1>4, <1>5
<1> QED BY <1>2, <1>6

\* Limbs that fit into fewer bits leave zeros in front.
LEMMA StreamZeros ==
    ASSUME NEW v \in Unsigned64, NEW s, s = LongStream(v),
           NEW h \in Nat, h =< HighBits, v[1] < 2^h,
           NEW m \in Nat, m =< LimbBits, v[2] < 2^m,
           NEW l \in Nat, l =< LimbBits, v[3] < 2^l
    PROVE  /\ \A i \in 1 .. 16 - h : s[i] = 0
           /\ \A i \in 1 .. 24 - m : s[16 + i] = 0
           /\ \A i \in 1 .. 24 - l : s[40 + i] = 0
<1> DEFINE hb == BitsOf(v[1], HighBits)
           mb == BitsOf(v[2], LimbBits)
           lb == BitsOf(v[3], LimbBits)
<1>1. v \in Longs /\ v[1] \in Nat /\ High(v) = hb
    BY HighNumber
<1>2. v[2] \in Nat /\ v[3] \in Nat
    BY <1>1, LimbNumbers
<1>3. /\ At(s, 0, hb) /\ At(s, HighBits, mb) /\ At(s, HighBits + LimbBits, lb)
    BY <1>1, LongStreamType
<1>4. Len(hb) = HighBits /\ Len(mb) = LimbBits /\ Len(lb) = LimbBits
    BY <1>1, LimbStreams
<1>5. \A i \in 1 .. HighBits - h : hb[i] = 0
    BY <1>1, LimbNaturals, LeadingZeros
<1>6. \A i \in 1 .. LimbBits - m : mb[i] = 0
    BY <1>2, LimbNaturals, LeadingZeros
<1>7. \A i \in 1 .. LimbBits - l : lb[i] = 0
    BY <1>2, LimbNaturals, LeadingZeros
<1> HIDE DEF hb, mb, lb
<1>8. HighBits = 16 /\ LimbBits = 24
    BY DEF HighBits, LimbBits
<1>9. ASSUME NEW i \in 1 .. 16 - h PROVE s[i] = 0
    <2>1. i \in 1 .. Len(hb) /\ i \in 1 .. HighBits - h /\ 0 + i = i
        BY <1>4, <1>8
    <2>2. s[0 + i] = hb[i]
        BY <1>3, <2>1 DEF At
    <2> QED BY <1>5, <2>1, <2>2
<1>10. ASSUME NEW i \in 1 .. 24 - m PROVE s[16 + i] = 0
    <2>1. i \in 1 .. Len(mb) /\ i \in 1 .. LimbBits - m
        BY <1>4, <1>8
    <2>2. s[HighBits + i] = mb[i]
        BY <1>3, <2>1 DEF At
    <2> QED BY <1>6, <1>8, <2>1, <2>2
<1>11. ASSUME NEW i \in 1 .. 24 - l PROVE s[40 + i] = 0
    <2>1. i \in 1 .. Len(lb) /\ i \in 1 .. LimbBits - l
        BY <1>4, <1>8
    <2>2. s[HighBits + LimbBits + i] = lb[i]
        BY <1>3, <2>1 DEF At
    <2>3. HighBits + LimbBits + i = 40 + i
        BY <1>8
    <2> QED BY <1>7, <2>1, <2>2, <2>3
<1> QED BY <1>9, <1>10, <1>11

\* Below 2^n only the last n bits are set.
LEMMA BelowPower ==
    ASSUME NEW v \in Unsigned64, NEW n \in 0 .. 64, Less(v, PowerLong(n))
    PROVE  ShortLong(v, n)
<1> DEFINE s == LongStream(v)
<1>1. v \in Longs /\ v[1] \in Nat /\ v[1] < 2^HighBits
    BY HighNumber
<1>2. v[2] \in Nat /\ v[3] \in Nat /\ v[2] < 2^LimbBits /\ v[3] < 2^LimbBits
    BY <1>1, LimbNumbers
<1>3. 0 \in Nat /\ 0 =< HighBits /\ 0 =< LimbBits /\ 2^0 = 1 /\ 0 < 2^0
    BY LimbNaturals, PowerTable
<1>4. HighBits = 16 /\ LimbBits = 24 /\ HighBits =< HighBits /\ LimbBits =< LimbBits
    BY DEF HighBits, LimbBits
<1> HIDE DEF s
<1>5. CASE n < 24
    <2>1. n \in Nat /\ n =< LimbBits /\ 2^n \in Nat
        BY <1>4, <1>5, PowerPositive
    <2>2. v[1] = 0 /\ v[2] = 0 /\ v[3] < 2^n
        BY <1>1, <1>2, <1>5, <2>1 DEF Less, PowerLong
    <2>3. v[1] < 2^0 /\ v[2] < 2^0
        BY <1>3, <2>2
    <2>4. /\ \A i \in 1 .. 16 - 0 : s[i] = 0
          /\ \A i \in 1 .. 24 - 0 : s[16 + i] = 0
          /\ \A i \in 1 .. 24 - n : s[40 + i] = 0
        BY <1>3, <2>1, <2>2, <2>3, StreamZeros DEF s
    <2>5. ASSUME NEW i \in 1 .. 64 - n PROVE s[i] = 0
        <3>1. CASE i =< 16
            BY <2>4, <3>1
        <3>2. CASE i > 16 /\ i =< 40
            <4>1. i - 16 \in 1 .. 24 - 0 /\ 16 + (i - 16) = i
                BY <3>2
            <4> QED BY <2>4, <4>1
        <3>3. CASE i > 40
            <4>1. i - 40 \in 1 .. 24 - n /\ 40 + (i - 40) = i
                BY <3>3
            <4> QED BY <2>4, <4>1
        <3> QED BY <3>1, <3>2, <3>3
    <2> QED BY <2>5 DEF ShortLong, s
<1>6. CASE ~ (n < 24) /\ n < 48
    <2> DEFINE m == n - 24
    <2>1. m \in Nat /\ m =< LimbBits /\ 2^m \in Nat
        BY <1>4, <1>6, PowerPositive
    <2>2. PowerLong(n) = <<0, 2^m, 0>>
        BY <1>6 DEF PowerLong
    <2> HIDE DEF m
    <2>3. v[1] = 0 /\ v[2] < 2^m
        BY <1>1, <1>2, <2>1, <2>2 DEF Less
    <2>4. v[1] < 2^0
        BY <1>3, <2>3
    <2>5. /\ \A i \in 1 .. 16 - 0 : s[i] = 0
          /\ \A i \in 1 .. 24 - m : s[16 + i] = 0
        <3> DEFINE zero == 0
        <3>1. zero \in Nat /\ zero =< HighBits /\ v[1] < 2^zero
            BY <1>3, <2>4
        <3>2. LimbBits \in Nat /\ LimbBits =< LimbBits /\ v[3] < 2^LimbBits /\ s = LongStream(v)
            BY <1>2, <1>4, LimbNaturals DEF s
        <3> HIDE DEF zero
        <3>3. /\ \A i \in 1 .. 16 - zero : s[i] = 0
              /\ \A i \in 1 .. 24 - m : s[16 + i] = 0
            BY <2>1, <2>3, <3>1, <3>2, StreamZeros
        <3> QED BY <3>3 DEF zero
    <2>6. ASSUME NEW i \in 1 .. 64 - n PROVE s[i] = 0
        <3>1. CASE i =< 16
            BY <2>5, <3>1
        <3>2. CASE i > 16
            <4>1. i - 16 \in 1 .. 24 - m /\ 16 + (i - 16) = i
                BY <1>6, <3>2 DEF m
            <4> QED BY <2>5, <4>1
        <3> QED BY <3>1, <3>2
    <2> QED BY <2>6 DEF ShortLong, s
<1>7. CASE ~ (n < 48)
    <2> DEFINE h == n - 48
    <2>1. h \in Nat /\ h =< HighBits /\ 2^h \in Nat
        BY <1>4, <1>7, PowerPositive
    <2>2. PowerLong(n) = <<2^h, 0, 0>>
        BY <1>7 DEF PowerLong
    <2> HIDE DEF h
    <2>3. v[1] < 2^h
        BY <1>1, <1>2, <2>1, <2>2 DEF Less
    <2>4. \A i \in 1 .. 16 - h : s[i] = 0
        BY <1>2, <1>4, <2>1, <2>3, LimbNaturals, StreamZeros DEF s
    <2>5. 64 - n = 16 - h
        BY <1>7 DEF h
    <2> QED BY <2>4, <2>5 DEF ShortLong, s
<1> QED BY <1>5, <1>6, <1>7

-----------------------------------------------------------------------------
(* Round trips of the constrained numbers. *)

\* Bits are never taken for the mark of a starved getter.
LEMMA NotStarving == ASSUME NEW bits \in Bits PROVE ~ Starving(bits)
<1> SUFFICES ASSUME bits = <<-1>> PROVE FALSE
    BY DEF Starving
<1>1. Len(bits) = 1 /\ bits[1] = -1
    OBVIOUS
<1>2. bits[1] \in {0, 1}
    BY <1>1, BitsParts
<1> QED BY <1>1, <1>2

\* asn_get_many_bits reads the bits that lie there.
LEMMA GetManyBits ==
    ASSUME NEW pd \in Bits, NEW pos \in Nat, NEW x \in Bits, At(pd, pos, x)
    PROVE  asn_get_many_bits(pd, pos, Len(x)) = x
<1>1. ~ (pos + Len(x) > Len(pd))
    BY BitsParts DEF At
<1> QED BY <1>1, AtGet DEF asn_get_many_bits

\* 2^n as a long, up to 2^64.
LEMMA PowerLongType ==
    ASSUME NEW n \in 0 .. 64
    PROVE  /\ PowerLong(n) \in Longs /\ PowerLong(n)[1] =< 65536
           /\ PowerLong(n)[1] = 65536 => PowerLong(n)[2] = 0 /\ PowerLong(n)[3] = 0
<1>1. ASSUME NEW k \in Nat, k < 24 PROVE 2^k \in Limb
    <2>1. 2^k \in Nat /\ 2^k < LIMB
        BY <1>1, PowerTable, WidthCases, SMT DEF LIMB
    <2> QED BY <2>1 DEF Limb
<1>2. ASSUME NEW k \in Nat, k =< 16 PROVE 2^k \in Nat /\ 2^k =< 65536
    BY <1>2, PowerTable, WidthCases, SMT
<1>3. 0 \in Limb /\ 0 \in Int
    BY SMT DEF Limb, LIMB
<1>4. CASE n < 24
    <2>1. PowerLong(n) = <<0, 0, 2^n>> /\ 2^n \in Limb
        BY <1>1, <1>4 DEF PowerLong
    <2>2. PowerLong(n) \in Longs
        BY <1>3, <2>1 DEF Longs
    <2>3. PowerLong(n)[1] = 0
        BY <2>1
    <2> QED BY <2>2, <2>3
<1>5. CASE ~ (n < 24) /\ n < 48
    <2> DEFINE m == n - 24
    <2>1. m \in Nat /\ m < 24
        BY <1>5
    <2>2. PowerLong(n) = <<0, 2^m, 0>> /\ 2^m \in Limb
        BY <1>1, <1>5, <2>1 DEF PowerLong
    <2> HIDE DEF m
    <2>3. PowerLong(n) \in Longs
        BY <1>3, <2>2 DEF Longs
    <2>4. PowerLong(n)[1] = 0
        BY <2>2
    <2> QED BY <2>3, <2>4
<1>6. CASE ~ (n < 48)
    <2> DEFINE h == n - 48
    <2>1. h \in Nat /\ h =< 16
        BY <1>6
    <2>2. PowerLong(n) = <<2^h, 0, 0>> /\ 2^h \in Int /\ 2^h =< 65536
        BY <1>2, <1>6, <2>1 DEF PowerLong
    <2> HIDE DEF h
    <2>3. PowerLong(n) \in Longs
        BY <1>3, <2>2 DEF Longs
    <2> QED BY <2>2, <2>3
<1> QED BY <1>4, <1>5, <1>6

\* Nonnegative numbers below 2^n, n at most 64, are unsigned longs.
LEMMA UnsignedBelow ==
    ASSUME NEW r \in Longs, NEW n \in 0 .. 64, 0 =< Value(r), Less(r, PowerLong(n))
    PROVE  r \in Unsigned64
<1> DEFINE p == PowerLong(n)
<1>1. p \in Longs /\ p[1] =< 65536 /\ (p[1] = 65536 => p[2] = 0 /\ p[3] = 0)
    BY PowerLongType
<1>2. r[1] \in Int /\ r[2] \in Nat /\ r[3] \in Nat /\ r[2] < LIMB /\ r[3] < LIMB
    BY LongParts DEF Limb
<1>3. p[1] \in Int
    BY <1>1, LongParts
<1>4. r[1] < p[1] \/ (r[1] = p[1] /\ (r[2] < p[2] \/ r[3] < p[3]))
    BY DEF Less
<1> HIDE DEF p
<1>5. r[1] < 65536
    BY <1>1, <1>2, <1>3, <1>4
<1>6. r[1] >= 0
    BY <1>2, SMT DEF Value, LIMB
<1> QED BY <1>2, <1>5, <1>6 DEF Unsigned64

\* A rebased value fits into the bits of its range.
LEMMA RebasedBelow ==
    ASSUME NEW lb \in Longs, NEW v \in Longs, NEW ub \in Longs, NEW n \in 0 .. 64,
           Within(lb, v, ub), Less(Minus(ub, lb), PowerLong(n))
    PROVE  LET r == per_long_range_rebase(v, lb, ub)[1]
           IN  /\ r \in Unsigned64 /\ ShortLong(r, n)
               /\ per_long_range_unrebase(r, lb, ub) = <<v>>
<1> DEFINE r == per_long_range_rebase(v, lb, ub)[1]
           w == Minus(ub, lb)
           p == PowerLong(n)
<1>1. /\ r \in Longs /\ 0 =< Value(r) /\ Value(r) =< Value(ub) - Value(lb)
      /\ per_long_range_unrebase(r, lb, ub) = <<v>>
    BY RebaseInverse
<1>2. w \in Longs /\ Value(w) = Value(ub) - Value(lb)
    BY PlusMinusValue
<1>3. p \in Longs
    BY PowerLongType
<1>4. Less(w, p)
    OBVIOUS
<1> HIDE DEF r, w, p
<1>5. Value(r) \in Int /\ Value(w) \in Int /\ Value(p) \in Int
    BY <1>1, <1>2, <1>3, LongValue
<1>6. Value(w) < Value(p)
    BY <1>2, <1>3, <1>4, LessIsOrder
<1>7. Value(r) < Value(p)
    BY <1>1, <1>2, <1>5, <1>6
<1>8. Less(r, p)
    BY <1>1, <1>3, <1>7, LessIsOrder
<1>9. r \in Unsigned64
    BY <1>1, <1>8, UnsignedBelow DEF p
<1>10. ShortLong(r, n)
    BY <1>8, <1>9, BelowPower DEF p
<1> QED BY <1>1, <1>9, <1>10 DEF r

(***************************************************************************)
(* A constrained number: the encoder's per_long_range_rebase and           *)
(* uper_put_constrained_whole_number_u, and the decoder's                  *)
(* uper_get_constrained_whole_number and per_long_range_unrebase.  Every   *)
(* value of a range of at most 2^n numbers, n up to 64, comes back from    *)
(* its n bits, and bits that are missing are noticed.                      *)
(***************************************************************************)
THEOREM ConstrainedNumberRoundTrip ==
    ASSUME NEW a \in Bits, NEW rest \in Bits, NEW n \in 0 .. 64,
           NEW lb \in Longs, NEW v \in Longs, NEW ub \in Longs,
           Within(lb, v, ub), Less(Minus(ub, lb), PowerLong(n))
    PROVE  LET er == uper_put_constrained_whole_number_u(
                         Output(a), per_long_range_rebase(v, lb, ub)[1], n)
               raw == uper_get_constrained_whole_number(er.bits \o rest, Len(a), n)
           IN  /\ er.ok /\ Len(er.bits) = Len(a) + n
               /\ ~ Starving(raw) /\ per_long_range_unrebase(LongOf(raw), lb, ub) = <<v>>
               /\ \A cut \in Len(a) .. Len(er.bits) - 1 :
                      Starving(uper_get_constrained_whole_number(SubSeq(er.bits, 1, cut), Len(a), n))
<1> DEFINE r == per_long_range_rebase(v, lb, ub)[1]
           er == uper_put_constrained_whole_number_u(Output(a), r, n)
           x == LongBits(r, n)
           pd == (a \o x) \o rest
<1>1. r \in Unsigned64 /\ ShortLong(r, n) /\ per_long_range_unrebase(r, lb, ub) = <<v>>
    BY RebasedBelow
<1> HIDE DEF r
<1>2. r \in Longs
    BY <1>1 DEF Unsigned64
<1>3. x \in Bits /\ Len(x) = n
    BY <1>2, LongBitsType
<1>4. LongOf(x) = r
    BY <1>1, LongOfShort
<1>5. er = Output(a \o x)
    BY PutBits DEF uper_put_constrained_whole_number_u
<1> HIDE DEF x, er
<1>6. er.ok = TRUE /\ er.bits = a \o x
    BY <1>5, OutputParts
<1>7. pd \in Bits /\ Len(a) \in Nat /\ At(pd, Len(a), x) /\ Len(a \o x) = Len(a) + Len(x)
    BY <1>3, ReadBack
<1>8. asn_get_many_bits(pd, Len(a), n) = x
    BY <1>3, <1>7, GetManyBits
<1>9. ASSUME NEW cut \in Len(a) .. Len(er.bits) - 1
      PROVE  asn_get_many_bits(SubSeq(er.bits, 1, cut), Len(a), n) = <<-1>>
    <2>1. cut \in Nat /\ Len(a) =< cut /\ cut < Len(a) + Len(x)
        BY <1>3, <1>6, <1>7
    <2>2. SubSeq(a \o x, 1, cut) \in Bits /\ CutAt(SubSeq(a \o x, 1, cut), Len(a), x)
        BY <1>3, <2>1, CutOutput
    <2> QED BY <1>3, <1>6, <1>7, <2>2, GetCut
<1>10. ~ Starving(x)
    BY <1>3, NotStarving
<1> QED BY <1>1, <1>3, <1>4, <1>6, <1>7, <1>8, <1>9, <1>10
        DEF uper_get_constrained_whole_number, er, r, Starving

SameBits(x, y) == Len(x) = Len(y) /\ \A i \in 1 .. Len(x) : x[i] = y[i]

\* The same, with the premises in one.
LEMMA SameBitsEqual == ASSUME NEW x \in Bits, NEW y \in Bits, SameBits(x, y) PROVE x = y
BY BitsEqual DEF SameBits

\* v is the number of the n bits of b behind the first m.
Part(b, m, n, v) ==
    /\ m \in Nat /\ n \in Nat /\ m + n =< Len(b) /\ n =< 31
    /\ v = NumberOf(SubSeq(b, m + 1, m + n))

\* The bits of that number are those n bits.
LEMMA SubStream ==
    ASSUME NEW b \in Bits, NEW m, NEW n, NEW v, Part(b, m, n, v)
    PROVE  /\ v \in Nat /\ v < 2^n /\ Len(BitsOf(v, n)) = n
           /\ \A i \in 1 .. n : BitsOf(v, n)[i] = b[m + i]
<1> DEFINE s == SubSeq(b, m + 1, m + n)
<1>0. m \in Nat /\ n \in Nat /\ m + n =< Len(b) /\ n =< 31 /\ v = NumberOf(s)
    BY DEF Part
<1>1. s \in Bits /\ Len(s) = n /\ \A i \in 1 .. n : s[i] = b[m + i]
    BY <1>0, BitsSub
<1> HIDE DEF s
<1>2. v = NumberOf(s)
    BY <1>0
<1>3. v \in Nat /\ v < 2^n /\ BitsOf(v, n) = s
    BY <1>0, <1>1, <1>2, NumberOfRange, BitsOfNumberOf
<1> QED BY <1>1, <1>3

\* The 64 bits are those of the unsigned long of which they make up the limbs.
LEMMA StreamOfParts ==
    ASSUME NEW b \in Bits, Len(b) = 64, NEW p, NEW q, NEW r, NEW hm, hm = HighBits + LimbBits,
           Part(b, 0, HighBits, p), Part(b, HighBits, LimbBits, q), Part(b, hm, LimbBits, r)
    PROVE  <<p, q, r>> \in Unsigned64 /\ LongStream(<<p, q, r>>) = b
<1> DEFINE h == BitsOf(p, HighBits)
           m == BitsOf(q, LimbBits)
           l == BitsOf(r, LimbBits)
           v == <<p, q, r>>
           s == LongStream(v)
<1>1. hm = 40 /\ HighBits = 16 /\ LimbBits = 24
    BY DEF HighBits, LimbBits
<1>5. p \in Nat /\ p < 2^HighBits /\ Len(h) = HighBits /\ \A i \in 1 .. HighBits : h[i] = b[0 + i]
    <2> DEFINE zero == 0
    <2>1. Part(b, zero, HighBits, p)
        OBVIOUS
    <2> HIDE DEF zero
    <2>2. p \in Nat /\ p < 2^HighBits /\ Len(h) = HighBits /\ \A i \in 1 .. HighBits : h[i] = b[zero + i]
        BY <2>1, SubStream
    <2> QED BY <2>2 DEF zero
<1>6. q \in Nat /\ q < 2^LimbBits /\ Len(m) = LimbBits /\ \A i \in 1 .. LimbBits : m[i] = b[HighBits + i]
    BY SubStream
<1>7. r \in Nat /\ r < 2^LimbBits /\ Len(l) = LimbBits /\ \A i \in 1 .. LimbBits : l[i] = b[hm + i]
    BY SubStream
<1>8. v \in Unsigned64
    <2>1. p < 65536 /\ q \in Limb /\ r \in Limb /\ p \in Int
        <3>1. 2^HighBits = 65536 /\ 2^LimbBits = LIMB
            BY LimbWidths
        <3> QED BY <1>5, <1>6, <1>7, <3>1 DEF Limb
    <2>2. v \in Longs /\ v[1] = p
        BY <2>1 DEF Longs
    <2> QED BY <1>5, <2>1, <2>2 DEF Unsigned64
<1> HIDE DEF h, m, l
<1>9. v \in Longs /\ High(v) = h /\ m = BitsOf(v[2], LimbBits) /\ l = BitsOf(v[3], LimbBits)
    <2>1. v[1] = p /\ v[2] = q /\ v[3] = r
        OBVIOUS
    <2> HIDE DEF v
    <2> QED BY <1>8, <2>1, HighNumber DEF h, m, l
<1> HIDE DEF v
<1>10. /\ s \in Bits /\ Len(s) = 64 /\ At(s, 0, h) /\ At(s, HighBits, m) /\ At(s, hm, l)
    BY <1>9, LongStreamType
<1> HIDE DEF s
<1>11. ASSUME NEW i \in 1 .. Len(s) PROVE s[i] = b[i]
    <2>1. CASE i =< 16
        <3>1. i \in 1 .. HighBits /\ i \in 1 .. Len(h)
            BY <1>1, <1>5, <2>1
        <3>2. s[0 + i] = h[i]
            BY <1>10, <3>1 DEF At
        <3> QED BY <1>5, <3>1, <3>2
    <2>2. CASE i > 16 /\ i =< 40
        <3>1. i - 16 \in 1 .. LimbBits /\ i - 16 \in 1 .. Len(m) /\ HighBits + (i - 16) = i
            BY <1>1, <1>6, <1>10, <2>2
        <3>2. s[HighBits + (i - 16)] = m[i - 16]
            BY <1>10, <3>1 DEF At
        <3> QED BY <1>6, <3>1, <3>2
    <2>3. CASE i > 40
        <3>1. i - 40 \in 1 .. LimbBits /\ i - 40 \in 1 .. Len(l) /\ hm + (i - 40) = i
            BY <1>1, <1>7, <1>10, <2>3
        <3>2. s[hm + (i - 40)] = l[i - 40]
            BY <1>10, <3>1 DEF At
        <3> QED BY <1>7, <3>1, <3>2
    <2> QED BY <1>10, <2>1, <2>2, <2>3
<1>12. s = b
    <2>1. Len(s) = Len(b) /\ s \in Bits /\ b \in Bits
        BY <1>10
    <2>2. SameBits(s, b)
        BY <1>11, <2>1 DEF SameBits
    <2> QED BY <2>1, <2>2, SameBitsEqual
<1> QED BY <1>8, <1>12 DEF s, v

\* The same for the three numbers that LongOf reads.
LEMMA StreamOfNumbers ==
    ASSUME NEW b \in Bits, Len(b) = 64, NEW v,
           v = <<NumberOf(SubSeq(b, 1, 16)), NumberOf(SubSeq(b, 17, 40)), NumberOf(SubSeq(b, 41, 64))>>
    PROVE  v \in Unsigned64 /\ LongStream(v) = b
<1> DEFINE hm == HighBits + LimbBits
<1>1. /\ 0 + 1 = 1 /\ 0 + HighBits = 16 /\ HighBits + 1 = 17 /\ HighBits + LimbBits = 40
      /\ hm + 1 = 41 /\ hm + LimbBits = 64
    BY DEF HighBits, LimbBits
<1>2. 0 \in Nat /\ HighBits \in Nat /\ hm \in Nat /\ LimbBits \in Nat /\ HighBits =< 31 /\ LimbBits =< 31
    BY LimbNaturals
<1>3. hm = HighBits + LimbBits
    OBVIOUS
<1> HIDE DEF hm
<1>4. /\ v[1] = NumberOf(SubSeq(b, 0 + 1, 0 + HighBits))
      /\ v[2] = NumberOf(SubSeq(b, HighBits + 1, HighBits + LimbBits))
      /\ v[3] = NumberOf(SubSeq(b, hm + 1, hm + LimbBits))
    BY <1>1
<1>5. /\ Part(b, 0, HighBits, v[1]) /\ Part(b, HighBits, LimbBits, v[2])
      /\ Part(b, hm, LimbBits, v[3])
    <2>1. 0 + HighBits =< Len(b) /\ HighBits + LimbBits =< Len(b) /\ hm + LimbBits =< Len(b)
        BY <1>1
    <2> QED BY <1>2, <1>4, <2>1 DEF Part
<1>6. v = <<v[1], v[2], v[3]>>
    OBVIOUS
<1>7. /\ <<v[1], v[2], v[3]>> \in Unsigned64
      /\ LongStream(<<v[1], v[2], v[3]>>) = b
    BY <1>3, <1>5, StreamOfParts
<1> QED BY <1>6, <1>7

\* LongBits gives back the bits that LongOf read.
LEMMA LongOfType ==
    ASSUME NEW x \in Bits, NEW n \in 0 .. 64, Len(x) = n
    PROVE  LongOf(x) \in Unsigned64 /\ LongBits(LongOf(x), n) = x
<1> DEFINE k == 64 - n
           z == [i \in 1 .. k |-> 0]
           b == z \o x
           v == LongOf(x)
           y == LongBits(v, n)
<1>1. k \in Nat /\ n \in Nat /\ k + n = 64
    OBVIOUS
<1>2. z \in Bits /\ Len(z) = k
    BY <1>1, Zeros
<1>3. v = <<NumberOf(SubSeq(b, 1, 16)), NumberOf(SubSeq(b, 17, 40)), NumberOf(SubSeq(b, 41, 64))>>
    BY DEF LongOf
<1> HIDE DEF z, v
<1>4. b \in Bits /\ Len(b) = Len(z) + Len(x)
    BY <1>2, BitsConcat
<1>5. \A i \in 1 .. Len(x) : b[Len(z) + i] = x[i]
    BY <1>2, BitsConcat
<1>6. Len(b) = 64
    BY <1>1, <1>2, <1>4
<1> HIDE DEF b
<1>7. v \in Unsigned64 /\ LongStream(v) = b
    BY <1>3, <1>4, <1>6, StreamOfNumbers
<1>8. v \in Longs
    BY <1>7 DEF Unsigned64
<1>9. y \in Bits /\ Len(y) = n /\ \A i \in 1 .. n : y[i] = b[k + i]
    BY <1>7, <1>8, LongBitsType
<1> HIDE DEF y, k
<1>10. \A i \in 1 .. Len(y) : y[i] = x[i]
    BY <1>2, <1>5, <1>9
<1>11. y = x
    BY <1>9, <1>10, BitsEqual
<1> QED BY <1>7, <1>11 DEF y, v

\* Any bits that are accepted as a number in the range are the bits of that number.
LEMMA ConstrainedNumberBits ==
    ASSUME NEW pd \in Bits, NEW pos \in Nat, NEW n \in 0 .. 64, NEW lb \in Longs, NEW ub \in Longs
    PROVE  LET raw == uper_get_constrained_whole_number(pd, pos, n)
               v == per_long_range_unrebase(LongOf(raw), lb, ub)
           IN  ~ Starving(raw) /\ v # << >> =>
                  /\ raw \in Bits /\ Len(raw) = n /\ At(pd, pos, raw)
                  /\ v[1] \in Longs /\ Within(lb, v[1], ub)
                  /\ LongBits(per_long_range_rebase(v[1], lb, ub)[1], n) = raw
<1> DEFINE raw == uper_get_constrained_whole_number(pd, pos, n)
           u == LongOf(raw)
           v == per_long_range_unrebase(u, lb, ub)
<1> SUFFICES ASSUME ~ Starving(raw), v # << >>
             PROVE  /\ raw \in Bits /\ Len(raw) = n /\ At(pd, pos, raw)
                    /\ v[1] \in Longs /\ Within(lb, v[1], ub)
                    /\ LongBits(per_long_range_rebase(v[1], lb, ub)[1], n) = raw
    OBVIOUS
<1>1. raw = SubSeq(pd, pos + 1, pos + n) /\ pos + n =< Len(pd)
    <2>1. ~ (pos + n > Len(pd))
        BY DEF uper_get_constrained_whole_number, asn_get_many_bits, Starving
    <2>2. Len(pd) \in Nat
        BY BitsParts
    <2> QED BY <2>1, <2>2 DEF uper_get_constrained_whole_number, asn_get_many_bits
<1>2. n \in Nat
    OBVIOUS
<1>3. raw \in Bits /\ Len(raw) = n /\ \A i \in 1 .. n : raw[i] = pd[pos + i]
    <2>1. /\ SubSeq(pd, pos + 1, pos + n) \in Bits
          /\ Len(SubSeq(pd, pos + 1, pos + n)) = n
          /\ \A i \in 1 .. n : SubSeq(pd, pos + 1, pos + n)[i] = pd[pos + i]
        BY <1>1, <1>2, BitsSub
    <2> HIDE DEF raw
    <2> QED BY <1>1, <2>1
<1> HIDE DEF raw
<1>4. u \in Unsigned64 /\ LongBits(u, n) = raw
    BY <1>3, LongOfType
<1>5. u \in Longs /\ 0 =< Value(u)
    <2>1. u \in Longs /\ u[1] \in Nat
        BY <1>4 DEF Unsigned64
    <2>2. u[2] \in Nat /\ u[3] \in Nat
        BY <2>1, LongParts DEF Limb
    <2> QED BY <2>1, <2>2, SMT DEF Value, LIMB
<1> HIDE DEF u
<1>6. v[1] \in Longs /\ Within(lb, v[1], ub) /\ per_long_range_rebase(v[1], lb, ub) = <<u>>
    BY <1>5, UnrebaseInRange
<1>7. per_long_range_rebase(v[1], lb, ub)[1] = u
    BY <1>6
<1> HIDE DEF v
<1>8. At(pd, pos, raw)
    BY <1>1, <1>3 DEF At
<1> QED BY <1>3, <1>4, <1>6, <1>7, <1>8

(***************************************************************************)
(* Whatever n bits a packet has in the place of a constrained number, the  *)
(* decoder refuses them or yields a value of the range, and the encoder    *)
(* writes the same bits for that value: no two encodings of one value are  *)
(* accepted, and no value outside the range is.                            *)
(***************************************************************************)
THEOREM ConstrainedNumberCanonical ==
    ASSUME NEW pd \in Bits, NEW pos \in Nat, NEW n \in 0 .. 64, NEW a \in Bits,
           NEW lb \in Longs, NEW ub \in Longs
    PROVE  LET raw == uper_get_constrained_whole_number(pd, pos, n)
               v == per_long_range_unrebase(LongOf(raw), lb, ub)
           IN  ~ Starving(raw) /\ v # << >> =>
                  /\ v[1] \in Longs /\ Within(lb, v[1], ub)
                  /\ uper_put_constrained_whole_number_u(
                         Output(a), per_long_range_rebase(v[1], lb, ub)[1], n) = Output(a \o raw)
BY ConstrainedNumberBits, PutBits DEF uper_put_constrained_whole_number_u

-----------------------------------------------------------------------------
(* Round trip of the signed numbers. *)

\* The longs that an intmax_t holds, and what its bits denote without a sign.
Signed64 == {v \in Longs : -32768 =< v[1] /\ v[1] < 32768}
Wrapped(v) == <<v[1] % 65536, v[2], v[3]>>

\* The 64 bits of a long do not tell the two apart.
LEMMA WrappedStream ==
    ASSUME NEW v \in Longs
    PROVE  Wrapped(v) \in Unsigned64 /\ LongStream(Wrapped(v)) = LongStream(v)
<1> DEFINE h == v[1] % 65536
           u == <<h, v[2], v[3]>>
<1>1. v[2] \in Limb /\ v[3] \in Limb /\ v[1] \in Int
    BY LongParts
<1>2. h \in Nat /\ h < 65536 /\ h % 65536 = h
    BY <1>1, SMT
<1> HIDE DEF h
<1>3. u \in Longs
    BY <1>1, <1>2 DEF Longs
<1>4. u[1] = h /\ u[2] = v[2] /\ u[3] = v[3]
    OBVIOUS
<1>5. Wrapped(v) = u
    BY DEF Wrapped, h
<1> HIDE DEF u
<1>6. u \in Unsigned64
    BY <1>2, <1>3, <1>4 DEF Unsigned64
<1>7. High(u) = High(v)
    BY <1>2, <1>4 DEF High, h
<1>8. LongStream(u) = LongStream(v)
    BY <1>4, <1>7 DEF LongStream
<1> QED BY <1>5, <1>6, <1>8

\* Reading the 64 bits with a sign.
LEMMA Unwrap ==
    ASSUME NEW v \in Signed64, NEW u, u = Wrapped(v)
    PROVE  (IF u[1] >= 32768 THEN Minus(u, <<65536, 0, 0>>) ELSE u) = v
<1>1. /\ v \in Longs /\ -32768 =< v[1] /\ v[1] < 32768
    BY DEF Signed64
<1>2. v[1] \in Int /\ v[2] \in Limb /\ v[3] \in Limb /\ v = <<v[1], v[2], v[3]>>
    BY <1>1, LongParts
<1>3. u[1] = v[1] % 65536 /\ u[2] = v[2] /\ u[3] = v[3] /\ u = <<u[1], u[2], u[3]>>
    BY DEF Wrapped
<1>4. /\ v[1] >= 0 => u[1] = v[1] /\ ~ (u[1] >= 32768)
      /\ v[1] < 0 => u[1] = v[1] + 65536 /\ u[1] >= 32768
    BY <1>1, <1>2, <1>3, SMT
<1>5. CASE v[1] >= 0
    BY <1>2, <1>3, <1>4, <1>5
<1>6. CASE v[1] < 0
    <2> DEFINE c == <<65536, 0, 0>>
               p == v[1]
               q == v[2]
               r == v[3]
    <2>1. Minus(u, c) = Carry(u[1] - 65536, q - 0, r - 0)
        BY <1>3 DEF Minus
    <2>2. q \in Nat /\ r \in Nat /\ q < LIMB /\ r < LIMB /\ p \in Int
        BY <1>2 DEF Limb
    <2>3. u[1] - 65536 = p /\ q - 0 = q /\ r - 0 = r
        BY <1>4, <1>6, <2>2
    <2>4. Carry(p, q, r) = <<p, q, r>>
        <3> HIDE DEF p, q, r
        <3>1. r \div LIMB = 0 /\ r % LIMB = r /\ q + 0 = q /\ q \div LIMB = 0 /\ q % LIMB = q /\ p + 0 = p
            BY <2>2, SMT DEF LIMB
        <3> QED BY <3>1 DEF Carry
    <2>5. Minus(u, c) = v
        BY <1>2, <2>1, <2>3, <2>4
    <2> QED BY <1>4, <1>6, <2>5
<1> QED BY <1>2, <1>5, <1>6

-----------------------------------------------------------------------------
\* In the 64 bits b all before the last 8 * k repeat the sign that these start with.
SignFits(b, k) == \A i \in 1 .. 65 - 8 * k : b[i] = b[1]

\* LongBits of all 64 bits.
LEMMA AllBits == ASSUME NEW v \in Longs PROVE LongBits(v, 64) = LongStream(v)
<1> DEFINE y == LongBits(v, 64)
           b == LongStream(v)
<1>1. 64 \in 0 .. 64
    OBVIOUS
<1>2. y \in Bits /\ Len(y) = 64 /\ \A i \in 1 .. 64 : y[i] = b[64 - 64 + i]
    BY <1>1, LongBitsType
<1>3. b \in Bits /\ Len(b) = 64
    BY LongStreamType
<1> HIDE DEF y, b
<1>4. SameBits(y, b)
    BY <1>2, <1>3 DEF SameBits
<1>5. y = b
    BY <1>2, <1>3, <1>4, SameBitsEqual
<1> QED BY <1>5 DEF y, b

\* asn_imax2INTEGER takes the fewest octets that keep the sign.
LEMMA FewestOctets ==
    ASSUME NEW v \in Longs
    PROVE  \E k \in 1 .. 8 :
              /\ SignFits(LongStream(v), k) /\ \A i \in 1 .. k - 1 : ~ SignFits(LongStream(v), i)
              /\ asn_imax2INTEGER(v) = SubSeq(LongStream(v), 65 - 8 * k, 64)
<1> DEFINE b == LongBits(v, 64)
           T == {j \in Nat : j \in 1 .. 8 /\ SignFits(b, j)}
           fits(j) == \A i \in 1 .. 65 - 8 * j : b[i] = b[1]
           least(j) == fits(j) /\ \A i \in 1 .. j - 1 : ~ fits(i)
           k == CHOOSE j \in 1 .. 8 : least(j)
<1>1. asn_imax2INTEGER(v) = SubSeq(b, 65 - 8 * k, 64)
    BY DEF asn_imax2INTEGER
<1> HIDE DEF b
<1>2. 8 \in T
    BY DEF SignFits
<1>3. PICK j \in T : \A i \in T : j =< i
    BY <1>2, LeastNumber
<1>4. j \in 1 .. 8 /\ least(j)
    <2>1. ASSUME NEW i \in 1 .. j - 1 PROVE ~ fits(i)
        <3>1. i \in 1 .. 8 /\ i \in Nat /\ ~ (j =< i)
            OBVIOUS
        <3> QED BY <1>3, <3>1 DEF SignFits
    <2> QED BY <2>1 DEF SignFits
<1>5. k \in 1 .. 8 /\ least(k)
    <2> HIDE DEF least
    <2> QED BY <1>4
<1> HIDE DEF k
<1>6. b = LongStream(v)
    BY AllBits DEF b
<1>7. SignFits(b, k) /\ \A i \in 1 .. k - 1 : ~ SignFits(b, i)
    BY <1>5 DEF SignFits
<1> QED BY <1>1, <1>5, <1>6, <1>7

\* What asn_INTEGER2imax makes of at most 8 octets: 64 bits, with the sign repeated.
Extended(x) == [i \in 1 .. 64 |-> IF i <= 64 - Len(x) THEN x[1] ELSE x[Len(x) - 64 + i]]

\* The bits that k octets take of 64, and those in front of them.
OctetsOf64(k, m, n) == n = 8 * k /\ m = 64 - n

\* Reading octets that repeat the sign of 64 bits gives these bits.
LEMMA SignExtended ==
    ASSUME NEW b \in Bits, Len(b) = 64, NEW k \in 1 .. 8, SignFits(b, k),
           NEW m, NEW n, OctetsOf64(k, m, n), NEW x, IsPart(b, m, n, x)
    PROVE  x \in Bits /\ Len(x) = n /\ Extended(x) = b
<1> DEFINE e == [i \in 1 .. 64 |-> IF i <= 64 - n THEN x[1] ELSE x[n - 64 + i]]
<1>1. m \in Nat /\ n \in Nat /\ m + 1 = 65 - 8 * k /\ m + n = 64 /\ n >= 1 /\ m = 64 - n
    BY DEF OctetsOf64
<1>3. x \in Bits /\ Len(x) = n /\ \A i \in 1 .. n : x[i] = b[m + i]
    BY PartBits
<1>4. \A i \in 1 .. m + 1 : b[i] = b[1]
    BY <1>1 DEF SignFits
<1>5. x[1] = b[1]
    BY <1>1, <1>3, <1>4
<1>6. ASSUME NEW i \in 1 .. 64 PROVE (IF i <= 64 - n THEN x[1] ELSE x[n - 64 + i]) = b[i]
    <2>1. CASE i <= 64 - n
        BY <1>1, <1>4, <1>5, <2>1
    <2>2. CASE ~ (i <= 64 - n)
        <3>1. n - 64 + i \in 1 .. n /\ m + (n - 64 + i) = i
            BY <1>1, <2>2
        <3> QED BY <1>3, <2>2, <3>1
    <2> QED BY <2>1, <2>2
<1>7. e = [i \in 1 .. 64 |-> b[i]]
    BY <1>6
<1>8. [i \in 1 .. 64 |-> b[i]] = b
    BY BitsParts DEF Bits
<1>9. Extended(x) = e
    BY <1>3 DEF Extended
<1> QED BY <1>3, <1>7, <1>8, <1>9

\* The contents octets repeat the sign of the 64 bits that they stand for.
LEMMA OctetsOfLong ==
    ASSUME NEW v \in Longs
    PROVE  /\ asn_imax2INTEGER(v) \in Bits /\ \E k \in 1 .. 8 : Len(asn_imax2INTEGER(v)) = 8 * k
           /\ Extended(asn_imax2INTEGER(v)) = LongStream(v)
<1> DEFINE b == LongStream(v)
           x == asn_imax2INTEGER(v)
<1>1. b \in Bits /\ Len(b) = 64
    BY LongStreamType
<1>2. PICK k \in 1 .. 8 : SignFits(b, k) /\ x = SubSeq(b, 65 - 8 * k, 64)
    BY FewestOctets
<1> HIDE DEF b, x
<1> DEFINE w == 8 * k
           m == 64 - w
<1>3. m \in Nat /\ w \in Nat /\ m + 1 = 65 - 8 * k /\ m + w = 64
    OBVIOUS
<1>4. IsPart(b, m, w, x)
    BY <1>1, <1>2, <1>3 DEF IsPart
<1>5. w = 8 * k /\ OctetsOf64(k, m, w)
    BY DEF OctetsOf64
<1> HIDE DEF w, m
<1>6. x \in Bits /\ Len(x) = w /\ Extended(x) = b
    BY <1>1, <1>2, <1>4, <1>5, SignExtended
<1> QED BY <1>5, <1>6 DEF x, b

\* The unsigned number that these 64 bits denote.
LEMMA LongOfStream ==
    ASSUME NEW v \in Longs
    PROVE  LongOf(LongStream(v)) = Wrapped(v)
<1> DEFINE u == Wrapped(v)
<1>1. u \in Unsigned64 /\ LongStream(u) = LongStream(v)
    BY WrappedStream
<1> HIDE DEF u
<1>2. 64 \in 0 .. 64 /\ u \in Longs
    BY <1>1 DEF Unsigned64
<1>3. ShortLong(u, 64)
    BY DEF ShortLong
<1>4. LongBits(u, 64) = LongStream(v)
    BY <1>1, <1>2, AllBits
<1>5. LongOf(LongStream(v)) = u
    BY <1>1, <1>2, <1>3, <1>4, LongOfShort
<1> QED BY <1>5 DEF u

(***************************************************************************)
(* asn_imax2INTEGER writes any signed 64-bit number in 1 to 8 octets, and  *)
(* asn_INTEGER2imax reads the same number from them: the length and the    *)
(* sign bit of an unconstrained INTEGER lose nothing.                      *)
(***************************************************************************)
THEOREM SignedIntegerRoundTrip ==
    ASSUME NEW v \in Signed64
    PROVE  LET octets == asn_imax2INTEGER(v)
           IN  /\ octets \in Bits /\ \E k \in 1 .. 8 : Len(octets) = 8 * k
               /\ asn_INTEGER2imax(octets) = <<v>>
<1> DEFINE b == LongStream(v)
           x == asn_imax2INTEGER(v)
           n == Len(x)
           e == Extended(x)
           u == Wrapped(v)
<1>1. v \in Longs
    BY DEF Signed64
<1>4. x \in Bits /\ (\E k \in 1 .. 8 : n = 8 * k) /\ e = b
    BY <1>1, OctetsOfLong
<1>6. LongOf(b) = u
    BY <1>1, LongOfStream
<1> HIDE DEF b, x, u
<1>7. (IF u[1] >= 32768 THEN Minus(u, <<65536, 0, 0>>) ELSE u) = v
    BY Unwrap DEF u
<1>8. asn_INTEGER2imax(x) =
          IF n = 0 THEN <<Long(0)>>
          ELSE IF \E i \in 1 .. n - 63 : x[i] # x[1] THEN <<>>
          ELSE <<IF LongOf(e)[1] >= 32768 THEN Minus(LongOf(e), <<65536, 0, 0>>) ELSE LongOf(e)>>
    BY DEF asn_INTEGER2imax, Extended
<1>9. n # 0 /\ ~ \E i \in 1 .. n - 63 : x[i] # x[1]
    <2>1. n \in Nat /\ n =< 64 /\ n # 0
        BY <1>4
    <2> HIDE DEF n
    <2>2. ASSUME NEW i \in 1 .. n - 63 PROVE i = 1
        BY <2>1
    <2> QED BY <2>1, <2>2
<1> HIDE DEF n, e
<1>10. asn_INTEGER2imax(x) = <<IF u[1] >= 32768 THEN Minus(u, <<65536, 0, 0>>) ELSE u>>
    BY <1>4, <1>6, <1>8, <1>9
<1> QED BY <1>4, <1>7, <1>10 DEF x, n
===============================================================================
