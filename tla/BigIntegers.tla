---------------------------- MODULE BigIntegers ----------------------------
(***************************************************************************)
(* The integers of MrBigInt (MrBigInt/MrBigInt.cpp): a sign and units, the *)
(* least significant first.  Units have UnitBits bits and a byte ByteBits, *)
(* so that every carry and every border between units is met early.        *)
(* Division is left out; PowM and Pow multiply and reduce exactly.         *)
(* Increment_Once is a plausible mistake.                                  *)
(***************************************************************************)
EXTENDS Integers, Sequences, SequencesExt, FiniteSetsExt

CONSTANTS UnitBits,         \* UNIT_BITS
          ByteBits,         \* 8 in the code
          KaratsubaCount,   \* KARATSUBA_UNIT_COUNT
          Window            \* K of PowM_SlidinWindow

Base == 2 ^ UnitBits
UnitMax == Base - 1
Half == 2 ^ (UnitBits \div 2)

Unit(u, i) == IF i \in DOMAIN u THEN u[i] ELSE 0
Value(u) ==
    LET v[i \in 0 .. Len(u)] == IF i = 0 THEN 0 ELSE v[i - 1] + u[i] * Base ^ (i - 1)
    IN v[Len(u)]

Normalize(u) ==
    SubSeq(u, 1, Max({1} \cup {i \in DOMAIN u : u[i] # 0}))

ChangeInternalUnitsNumber(u, n) ==
    [i \in 1 .. Max({Len(u), n}) |-> Unit(u, i)]

(* The units of v, as the code keeps them: normalized. *)
UnitsOf(v) ==
    LET n == CHOOSE k \in 1 .. 64 : v < Base ^ k /\ (k = 1 \/ v >= Base ^ (k - 1))
    IN [i \in 1 .. n |-> (v \div (Base ^ (i - 1))) % Base]

-----------------------------------------------------------------------------
Increment_Once(u) ==
    IF u = <<>> THEN <<1>> ELSE [u EXCEPT ![1] = (@ + 1) % Base]

(* A carry runs over the units that are full. *)
Increment(u) ==
    LET k == Min({i \in 1 .. (Len(u) + 1) : Unit(u, i) # UnitMax})
    IN [i \in 1 .. Max({Len(u), k}) |->
           IF i < k THEN 0 ELSE IF i = k THEN Unit(u, i) + 1 ELSE u[i]]

(* A carry is seen by a sum that is below one of the two. *)
AddUnsigned(a, b) ==
    LET n == Len(b)
        sum[i \in 0 .. n] ==
            IF i = 0 THEN [unit |-> 0, carry |-> 0]
            ELSE LET s == (Unit(a, i) + b[i] + sum[i - 1].carry) % Base
                 IN [unit |-> s,
                     carry |-> IF s < Unit(a, i) \/ s < b[i] THEN 1 ELSE 0]
        low == [i \in 1 .. n |-> sum[i].unit]
        high == SubSeq(a, n + 1, Len(a))
    IN IF b = <<0>> THEN a
       ELSE low \o (IF sum[n].carry = 1 THEN Increment(high) ELSE high)

(* A borrow is seen by a unit that is full once the last has been taken    *)
(* off, or too small.  Only the last unit says whether all is negative.    *)
SubtractUnsigned(a, b) ==
    LET n == Max({Len(a), Len(b)})
        less[i \in 0 .. n] ==
            IF i = 0 THEN [unit |-> 0, carry |-> 0]
            ELSE LET left == (Unit(a, i) - less[i - 1].carry) % Base
                 IN [unit |-> left,
                     carry |-> IF left = UnitMax \/ left < Unit(b, i) THEN 1 ELSE 0]
        negative == less[n].unit < Unit(b, n)
        last == IF negative THEN Unit(b, n) - less[n].unit
                            ELSE less[n].unit - Unit(b, n)
    IN [neg |-> negative,
        units |-> Normalize([i \in 1 .. n |->
                     IF i = n THEN last ELSE (less[i].unit - Unit(b, i)) % Base])]

(* operator+= *)
Plus(l, r) ==
    CASE l.neg = r.neg -> [l EXCEPT !.units = AddUnsigned(l.units, r.units)]
      [] l.neg /\ ~r.neg -> SubtractUnsigned(r.units, l.units)
      [] ~l.neg /\ r.neg -> SubtractUnsigned(l.units, r.units)

(* operator-=: four tests in a row, of what the ones before have left. *)
Minus(l, r) ==
    LET first == IF ~l.neg /\ ~r.neg THEN SubtractUnsigned(l.units, r.units) ELSE l
        second == IF first.neg /\ r.neg
                  THEN SubtractUnsigned(r.units, first.units) ELSE first
    IN IF second.neg # r.neg
       THEN [second EXCEPT !.units = AddUnsigned(second.units, r.units)]
       ELSE second

IsZero(u) == \A i \in DOMAIN u : u[i] = 0
Equal(a, b) == \A i \in 1 .. Max({Len(a), Len(b)}) : Unit(a, i) = Unit(b, i)

(* operator<: by length when both are normalized, else by the highest unit *)
(* that differs.                                                           *)
Less(l, r) ==
    LET a == l.units
        b == r.units
        differ == {i \in 1 .. Max({Len(a), Len(b)}) : Unit(a, i) # Unit(b, i)}
    IN CASE l.neg # r.neg -> l.neg
         [] l.neg = r.neg /\ Len(a) # Len(b) /\ Last(a) # 0 /\ Last(b) # 0 ->
                IF Len(a) > Len(b) THEN l.neg ELSE ~l.neg
         [] OTHER -> /\ differ # {}
                     /\ LET i == Max(differ)
                        IN IF Unit(a, i) < Unit(b, i) THEN ~l.neg ELSE l.neg
LessOrEqual(l, r) == Less(l, r) \/ Equal(l.units, r.units)

-----------------------------------------------------------------------------
(* The product of two units, <<high, low>>, by halves of them. *)
GetHighLowUnitMultiplication(l, r) ==
    LET lh == l \div Half  ll == l % Half
        rh == r \div Half  rl == r % Half
        crossed(part, s) ==     \* one of the two middle products onto s
            LET shifted == ((part * Half) % Base)
                low == (s[2] + shifted) % Base
                over == IF low < s[2] \/ low < shifted THEN 1 ELSE 0
            IN <<s[1] + over + part \div Half, low>>
        s == crossed(rh * ll, crossed(rl * lh, <<0, ll * rl>>))
    IN <<(s[1] + rh * lh) % Base, s[2]>>

(* LongMultiplication_AOP: row by row, each with a carry of its own. *)
LongMultiplication(a, b) ==
    LET n == Len(a)
        more(s, t) == IF s < t THEN 1 ELSE 0
        out[j \in 0 .. Len(b)] ==
            LET cell[i \in 0 .. n] ==
                    IF i = 0 THEN [unit |-> 0, k |-> 0]
                    ELSE LET p == GetHighLowUnitMultiplication(a[i], b[j])
                             one == (p[2] + out[j - 1][i + j - 1]) % Base
                             two == (one + cell[i - 1].k) % Base
                         IN [unit |-> two,
                             k |-> (p[1] + more(one, p[2]) + more(two, one)) % Base]
            IN [x \in 1 .. (n + Len(b)) |->
                   CASE j = 0 -> 0
                     [] j > 0 /\ x \in j .. (j + n - 1) -> cell[x - j + 1].unit
                     [] j > 0 /\ x = j + n -> cell[n].k
                     [] OTHER -> out[j - 1][x]]
    IN Normalize(out[Len(b)])

(* operator<<=: whole units of zeros, and what the last one overflows. *)
ShiftLeft(u, bits) ==
    LET zeros == bits \div UnitBits
        s == bits % UnitBits
        over == Last(u) \div (2 ^ (UnitBits - s))
        shifted == [i \in 1 .. (Len(u) + zeros) |->
                       ((Unit(u, i - zeros) * (2 ^ s)) % Base)
                       + Unit(u, i - zeros - 1) \div (2 ^ (UnitBits - s))]
    IN IF bits = 0 \/ u = <<0>> THEN u
       ELSE IF s # 0 /\ over # 0 THEN Append(shifted, over) ELSE shifted

RECURSIVE Karatsuba(_, _)
Karatsuba(a, b) ==
    LET m == (Max({Len(a), Len(b)}) + 1) \div 2
        low(u) == Normalize(SubSeq(u, 1, Min({m, Len(u)})))
        high(u) == IF Len(u) <= m THEN <<0>> ELSE Normalize(SubSeq(u, m + 1, Len(u)))
        z2 == Karatsuba(high(a), high(b))
        z0 == Karatsuba(low(a), low(b))
        both == Karatsuba(AddUnsigned(high(a), low(a)), AddUnsigned(high(b), low(b)))
        pos(u) == [neg |-> FALSE, units |-> u]
        z1 == Minus(Minus(pos(both), pos(z2)), pos(z0)).units
    IN IF a = <<0>> \/ b = <<0>> THEN <<0>>
       ELSE IF Len(a) < KaratsubaCount /\ Len(b) < KaratsubaCount
            THEN LongMultiplication(a, b)
       ELSE AddUnsigned(AddUnsigned(AddUnsigned(<<0>>, ShiftLeft(z2, 2 * m * UnitBits)),
                                    ShiftLeft(z1, m * UnitBits)), z0)

-----------------------------------------------------------------------------
GetBitByIndex(u, i) ==
    IF i < 0 THEN 0
    ELSE (Unit(u, (i \div UnitBits) + 1) \div (2 ^ (i % UnitBits))) % 2

(* A bit is only ever set: with 0 nothing is cleared. *)
SetBitByIndex(u, i, bit) ==
    LET long == ChangeInternalUnitsNumber(u, (i \div UnitBits) + 1)
    IN IF bit = 0 \/ GetBitByIndex(long, i) = 1 THEN long
       ELSE [long EXCEPT ![(i \div UnitBits) + 1] = @ + 2 ^ (i % UnitBits)]

(* The comparison in it is of constants: no bit is ever taken off. *)
GetBitLength(u) == Len(u) * UnitBits

BytesInUnit == UnitBits \div ByteBits
Byte(u, k) ==                       \* the k-th byte, the least significant first
    (Unit(u, (k - 1) \div BytesInUnit + 1)
        \div (2 ^ (ByteBits * ((k - 1) % BytesInUnit)))) % (2 ^ ByteBits)
SetFromLittleEndianArray(bytes) ==
    LET n == Max({1, (Len(bytes) + BytesInUnit - 1) \div BytesInUnit})
        at(k) == IF k \in DOMAIN bytes THEN bytes[k] ELSE 0
        unit(i) == FoldRight(LAMBDA j, v : at((i - 1) * BytesInUnit + j)
                                           + (2 ^ ByteBits) * v,
                             [j \in 1 .. BytesInUnit |-> j], 0)
    IN Normalize([i \in 1 .. n |-> unit(i)])
SetFromBigEndianArray(bytes) == SetFromLittleEndianArray(Reverse(bytes))
GetLittleEndianString(u) == [k \in 1 .. (Len(u) * BytesInUnit) |-> Byte(u, k)]
GetBigEndianArray(u) == Reverse(GetLittleEndianString(u))

(* The exponent's bits from above; a run of at most Window of them, which  *)
(* ends with a 1, is one product with the power in the list.               *)
RECURSIVE SlidingWindow(_, _, _, _, _)
SlidingWindow(base, exponent, mod, i, result) ==
    LET ends == {l \in (i - Window + 1) .. i : l = i \/ GetBitByIndex(exponent, l) = 1}
        l == Min(ends)
        index == FoldLeft(LAMBDA v, k : v + GetBitByIndex(exponent, l + k - 1) * 2 ^ (k - 1),
                          0, [k \in 1 .. (i - l + 1) |-> k])
        squared(n) == FoldLeft(LAMBDA v, k : (v * v) % mod, result, [k \in 1 .. n |-> k])
        power == FoldLeft(LAMBDA v, k : (v * base) % mod, 1, [k \in 1 .. index |-> k])
    IN IF i < 0 THEN result
       ELSE IF GetBitByIndex(exponent, i) = 0
            THEN SlidingWindow(base, exponent, mod, i - 1, squared(1))
       ELSE SlidingWindow(base, exponent, mod, l - 1,
                          (squared(i - l + 1) * power) % mod)
PowM(base, exponent, mod) ==
    SlidingWindow(base, exponent, mod, GetBitLength(exponent), 1)

(* The root of the exponent says how often which power is multiplied. *)
Pow(base, exponent) ==
    LET root == CHOOSE r \in 0 .. exponent : r * r >= exponent /\ (r - 1) * (r - 1) < exponent
    IN base ^ (exponent % root) * (base ^ root) ^ (exponent \div root)

-----------------------------------------------------------------------------
(* What a result should be.  Two units that are full lose a carry that     *)
(* comes to them, and a full unit borrows although nothing is missing.     *)
NoLostCarry(a, b) ==
    \A i \in DOMAIN b : Unit(a, i) = UnitMax /\ b[i] = UnitMax =>
        Value(SubSeq(a, 1, i - 1)) + Value(SubSeq(b, 1, i - 1)) < Base ^ (i - 1)
NoFalseBorrow(a, b) ==
    \A i \in DOMAIN a \ {Max({Len(a), Len(b)})} : a[i] = UnitMax =>
        Value(SubSeq(a, 1, i - 1)) < Value(SubSeq(b, 1, Min({i - 1, Len(b)})))

(* A sum is what arithmetic says but for lost carries, with which it is too *)
(* small.  A difference is but for false borrows, and when it changes sign *)
(* only if the units below the last are the same; operator-= then adds     *)
(* what it has subtracted once more, and is never right.                   *)
SumIsRight(a, b, x, y) ==
    /\ NoLostCarry(a, b) => Value(AddUnsigned(a, b)) = x + y
    /\ ~NoLostCarry(a, b) => Value(AddUnsigned(a, b)) < x + y
DifferenceIsRight(a, b, x, y) ==
    LET below == Base ^ (Max({Len(a), Len(b)}) - 1)
        right == NoFalseBorrow(a, b) /\ (x >= y \/ x % below = y % below)
        is == [neg |-> x < y, units |-> UnitsOf(IF x < y THEN y - x ELSE x - y)]
        l == [neg |-> FALSE, units |-> a]
    IN  /\ right = (Plus(l, [neg |-> TRUE, units |-> b]) = is)
        /\ right = (Plus([neg |-> TRUE, units |-> b], l) = is)
        /\ (right /\ x >= y) = (Minus(l, [neg |-> FALSE, units |-> b]) = is)

(* Karatsuba's halves are put together rightly when none of the sums and   *)
(* differences in it goes wrong; for halves that are multiplied by rows.   *)
KaratsubaIsRight(a, b, x, y) ==
    LET m == (Max({Len(a), Len(b)}) + 1) \div 2
        lowA == x % (Base ^ m)  highA == x \div (Base ^ m)
        lowB == y % (Base ^ m)  highB == y \div (Base ^ m)
        both == (lowA + highA) * (lowB + highB)
        middle == (highA * lowB + lowA * highB) * Base ^ m
        clean(s, t) == NoFalseBorrow(UnitsOf(s), UnitsOf(t))
        whole(s, t) == NoLostCarry(UnitsOf(s), UnitsOf(t))
    IN  /\ KaratsubaCount > m + 1 /\ x > 0 /\ y > 0
        /\ clean(both, highA * highB) /\ clean(both - highA * highB, lowA * lowB)
        /\ whole(lowA, highA) /\ whole(lowB, highB)
        /\ whole(highA * highB * Base ^ (2 * m), middle)
        /\ whole(highA * highB * Base ^ (2 * m) + middle, lowA * lowB)
        => Value(Karatsuba(a, b)) = x * y

(* Order, shift and the long product are what arithmetic says.             *)
NumbersAre(x, y) ==
    LET a == UnitsOf(x)  b == UnitsOf(y)
        pos(u) == [neg |-> FALSE, units |-> u]
        neg(u) == [neg |-> TRUE, units |-> u]
    IN /\ SumIsRight(a, b, x, y) /\ DifferenceIsRight(a, b, x, y)
       /\ Less(pos(a), pos(b)) = (x < y) /\ Less(neg(a), neg(b)) = (y < x)
       /\ LessOrEqual(pos(a), pos(b)) = (x <= y)
       /\ LongMultiplication(a, b) = UnitsOf(x * y) /\ KaratsubaIsRight(a, b, x, y)
       /\ \A n \in 0 .. (2 * UnitBits) : Value(ShiftLeft(a, n)) = x * 2 ^ n

(* A number survives its bytes, in either order, and its bits.             *)
BytesAre(bytes, x) ==
    LET a == UnitsOf(x)
        n == Len(bytes)
        direct == FoldRight(LAMBDA byte, v : byte + (2 ^ ByteBits) * v, bytes, 0)
    IN /\ Value(SetFromLittleEndianArray(bytes)) = direct
       /\ SetFromBigEndianArray(GetBigEndianArray(a)) = a
       /\ Value(FoldLeft(LAMBDA u, i : SetBitByIndex(u, i - 1, GetBitByIndex(a, i - 1)),
                         <<0>>, [i \in 1 .. GetBitLength(a) |-> i])) = x
       /\ Value(SetFromLittleEndianArray(GetLittleEndianString(a))) = x

(* A power is as often the base as the exponent says.                      *)
PowersAre(base, exponent, mod) ==
    /\ PowM(base, UnitsOf(exponent), mod) = (base ^ exponent) % mod
    /\ exponent > 0 => Pow(base, exponent) = base ^ exponent
=============================================================================
