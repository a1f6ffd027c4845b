------------------------ MODULE HsFifoAsyncProofs ------------------------
(***************************************************************************)
(* The FIFO between two clocks, for every address width and every set of   *)
(* words.                                                                  *)
(*                                                                         *)
(* The first part is about Gray codes of any width: different pointers     *)
(* have different codes, the codes of neighbours differ in one bit (so a   *)
(* torn sample is one of the two), and two inverted bits are half a turn.  *)
(* The second part counts pointers without the wrap.  Each register that   *)
(* holds a code then stands for a number of words written or read, and     *)
(* the invariant is the order of those numbers.  The third part shows that *)
(* words are stored and taken the way a queue does it.                     *)
(***************************************************************************)
EXTENDS HsFifoAsync, SequenceTheorems, WellFoundedInduction, TLAPS

---------------------------------------------------------------------------
(* Induction over an interval *)

LEMMA LeastExists ==
    ASSUME NEW S, S \subseteq Nat, S # {}
    PROVE  \E w \in S : \A v \in S : w <= v
<1> DEFINE R == {ss \in Nat \X Nat : ss[1] < ss[2]}
<1>1. IsWellFoundedOn(R, Nat)
  BY NatLessThanWellFounded, SMT DEF OpToRel
<1>2. PICK x \in S : \A y \in S : ~(<<y, x>> \in R)
  <2> HIDE DEF R
  <2> QED  BY <1>1, WFMin
<1>3. \A y \in S : x <= y
  <2> SUFFICES ASSUME NEW y \in S  PROVE x <= y
    OBVIOUS
  <2>1. x \in Nat /\ y \in Nat
    OBVIOUS
  <2>2. y < x => <<y, x>> \in R
    BY <2>1, SMT
  <2> QED  BY <1>2, <2>1, <2>2, SMT
<1> QED  BY <1>3

LEMMA Upward ==
    ASSUME NEW n \in Nat, NEW S, 0 \in S, \A i \in 0 .. n - 1 : i \in S => i + 1 \in S
    PROVE  \A i \in 0 .. n : i \in S
<1> DEFINE Bad == {i \in 0 .. n : i \notin S}
<1> SUFFICES ASSUME Bad # {} PROVE FALSE
  OBVIOUS
<1>1. PICK w \in Bad : \A v \in Bad : w <= v
  <2>1. Bad \subseteq Nat
    OBVIOUS
  <2> HIDE DEF Bad
  <2> QED BY <2>1, LeastExists
<1>2. w # 0 /\ w - 1 \in 0 .. n - 1
  <2>1. w \in 0 .. n /\ w \notin S
    OBVIOUS
  <2>2. w # 0
    BY <2>1
  <2> QED BY <2>1, <2>2
<1>3. w - 1 \in S
  BY <1>1, <1>2
<1> QED BY <1>2, <1>3

LEMMA Downward ==
    ASSUME NEW n \in Nat, NEW S, n \in S, \A i \in 0 .. n - 1 : i + 1 \in S => i \in S
    PROVE  \A i \in 0 .. n : i \in S
<1> DEFINE T == {i \in 0 .. n : n - i \in S}
<1>1. \A i \in 0 .. n : i \in T
  <2>1. 0 \in T
    OBVIOUS
  <2>2. ASSUME NEW i \in 0 .. n - 1, i \in T PROVE i + 1 \in T
    <3>1. n - (i + 1) \in 0 .. n - 1 /\ (n - (i + 1)) + 1 = n - i
      OBVIOUS
    <3>2. n - (i + 1) \in S
      BY <2>2, <3>1
    <3> QED BY <3>2
  <2> HIDE DEF T
  <2> QED BY <2>1, <2>2, Upward
<1> SUFFICES ASSUME NEW i \in 0 .. n PROVE i \in S
  OBVIOUS
<1>2. n - i \in 0 .. n /\ n - (n - i) = i
  OBVIOUS
<1> QED BY <1>1, <1>2

---------------------------------------------------------------------------
(* Division *)

LEMMA DivMod ==
    ASSUME NEW a \in Int, NEW m \in Nat \ {0}
    PROVE  /\ a \div m \in Int
           /\ a % m \in 0 .. m - 1
           /\ a = m * (a \div m) + (a % m)
  OBVIOUS

LEMMA DivModUnique ==
    ASSUME NEW m \in Nat \ {0}, NEW q \in Int, NEW r \in 0 .. m - 1
    PROVE  (m * q + r) \div m = q /\ (m * q + r) % m = r
  OBVIOUS

\* a = m * q + r with the remainder r.
Splits(a, m, q, r) ==
    q \in Int /\ r \in 0 .. m - 1 /\ a = m * q + r

LEMMA Division ==
    ASSUME NEW a \in Int, NEW m \in Nat \ {0}
    PROVE  \E q, r : Splits(a, m, q, r)
<1>1. Splits(a, m, a \div m, a % m)
  BY DivMod DEF Splits
<1> QED BY <1>1, Zenon

LEMMA Remainder ==
    ASSUME NEW a \in Int, NEW m \in Nat \ {0}, NEW q, NEW r, Splits(a, m, q, r)
    PROVE  a % m = r
  BY DivModUnique DEF Splits

LEMMA DivTwice ==
    ASSUME NEW a \in Nat, NEW p \in Nat \ {0}
    PROVE  /\ a \div p \in Nat
           /\ (a \div p) \div 2 = a \div (2 * p)
           /\ (a \div 2) \div p = a \div (2 * p)
  OBVIOUS

---------------------------------------------------------------------------
(* Powers of two *)

PowerTable(g, n) ==
    g = [i \in 0 .. n |-> IF i = 0 THEN 1 ELSE 2 * g[i - 1]]

LEMMA TableExists ==
    \A n \in Nat : \E g : PowerTable(g, n)
<1> DEFINE Bad == {n \in Nat : ~ \E g : PowerTable(g, n)}
<1> SUFFICES ASSUME Bad # {} PROVE FALSE
  OBVIOUS
<1>1. PICK n \in Bad : \A v \in Bad : n <= v
  BY LeastExists
<1>2. CASE n = 0
  <2> DEFINE g == [i \in 0 .. 0 |-> 1]
  <2>1. PowerTable(g, 0)
    BY DEF PowerTable
  <2> QED BY <1>2, <2>1
<1>3. CASE n > 0
  <2>1. n - 1 \in Nat /\ n - 1 \notin Bad
    BY <1>1, <1>3
  <2>2. PICK g : PowerTable(g, n - 1)
    BY <2>1
  <2> DEFINE h == [i \in 0 .. n |-> IF i = n THEN 2 * g[n - 1] ELSE g[i]]
  <2>3. \A i \in 0 .. n - 1 : h[i] = g[i]
    OBVIOUS
  <2>4. \A i \in 0 .. n - 1 : g[i] = IF i = 0 THEN 1 ELSE 2 * g[i - 1]
    BY <2>2 DEF PowerTable
  <2>5. ASSUME NEW i \in 0 .. n PROVE h[i] = IF i = 0 THEN 1 ELSE 2 * h[i - 1]
    BY <1>3, <2>3, <2>4
  <2>6. PowerTable(h, n)
    BY <2>5 DEF PowerTable
  <2> QED BY <2>6
<1> QED BY <1>1, <1>2, <1>3

LEMMA PowerValues ==
    \A i \in 0 .. AW + 1 : pow2[i] = IF i = 0 THEN 1 ELSE 2 * pow2[i - 1]
<1>1. PICK g : PowerTable(g, AW + 1)
  BY TableExists, AddressAssumption
<1>2. PowerTable(pow2, AW + 1)
  BY <1>1 DEF PowerTable, pow2
<1> QED BY <1>2 DEF PowerTable

LEMMA PowerType ==
    \A i \in 0 .. AW + 1 : pow2[i] \in Nat \ {0}
<1> DEFINE S == {i \in 0 .. AW + 1 : pow2[i] \in Nat \ {0}}
<1>1. 0 \in S
  BY PowerValues, AddressAssumption
<1>2. ASSUME NEW i \in 0 .. (AW + 1) - 1, i \in S PROVE i + 1 \in S
  <2>1. i + 1 \in 0 .. AW + 1 /\ i + 1 # 0 /\ (i + 1) - 1 = i
    BY AddressAssumption
  <2>2. pow2[i + 1] = 2 * pow2[i]
    BY <2>1, PowerValues
  <2> QED BY <1>2, <2>1, <2>2
<1>3. \A i \in 0 .. AW + 1 : i \in S
  <2> HIDE DEF S
  <2> QED BY <1>1, <1>2, Upward, AddressAssumption
<1> QED BY <1>3

LEMMA Doubling ==
    /\ pow2[0] = 1
    /\ \A i \in 0 .. AW : pow2[i + 1] = 2 * pow2[i]
<1>1. pow2[0] = 1
  BY PowerValues, AddressAssumption
<1>2. ASSUME NEW i \in 0 .. AW PROVE pow2[i + 1] = 2 * pow2[i]
  <2>1. i + 1 \in 0 .. AW + 1 /\ i + 1 # 0 /\ (i + 1) - 1 = i
    BY AddressAssumption
  <2> QED BY <2>1, PowerValues
<1> QED BY <1>1, <1>2

\* The ring is half of the range of its pointers.
LEMMA Sizes ==
    DEPTH \in Nat \ {0} /\ PTR_MOD \in Nat \ {0} /\ PTR_MOD = 2 * DEPTH
<1>1. AW \in 0 .. AW /\ AW \in 0 .. AW + 1 /\ AW + 1 \in 0 .. AW + 1
  BY AddressAssumption
<1> QED BY <1>1, PowerType, Doubling DEF DEPTH, PTR_MOD

---------------------------------------------------------------------------
(* Gray codes.  A number loses its lowest bits one after the other. *)

Shifted(n, i) == n \div pow2[i]
Odd(n) == n % 2 = 1

LEMMA ShiftedSteps ==
    ASSUME NEW n \in Nat
    PROVE  /\ Shifted(n, 0) = n
           /\ \A i \in 0 .. AW + 1 : Shifted(n, i) \in Nat
           /\ \A i \in 0 .. AW : Shifted(n, i + 1) = Shifted(n, i) \div 2
           /\ \A i \in 0 .. AW : Shifted(n \div 2, i) = Shifted(n, i) \div 2
<1>1. Shifted(n, 0) = n
  BY Doubling DEF Shifted
<1>2. ASSUME NEW i \in 0 .. AW + 1 PROVE Shifted(n, i) \in Nat
  BY PowerType, DivTwice DEF Shifted
<1>3. ASSUME NEW i \in 0 .. AW
      PROVE  /\ Shifted(n, i + 1) = Shifted(n, i) \div 2
             /\ Shifted(n \div 2, i) = Shifted(n, i) \div 2
  <2>1. pow2[i] \in Nat \ {0} /\ pow2[i + 1] = 2 * pow2[i]
    BY PowerType, Doubling, AddressAssumption
  <2> QED BY <2>1, DivTwice DEF Shifted
<1> QED BY <1>1, <1>2, <1>3

LEMMA CodeBits ==
    ASSUME NEW n \in Nat
    PROVE  /\ BinToGray(n) \in Codes
           /\ \A i \in Bits :
                 BinToGray(n)[i] <=> (Odd(Shifted(n, i) \div 2) <=> ~Odd(Shifted(n, i)))
<1>1. \A i \in Bits : Bit(n, i) <=> Odd(Shifted(n, i))
  BY DEF Bit, Odd, Shifted
<1>2. \A i \in Bits : Bit(n \div 2, i) <=> Odd(Shifted(n, i) \div 2)
  <2> TAKE i \in Bits
  <2>1. Shifted(n \div 2, i) = Shifted(n, i) \div 2
    BY ShiftedSteps DEF Bits
  <2> QED BY <2>1 DEF Bit, Odd, Shifted
<1>3. BinToGray(n) \in Codes
  BY DEF BinToGray, Codes
<1>4. \A i \in Bits : BinToGray(n)[i] = (Bit(n \div 2, i) # Bit(n, i))
  BY DEF BinToGray
<1>5. ASSUME NEW i \in Bits
      PROVE  BinToGray(n)[i] <=> (Odd(Shifted(n, i) \div 2) <=> ~Odd(Shifted(n, i)))
  <2>1. Bit(n \div 2, i) \in BOOLEAN /\ Bit(n, i) \in BOOLEAN
    BY DEF Bit
  <2> QED BY <1>1, <1>2, <1>4, <2>1
<1> QED BY <1>3, <1>5

LEMMA NothingLeft ==
    ASSUME NEW n \in Pointers
    PROVE  n \in Nat /\ Shifted(n, AW + 1) = 0
<1>1. n \in Nat /\ n < PTR_MOD /\ PTR_MOD \in Nat \ {0}
  BY Sizes DEF Pointers
<1>2. n = PTR_MOD * 0 + n /\ n \in 0 .. PTR_MOD - 1
  BY <1>1
<1>3. n \div PTR_MOD = 0
  BY <1>1, <1>2, DivModUnique
<1> QED BY <1>1, <1>3 DEF Shifted, PTR_MOD

\* Different pointers have different codes.
LEMMA CodesDiffer ==
    ASSUME NEW m \in Pointers, NEW n \in Pointers, BinToGray(m) = BinToGray(n)
    PROVE  m = n
<1> DEFINE S == {i \in 0 .. AW + 1 : Shifted(m, i) = Shifted(n, i)}
<1>1. AW + 1 \in S
  BY NothingLeft, AddressAssumption
<1>2. ASSUME NEW i \in 0 .. (AW + 1) - 1, i + 1 \in S PROVE i \in S
  <2>1. i \in 0 .. AW /\ i \in Bits /\ m \in Nat /\ n \in Nat /\ i \in 0 .. AW + 1
    BY NothingLeft, AddressAssumption DEF Bits
  <2> DEFINE a == Shifted(m, i)
             b == Shifted(n, i)
  <2>2. a \in Nat /\ b \in Nat /\ a \div 2 = b \div 2
    BY <1>2, <2>1, ShiftedSteps
  <2>3. BinToGray(m)[i] <=> (Odd(a \div 2) <=> ~Odd(a))
    BY <2>1, CodeBits
  <2>4. BinToGray(n)[i] <=> (Odd(b \div 2) <=> ~Odd(b))
    BY <2>1, CodeBits
  <2> HIDE DEF a, b
  <2>5. Odd(a) <=> Odd(b)
    BY <2>2, <2>3, <2>4, Zenon
  <2>6. a = b
    BY <2>2, <2>5 DEF Odd
  <2> QED BY <2>1, <2>6 DEF a, b
<1>3. \A i \in 0 .. AW + 1 : i \in S
  <2> HIDE DEF S
  <2> QED BY <1>1, <1>2, Downward, AddressAssumption
<1>4. Shifted(m, 0) = Shifted(n, 0)
  BY <1>3, AddressAssumption
<1> QED BY <1>4, NothingLeft, ShiftedSteps

\* Adding one reaches some bits: each number of upper bits is unchanged or one more, and
\* unchanged for ever once it is.
LEMMA Carry ==
    ASSUME NEW n \in Nat, NEW i \in 0 .. AW + 1
    PROVE  Shifted(n + 1, i) \in {Shifted(n, i), Shifted(n, i) + 1}
<1> DEFINE S == {k \in 0 .. AW + 1 : Shifted(n + 1, k) \in {Shifted(n, k), Shifted(n, k) + 1}}
<1>1. 0 \in S
  BY ShiftedSteps, AddressAssumption
<1>2. ASSUME NEW k \in 0 .. (AW + 1) - 1, k \in S PROVE k + 1 \in S
  <2>1. k \in 0 .. AW /\ k + 1 \in 0 .. AW + 1 /\ k \in 0 .. AW + 1
    BY AddressAssumption
  <2>2. Shifted(n, k) \in Nat /\ Shifted(n + 1, k) \in Nat
    BY <2>1, ShiftedSteps
  <2>3. /\ Shifted(n, k + 1) = Shifted(n, k) \div 2
        /\ Shifted(n + 1, k + 1) = Shifted(n + 1, k) \div 2
    BY <2>1, ShiftedSteps
  <2> QED BY <1>2, <2>1, <2>2, <2>3
<1>3. \A k \in 0 .. AW + 1 : k \in S
  <2> HIDE DEF S
  <2> QED BY <1>1, <1>2, Upward, AddressAssumption
<1> QED BY <1>3

LEMMA CarryEnds ==
    ASSUME NEW n \in Nat, NEW k \in 0 .. AW + 1, Shifted(n + 1, k) = Shifted(n, k),
           NEW j \in 0 .. AW + 1, k <= j
    PROVE  Shifted(n + 1, j) = Shifted(n, j)
<1> DEFINE S == {i \in 0 .. AW + 1 : k <= i => Shifted(n + 1, i) = Shifted(n, i)}
<1>1. 0 \in S
  BY AddressAssumption
<1>2. ASSUME NEW i \in 0 .. (AW + 1) - 1, i \in S PROVE i + 1 \in S
  <2>1. i \in 0 .. AW /\ i + 1 \in 0 .. AW + 1 /\ i \in 0 .. AW + 1
    BY AddressAssumption
  <2>2. /\ Shifted(n, i + 1) = Shifted(n, i) \div 2
        /\ Shifted(n + 1, i + 1) = Shifted(n + 1, i) \div 2
    BY <2>1, ShiftedSteps
  <2>3. CASE k <= i
    BY <1>2, <2>1, <2>2, <2>3
  <2>4. CASE k = i + 1
    BY <2>1, <2>4
  <2>5. CASE k > i + 1
    BY <2>1, <2>5
  <2> QED BY <2>1, <2>3, <2>4, <2>5
<1>3. \A i \in 0 .. AW + 1 : i \in S
  <2> HIDE DEF S
  <2> QED BY <1>1, <1>2, Upward, AddressAssumption
<1> QED BY <1>3

\* A bit of the code changes where the carry ends and nowhere else.
LEMMA ChangeEndsCarry ==
    ASSUME NEW n \in Nat, NEW i \in Bits
    PROVE  /\ Shifted(n + 1, i) = Shifted(n, i) =>
                 (BinToGray(n + 1)[i] <=> BinToGray(n)[i])
           /\ ~(BinToGray(n + 1)[i] <=> BinToGray(n)[i]) =>
                 Shifted(n + 1, i + 1) = Shifted(n, i + 1)
<1> DEFINE a == Shifted(n, i)
           b == Shifted(n + 1, i)
<1>1. i \in 0 .. AW /\ i \in 0 .. AW + 1
  BY AddressAssumption DEF Bits
<1>2. a \in Nat /\ b \in {a, a + 1}
  BY <1>1, ShiftedSteps, Carry
<1>3. BinToGray(n)[i] <=> (Odd(a \div 2) <=> ~Odd(a))
  BY CodeBits
<1>4. BinToGray(n + 1)[i] <=> (Odd(b \div 2) <=> ~Odd(b))
  BY CodeBits
<1>5. Shifted(n, i + 1) = a \div 2 /\ Shifted(n + 1, i + 1) = b \div 2
  BY <1>1, ShiftedSteps
<1> HIDE DEF a, b
<1>6. b = a => (BinToGray(n + 1)[i] <=> BinToGray(n)[i])
  BY <1>3, <1>4, Zenon
<1>7. CASE b = a + 1 /\ ~Odd(a)
  <2>1. b \div 2 = a \div 2
    BY <1>2, <1>7 DEF Odd
  <2> QED BY <1>5, <1>6, <2>1 DEF a, b
<1>8. CASE b = a + 1 /\ Odd(a)
  <2>1. b \div 2 = (a \div 2) + 1 /\ ~Odd(b) /\ a \div 2 \in Nat
    BY <1>2, <1>8 DEF Odd
  <2>2. Odd(b \div 2) <=> ~Odd(a \div 2)
    BY <2>1 DEF Odd
  <2>3. BinToGray(n + 1)[i] <=> BinToGray(n)[i]
    BY <1>3, <1>4, <1>8, <2>1, <2>2, Zenon
  <2> QED BY <1>6, <2>3 DEF a, b
<1>9. CASE b = a
  BY <1>6, <1>9 DEF a, b
<1> QED BY <1>2, <1>7, <1>8, <1>9

\* The last pointer and the first: all bits but the uppermost of their codes are clear.
LEMMA CodeOfZero ==
    \A i \in Bits : ~BinToGray(0)[i]
<1> DEFINE S == {i \in 0 .. AW + 1 : Shifted(0, i) = 0}
<1>1. 0 \in S
  BY ShiftedSteps, AddressAssumption
<1>2. ASSUME NEW i \in 0 .. (AW + 1) - 1, i \in S PROVE i + 1 \in S
  BY <1>2, ShiftedSteps, AddressAssumption
<1>3. \A i \in 0 .. AW + 1 : i \in S
  <2> HIDE DEF S
  <2> QED BY <1>1, <1>2, Upward, AddressAssumption
<1> SUFFICES ASSUME NEW i \in Bits PROVE ~BinToGray(0)[i]
  OBVIOUS
<1>4. Shifted(0, i) = 0
  BY <1>3, AddressAssumption DEF Bits
<1>5. ~Odd(0) /\ ~Odd(0 \div 2)
  BY DEF Odd
<1>6. BinToGray(0)[i] <=> (Odd(Shifted(0, i) \div 2) <=> ~Odd(Shifted(0, i)))
  BY CodeBits
<1> QED BY <1>4, <1>5, <1>6

LEMMA CodeOfLast ==
    \A i \in Bits : BinToGray(PTR_MOD - 1)[i] <=> i = AW
<1> DEFINE last == PTR_MOD - 1
           S == {i \in 0 .. AW + 1 : Shifted(last, i) = pow2[AW + 1 - i] - 1}
<1>1. last \in Nat
  BY Sizes
<1>2. 0 \in S
  <2>1. Shifted(last, 0) = last /\ AW + 1 - 0 = AW + 1 /\ 0 \in 0 .. AW + 1
    BY <1>1, ShiftedSteps, AddressAssumption
  <2> QED BY <2>1 DEF PTR_MOD
<1>3. ASSUME NEW i \in 0 .. (AW + 1) - 1, i \in S PROVE i + 1 \in S
  <2>1. i \in 0 .. AW /\ i + 1 \in 0 .. AW + 1 /\ AW + 1 - (i + 1) \in 0 .. AW
        /\ (AW + 1 - (i + 1)) + 1 = AW + 1 - i
    BY AddressAssumption
  <2>2. pow2[AW + 1 - i] = 2 * pow2[AW + 1 - (i + 1)] /\ pow2[AW + 1 - (i + 1)] \in Nat \ {0}
    BY <2>1, Doubling, PowerType, AddressAssumption
  <2>3. Shifted(last, i + 1) = Shifted(last, i) \div 2
    BY <1>1, <2>1, ShiftedSteps
  <2>4. Shifted(last, i) = 2 * pow2[AW + 1 - (i + 1)] - 1
    BY <1>3, <2>2
  <2>5. Shifted(last, i + 1) = pow2[AW + 1 - (i + 1)] - 1
    BY <2>2, <2>3, <2>4
  <2> QED BY <2>1, <2>5
<1>4. \A i \in 0 .. AW + 1 : i \in S
  <2> HIDE DEF S
  <2> QED BY <1>2, <1>3, Upward, AddressAssumption
<1> SUFFICES ASSUME NEW i \in Bits PROVE BinToGray(last)[i] <=> i = AW
  OBVIOUS
<1>5. i \in 0 .. AW /\ i \in 0 .. AW + 1
  BY AddressAssumption DEF Bits
<1>6. Shifted(last, i) = pow2[AW + 1 - i] - 1
  BY <1>4, <1>5
<1>7. BinToGray(last)[i] <=> (Odd(Shifted(last, i) \div 2) <=> ~Odd(Shifted(last, i)))
  BY <1>1, CodeBits
<1>8. CASE i = AW
  <2>1. pow2[AW + 1 - i] = 2
    <3>1. AW + 1 - i = 0 + 1 /\ 0 \in 0 .. AW
      BY <1>8, AddressAssumption
    <3> QED BY <3>1, Doubling
  <2>2. Odd(1) /\ ~Odd(1 \div 2)
    BY DEF Odd
  <2>3. Shifted(last, i) = 1
    BY <1>6, <2>1
  <2> QED BY <1>7, <1>8, <2>2, <2>3
<1>9. CASE i # AW
  <2>1. AW - i \in 0 .. AW /\ AW - 1 - i \in 0 .. AW /\ (AW - 1 - i) + 1 = AW - i
        /\ (AW - i) + 1 = AW + 1 - i
    BY <1>5, <1>9, AddressAssumption
  <2>2. PICK k \in Nat \ {0} : pow2[AW - 1 - i] = k
    BY <2>1, PowerType, AddressAssumption
  <2>3. pow2[AW + 1 - i] = 4 * k
    BY <2>1, <2>2, Doubling
  <2>4. Odd(4 * k - 1) /\ Odd((4 * k - 1) \div 2)
    BY DEF Odd
  <2>5. Shifted(last, i) = 4 * k - 1
    BY <1>6, <2>3
  <2> QED BY <1>7, <1>9, <2>4, <2>5
<1> QED BY <1>8, <1>9

\* The codes of neighbours differ in one bit, also where the pointer wraps.
LEMMA OneBitChanges ==
    ASSUME NEW n \in Pointers, NEW i \in Bits, NEW j \in Bits,
           ~(BinToGray(Advance(n))[i] <=> BinToGray(n)[i]),
           ~(BinToGray(Advance(n))[j] <=> BinToGray(n)[j])
    PROVE  i = j
<1>1. n \in Nat /\ PTR_MOD \in Nat \ {0} /\ n <= PTR_MOD - 1
  BY Sizes DEF Pointers
<1>2. CASE n = PTR_MOD - 1
  <2>1. Splits(n + 1, PTR_MOD, 1, 0) /\ n + 1 \in Int
    BY <1>1, <1>2 DEF Splits
  <2>2. Advance(n) = 0
    BY <1>1, <2>1, Remainder DEF Advance
  <2> QED BY <1>2, <2>2, CodeOfZero, CodeOfLast
<1>3. CASE n + 1 < PTR_MOD
  <2>1. Splits(n + 1, PTR_MOD, 0, n + 1) /\ n + 1 \in Int
    BY <1>1, <1>3 DEF Splits
  <2>2. Advance(n) = n + 1
    BY <1>1, <2>1, Remainder DEF Advance
  <2>3. ASSUME NEW k \in Bits, NEW l \in Bits, k < l,
               ~(BinToGray(n + 1)[k] <=> BinToGray(n)[k])
        PROVE  BinToGray(n + 1)[l] <=> BinToGray(n)[l]
    <3>1. k + 1 \in 0 .. AW + 1 /\ l \in 0 .. AW + 1 /\ k + 1 <= l
      BY <2>3, AddressAssumption DEF Bits
    <3>2. Shifted(n + 1, k + 1) = Shifted(n, k + 1)
      BY <1>1, <2>3, ChangeEndsCarry
    <3>3. Shifted(n + 1, l) = Shifted(n, l)
      BY <1>1, <3>1, <3>2, CarryEnds
    <3> QED BY <1>1, <3>3, ChangeEndsCarry
  <2>4. ~(i < j) /\ ~(j < i)
    BY <2>2, <2>3
  <2> QED BY <2>4, AddressAssumption DEF Bits
<1> QED BY <1>1, <1>2, <1>3

\* So a sample taken while the code changes is the old code or the new one.
LEMMA TornSample ==
    ASSUME NEW n \in Pointers, NEW c \in Between(BinToGray(n), BinToGray(Advance(n)))
    PROVE  c \in {BinToGray(n), BinToGray(Advance(n))}
<1> DEFINE old == BinToGray(n)
           new == BinToGray(Advance(n))
<1>1. n \in Nat /\ Advance(n) \in Nat
  BY Sizes DEF Pointers, Advance
<1>2. old \in Codes /\ new \in Codes /\ c \in Codes
  BY <1>1, CodeBits DEF Between
<1>3. \A i \in Bits : c[i] = old[i] \/ c[i] = new[i]
  BY DEF Between
<1>4. \A i, j \in Bits : ~(new[i] <=> old[i]) /\ ~(new[j] <=> old[j]) => i = j
  BY OneBitChanges
<1> HIDE DEF old, new
<1>5. CASE \A i \in Bits : c[i] = old[i]
  BY <1>2, <1>5 DEF Codes, old
<1>6. CASE \E i \in Bits : c[i] # old[i]
  <2>1. PICK i \in Bits : c[i] # old[i]
    BY <1>6
  <2>2. c[i] = new[i] /\ ~(new[i] <=> old[i])
    BY <1>2, <1>3, <2>1 DEF Codes
  <2>3. ASSUME NEW j \in Bits PROVE c[j] = new[j]
    <3>1. CASE j = i
      BY <2>2, <3>1
    <3>2. CASE j # i
      <4>1. new[j] <=> old[j]
        BY <1>4, <2>2, <3>2
      <4> QED BY <1>2, <1>3, <4>1 DEF Codes
    <3> QED BY <3>1, <3>2
  <2> QED BY <1>2, <2>3 DEF Codes, new
<1> QED BY <1>5, <1>6

LEMMA SettledSample ==
    ASSUME NEW code \in Codes, NEW c \in Between(code, code)
    PROVE  c = code
<1>1. c \in Codes /\ \A i \in Bits : c[i] = code[i]
  BY DEF Between
<1> QED BY <1>1 DEF Codes

\* Half a turn later the two upper bits of the code are inverted.
LEMMA HalfTurnUp ==
    ASSUME NEW n \in Nat, n < DEPTH
    PROVE  BinToGray(n + DEPTH) = FullCode(BinToGray(n))
<1> DEFINE m == n + DEPTH
           S == {i \in 0 .. AW : Shifted(m, i) = Shifted(n, i) + pow2[AW - i]}
<1>1. m \in Nat /\ DEPTH \in Nat \ {0}
  BY Sizes
<1>2. 0 \in S
  <2>1. Shifted(m, 0) = m /\ Shifted(n, 0) = n /\ AW - 0 = AW /\ 0 \in 0 .. AW
    BY <1>1, ShiftedSteps, AddressAssumption
  <2> QED BY <2>1 DEF DEPTH
<1>3. ASSUME NEW i \in 0 .. AW - 1, i \in S PROVE i + 1 \in S
  <2>1. i \in 0 .. AW /\ i + 1 \in 0 .. AW /\ AW - (i + 1) \in 0 .. AW
        /\ (AW - (i + 1)) + 1 = AW - i
    BY AddressAssumption
  <2>2. pow2[AW - i] = 2 * pow2[AW - (i + 1)] /\ pow2[AW - (i + 1)] \in Nat \ {0}
    BY <2>1, Doubling, PowerType, AddressAssumption
  <2>3. /\ Shifted(m, i + 1) = Shifted(m, i) \div 2
        /\ Shifted(n, i + 1) = Shifted(n, i) \div 2
    BY <1>1, <2>1, ShiftedSteps
  <2>4. Shifted(n, i) \in Nat
    BY <2>1, ShiftedSteps, AddressAssumption
  <2>5. Shifted(m, i + 1) = Shifted(n, i + 1) + pow2[AW - (i + 1)]
    BY <1>3, <2>2, <2>3, <2>4
  <2> QED BY <2>1, <2>5
<1>4. \A i \in 0 .. AW : Shifted(m, i) = Shifted(n, i) + pow2[AW - i]
  <2>1. \A i \in 0 .. AW : i \in S
    <3> HIDE DEF S
    <3> QED BY <1>2, <1>3, Upward, AddressAssumption
  <2> QED BY <2>1
<1>5. Shifted(n, AW) = 0
  <2>1. n = DEPTH * 0 + n /\ n \in 0 .. DEPTH - 1
    BY <1>1
  <2> QED BY <1>1, <2>1, DivModUnique DEF Shifted, DEPTH
<1>6. ASSUME NEW i \in Bits
      PROVE  BinToGray(m)[i] = FullCode(BinToGray(n))[i]
  <2> DEFINE a == Shifted(n, i)
             b == Shifted(m, i)
  <2>1. i \in 0 .. AW /\ a \in Nat /\ b = a + pow2[AW - i]
    <3>1. i \in 0 .. AW /\ i \in 0 .. AW + 1
      BY AddressAssumption DEF Bits
    <3> QED BY <1>4, <3>1, ShiftedSteps
  <2>2. BinToGray(n)[i] <=> (Odd(a \div 2) <=> ~Odd(a))
    BY CodeBits
  <2>3. BinToGray(m)[i] <=> (Odd(b \div 2) <=> ~Odd(b))
    BY <1>1, CodeBits
  <2>4. BinToGray(n)[i] \in BOOLEAN /\ BinToGray(m)[i] \in BOOLEAN
    BY <1>1, CodeBits DEF Codes
  <2>5. FullCode(BinToGray(n))[i] = IF i >= AW - 1 THEN ~BinToGray(n)[i] ELSE BinToGray(n)[i]
    BY DEF FullCode
  <2>6. CASE i = AW
    <3>1. a = 0 /\ pow2[AW - i] = 1
      BY <1>5, <2>6, Doubling, AddressAssumption
    <3>2. b = 1 /\ Odd(1) /\ ~Odd(0) /\ ~Odd(1 \div 2) /\ ~Odd(0 \div 2)
      BY <2>1, <3>1 DEF Odd
    <3>3. ~BinToGray(n)[i] /\ BinToGray(m)[i]
      BY <2>2, <2>3, <3>1, <3>2
    <3>4. i >= AW - 1
      BY <2>6, AddressAssumption
    <3> QED BY <2>4, <2>5, <3>3, <3>4
  <2>7. CASE i = AW - 1
    <3>1. AW - i = 0 + 1 /\ 0 \in 0 .. AW
      BY <2>7, AddressAssumption
    <3>2. b = a + 2
      BY <2>1, <3>1, Doubling
    <3> HIDE DEF a, b
    <3>3. b \div 2 = (a \div 2) + 1 /\ (Odd(b) <=> Odd(a)) /\ a \div 2 \in Nat
      BY <2>1, <3>2 DEF Odd
    <3>4. Odd(b \div 2) <=> ~Odd(a \div 2)
      BY <3>3 DEF Odd
    <3>5. BinToGray(m)[i] <=> ~BinToGray(n)[i]
      BY <2>2, <2>3, <3>3, <3>4, Zenon
    <3>6. i >= AW - 1
      BY <2>7, AddressAssumption
    <3> QED BY <2>4, <2>5, <3>5, <3>6
  <2>8. CASE i < AW - 1
    <3>1. AW - 2 - i \in 0 .. AW /\ AW - 1 - i \in 0 .. AW /\ (AW - 2 - i) + 1 = AW - 1 - i
          /\ (AW - 1 - i) + 1 = AW - i
      BY <2>1, <2>8, AddressAssumption
    <3>2. PICK k \in Nat \ {0} : pow2[AW - 2 - i] = k
      BY <3>1, PowerType, AddressAssumption
    <3>3. b = a + 4 * k
      BY <2>1, <3>1, <3>2, Doubling
    <3> HIDE DEF a, b
    <3>4. b \div 2 = (a \div 2) + 2 * k /\ (Odd(b) <=> Odd(a)) /\ a \div 2 \in Nat
      BY <2>1, <3>3 DEF Odd
    <3>5. Odd(b \div 2) <=> Odd(a \div 2)
      BY <3>4 DEF Odd
    <3>6. BinToGray(m)[i] <=> BinToGray(n)[i]
      BY <2>2, <2>3, <3>4, <3>5, Zenon
    <3>7. ~(i >= AW - 1)
      BY <2>1, <2>8, AddressAssumption
    <3> QED BY <2>4, <2>5, <3>6, <3>7
  <2> QED BY <2>1, <2>6, <2>7, <2>8, AddressAssumption
<1> QED
  <2>1. BinToGray(m) \in Codes /\ FullCode(BinToGray(n)) \in Codes
    BY <1>1, CodeBits DEF FullCode, Codes
  <2> HIDE DEF m
  <2>2. BinToGray(m) = FullCode(BinToGray(n))
    BY <1>6, <2>1 DEF Codes
  <2> QED BY <2>2 DEF m

LEMMA FullCodeTwice ==
    ASSUME NEW c \in Codes
    PROVE  FullCode(FullCode(c)) = c
  BY DEF FullCode, Codes

---------------------------------------------------------------------------
(* Numbers of words instead of pointers *)

\* The pointer and the code after n words.
Ptr(n) == n % PTR_MOD
Code(n) == BinToGray(Ptr(n))

LEMMA PtrType ==
    ASSUME NEW n \in Nat
    PROVE  Ptr(n) \in Pointers /\ Ptr(n) \in Nat /\ Code(n) \in Codes
  BY Sizes, DivMod, CodeBits DEF Ptr, Code, Pointers

LEMMA PtrSteps ==
    ASSUME NEW n \in Nat
    PROVE  Advance(Ptr(n)) = Ptr(n + 1) /\ BinToGray(Advance(Ptr(n))) = Code(n + 1)
<1>0. PTR_MOD \in Nat \ {0} /\ n \in Int /\ n + 1 \in Int
  BY Sizes
<1>1. PICK q, r : Splits(n, PTR_MOD, q, r)
  BY <1>0, Division
<1>2. Ptr(n) = r /\ r \in Nat /\ r + 1 \in Int
  BY <1>0, <1>1, Remainder DEF Ptr, Splits
<1>3. CASE r + 1 < PTR_MOD
  <2>1. Splits(n + 1, PTR_MOD, q, r + 1) /\ Splits(r + 1, PTR_MOD, 0, r + 1)
    BY <1>0, <1>1, <1>3 DEF Splits
  <2>2. (n + 1) % PTR_MOD = r + 1 /\ (r + 1) % PTR_MOD = r + 1
    BY <1>0, <1>2, <2>1, Remainder
  <2> QED BY <1>2, <2>2 DEF Advance, Ptr, Code
<1>4. CASE r + 1 = PTR_MOD
  <2>1. Splits(n + 1, PTR_MOD, q + 1, 0) /\ Splits(r + 1, PTR_MOD, 1, 0)
    BY <1>0, <1>1, <1>4 DEF Splits
  <2>2. (n + 1) % PTR_MOD = 0 /\ (r + 1) % PTR_MOD = 0
    BY <1>0, <1>2, <2>1, Remainder
  <2> QED BY <1>2, <2>2 DEF Advance, Ptr, Code
<1> QED BY <1>0, <1>1, <1>3, <1>4 DEF Splits

\* Numbers less than a turn apart have different codes.
LEMMA CodesTellApart ==
    ASSUME NEW m \in Nat, NEW n \in Nat, m <= n, n - m < PTR_MOD
    PROVE  /\ Ahead(Ptr(m), Ptr(n)) = n - m
           /\ Code(m) = Code(n) <=> m = n
<1>0. PTR_MOD \in Nat \ {0}
  BY Sizes
<1>1. Ahead(Ptr(m), Ptr(n)) = n - m
  <2>1. PICK q, r : Splits(m, PTR_MOD, q, r)
    BY <1>0, Division
  <2>2. PICK p, s : Splits(n, PTR_MOD, p, s)
    BY <1>0, Division
  <2>3. Ptr(m) = r /\ Ptr(n) = s /\ s - r \in Int
    BY <1>0, <2>1, <2>2, Remainder DEF Ptr, Splits
  <2>4. Splits(s - r, PTR_MOD, q - p, n - m)
    <3>1. PTR_MOD * (q - p) = PTR_MOD * q - PTR_MOD * p
      BY <1>0, <2>1, <2>2 DEF Splits
    <3>2. PTR_MOD * q \in Int /\ PTR_MOD * p \in Int
      BY <1>0, <2>1, <2>2 DEF Splits
    <3> QED BY <1>0, <2>1, <2>2, <3>1, <3>2 DEF Splits
  <2>5. (s - r) % PTR_MOD = n - m
    BY <1>0, <2>3, <2>4, Remainder
  <2> QED BY <2>3, <2>5 DEF Ahead
<1>2. ASSUME Code(m) = Code(n) PROVE m = n
  <2>1. Ptr(m) = Ptr(n)
    BY <1>2, PtrType, CodesDiffer DEF Code
  <2>2. Ptr(n) - Ptr(m) = 0 /\ Splits(0, PTR_MOD, 0, 0)
    BY <1>0, <2>1, PtrType DEF Splits
  <2>3. Ahead(Ptr(m), Ptr(n)) = 0
    BY <1>0, <2>2, Remainder DEF Ahead
  <2> QED BY <1>1, <2>3
<1> QED BY <1>1, <1>2

\* GrayToBin finds the pointer a code stands for.
LEMMA CodeStandsFor ==
    ASSUME NEW n \in Nat
    PROVE  GrayToBin(Code(n)) = Ptr(n)
<1>1. Ptr(n) \in Pointers /\ BinToGray(Ptr(n)) = Code(n)
  BY PtrType DEF Code
<1>2. \A p \in Pointers : BinToGray(p) = Code(n) => p = Ptr(n)
  BY <1>1, CodesDiffer
<1> QED BY <1>1, <1>2 DEF GrayToBin

\* A sample of a code on its way to itself or to the next one.
LEMMA Sample ==
    ASSUME NEW m \in Nat, NEW n \in Nat, m <= n, n <= m + 1,
           NEW c \in Between(Code(m), Code(n))
    PROVE  \E k \in {m, n} : c = Code(k)
<1>1. CASE n = m
  <2>1. Code(m) \in Codes
    BY PtrType
  <2> QED BY <1>1, <2>1, SettledSample
<1>2. CASE n = m + 1
  <2>1. Code(n) = BinToGray(Advance(Ptr(m))) /\ Code(m) = BinToGray(Ptr(m)) /\ Ptr(m) \in Pointers
    BY <1>2, PtrSteps, PtrType DEF Code
  <2>2. c \in {BinToGray(Ptr(m)), BinToGray(Advance(Ptr(m)))}
    BY <2>1, TornSample
  <2> QED BY <2>1, <2>2
<1> QED BY <1>1, <1>2

\* The code that means a full ring is the code DEPTH words later.
LEMMA FullIsHalfATurn ==
    ASSUME NEW n \in Nat
    PROVE  FullCode(Code(n)) = Code(n + DEPTH)
<1>0. /\ PTR_MOD \in Nat \ {0} /\ DEPTH \in Nat \ {0}
      /\ PTR_MOD = 2 * DEPTH /\ n + DEPTH \in Int
  BY Sizes
<1>1. PICK q, r : Splits(n, PTR_MOD, q, r)
  BY <1>0, Division
<1>2. Ptr(n) = r /\ r \in Nat
  BY <1>0, <1>1, Remainder DEF Ptr, Splits
<1>3. CASE r < DEPTH
  <2>1. Splits(n + DEPTH, PTR_MOD, q, r + DEPTH)
    BY <1>0, <1>1, <1>3 DEF Splits
  <2>2. Ptr(n + DEPTH) = r + DEPTH
    BY <1>0, <2>1, Remainder DEF Ptr
  <2> QED BY <1>2, <1>3, <2>2, HalfTurnUp DEF Code
<1>4. CASE r >= DEPTH
  <2>1. Splits(n + DEPTH, PTR_MOD, q + 1, r - DEPTH)
    BY <1>0, <1>1, <1>4 DEF Splits
  <2>2. Ptr(n + DEPTH) = r - DEPTH
    BY <1>0, <2>1, Remainder DEF Ptr
  <2>3. r - DEPTH \in Nat /\ r - DEPTH < DEPTH /\ (r - DEPTH) + DEPTH = r
    BY <1>0, <1>1, <1>4 DEF Splits
  <2>4. BinToGray(r) = FullCode(BinToGray(r - DEPTH))
    BY <2>3, HalfTurnUp
  <2>5. BinToGray(r - DEPTH) \in Codes
    BY <2>3, CodeBits
  <2> QED BY <1>2, <2>2, <2>4, <2>5, FullCodeTwice DEF Code
<1> QED BY <1>0, <1>2, <1>3, <1>4

\* Addresses repeat every DEPTH words.
LEMMA AddressOf ==
    ASSUME NEW n \in Nat, NEW k \in Nat
    PROVE  Address(Ptr(n) + k) = (n + k) % DEPTH
<1>0. /\ PTR_MOD \in Nat \ {0} /\ DEPTH \in Nat \ {0}
      /\ PTR_MOD = 2 * DEPTH /\ n + k \in Int
  BY Sizes
<1>1. PICK q, r : Splits(n, PTR_MOD, q, r)
  BY <1>0, Division
<1>2. Ptr(n) = r /\ r \in Nat /\ r + k \in Int
  BY <1>0, <1>1, Remainder DEF Ptr, Splits
<1>3. PICK u, t : Splits(r + k, DEPTH, u, t)
  BY <1>0, <1>2, Division
<1>4. Splits(n + k, DEPTH, 2 * q + u, t)
  <2>1. DEPTH * (2 * q + u) = PTR_MOD * q + DEPTH * u
    BY <1>0, <1>1, <1>3 DEF Splits
  <2>2. PTR_MOD * q \in Int /\ DEPTH * u \in Int /\ 2 * q + u \in Int
    BY <1>0, <1>1, <1>3 DEF Splits
  <2> QED BY <1>0, <1>1, <1>3, <2>1, <2>2 DEF Splits
<1>5. (n + k) % DEPTH = t
  BY <1>0, <1>4, Remainder
<1>6. (r + k) % DEPTH = t
  BY <1>0, <1>2, <1>3, Remainder
<1> QED BY <1>2, <1>5, <1>6 DEF Address

LEMMA AddressesDiffer ==
    ASSUME NEW m \in Nat, NEW n \in Nat, m < n, n - m < DEPTH
    PROVE  m % DEPTH # n % DEPTH
<1>0. DEPTH \in Nat \ {0} /\ m \in Int /\ n \in Int /\ n - m \in Int
  BY Sizes
<1>1. PICK q, r : Splits(m, DEPTH, q, r)
  BY <1>0, Division
<1>2. PICK p, s : Splits(n, DEPTH, p, s)
  BY <1>0, Division
<1> SUFFICES ASSUME m % DEPTH = n % DEPTH PROVE FALSE
  OBVIOUS
<1>3. r = s
  BY <1>0, <1>1, <1>2, Remainder
<1>4. Splits(n - m, DEPTH, p - q, 0)
  <2>1. DEPTH * (p - q) = DEPTH * p - DEPTH * q
    BY <1>0, <1>1, <1>2 DEF Splits
  <2>2. DEPTH * p \in Int /\ DEPTH * q \in Int
    BY <1>0, <1>1, <1>2 DEF Splits
  <2> QED BY <1>0, <1>1, <1>2, <1>3, <2>1, <2>2 DEF Splits
<1>5. Splits(n - m, DEPTH, 0, n - m)
  BY <1>0 DEF Splits
<1>6. (n - m) % DEPTH = 0
  BY <1>0, <1>4, Remainder
<1>7. (n - m) % DEPTH = n - m
  BY <1>0, <1>5, Remainder
<1> QED BY <1>6, <1>7


---------------------------------------------------------------------------
(* The order of the pointers.  w words have been written and r read since the last reset;   *)
(* p1, p0 and pw are the numbers of writes that w_out_reg1, w_out_reg0 and the wire to it   *)
(* stand for, and q1, q0, qw the numbers of reads that r_out_reg1, r_out_reg0 and its wire  *)
(* stand for.                                                                               *)

Numbered(w, p1, p0, pw, r, q1, q0, qw) ==
    /\ w \in Nat /\ p1 \in Nat /\ p0 \in Nat /\ pw \in Nat
    /\ r \in Nat /\ q1 \in Nat /\ q0 \in Nat /\ qw \in Nat

\* Each side sees a past of the other one, in order, and no word is read before it is written
\* or overwritten before it is read, even as far as the slower side knows.
Ordered(w, p1, p0, pw, r, q1, q0, qw) ==
    /\ r <= p1 /\ p1 <= p0 /\ p0 <= pw /\ pw <= w /\ w <= pw + 1
    /\ w <= q1 + DEPTH /\ q1 <= q0 /\ q0 <= qw /\ qw <= r /\ r <= qw + 1

WriterHolds(w, q1, q0) ==
    /\ w_bin = Ptr(w) /\ w_gray = Code(w)
    /\ r_out_reg0 = Code(q0) /\ r_out_reg1 = Code(q1)
    /\ w_full \in BOOLEAN /\ (~w_full => w < q1 + DEPTH)

ReaderHolds(r, p1, p0) ==
    /\ r_bin = Ptr(r) /\ r_gray = Code(r)
    /\ w_out_reg0 = Code(p0) /\ w_out_reg1 = Code(p1)
    /\ r_empty \in BOOLEAN /\ (~r_empty => r < p1)

WiresHold(pw, qw) == w_wire = Code(pw) /\ r_wire = Code(qw)

Counted(w, p1, p0, pw, r, q1, q0, qw) ==
    /\ Numbered(w, p1, p0, pw, r, q1, q0, qw)
    /\ Ordered(w, p1, p0, pw, r, q1, q0, qw)
    /\ WriterHolds(w, q1, q0)
    /\ ReaderHolds(r, p1, p0)
    /\ WiresHold(pw, qw)

PointersInv == \E w, p1, p0, pw, r, q1, q0, qw : Counted(w, p1, p0, pw, r, q1, q0, qw)

\* The registers of dataIn_clk at an edge: they count what is written, and w_full tells
\* whether the next word fits as far as the writer can know.
LEMMA WriterEdge ==
    ASSUME NEW w \in Nat, NEW q1 \in Nat, NEW q0 \in Nat, NEW k \in Nat, NEW en, NEW sample,
           w <= q1 + DEPTH, q1 <= w, q1 <= q0,
           WriterHolds(w, q1, q0), sample = Code(k),
           WriteRegisters(en, sample)
    PROVE  \E v \in Nat : /\ v = IF WriteEn(en) THEN w + 1 ELSE w
                          /\ v <= q1 + DEPTH
                          /\ w_bin' = Ptr(v) /\ w_gray' = Code(v)
                          /\ r_out_reg0' = Code(k) /\ r_out_reg1' = Code(q0)
                          /\ w_full' \in BOOLEAN /\ (~w_full' => v < q0 + DEPTH)
<1> USE Sizes
<1>1. PICK v \in Nat : v = IF WriteEn(en) THEN w + 1 ELSE w
  OBVIOUS
<1>2. v <= q1 + DEPTH /\ w <= v
  BY <1>1 DEF WriterHolds, WriteEn
<1>3. NextWBin(en) = Ptr(v)
  BY <1>1, PtrSteps DEF NextWBin, WriterHolds
<1>4. w_bin' = Ptr(v) /\ w_gray' = Code(v)
  BY <1>3 DEF WriteRegisters, Code
<1>5. w_full' <=> Code(v) = Code(q1 + DEPTH)
  <2>1. FullCode(r_out_reg1) = Code(q1 + DEPTH)
    BY FullIsHalfATurn DEF WriterHolds
  <2> QED BY <1>3, <2>1 DEF WriteRegisters, NextFull, Code
<1>6. w_full' \in BOOLEAN
  BY DEF WriteRegisters, NextFull
<1>7. Code(v) = Code(q1 + DEPTH) <=> v = q1 + DEPTH
  <2>1. q1 + DEPTH \in Nat /\ v <= q1 + DEPTH /\ (q1 + DEPTH) - v < PTR_MOD
    BY <1>2
  <2> QED BY <2>1, CodesTellApart
<1>8. ~w_full' => v < q0 + DEPTH
  BY <1>2, <1>5, <1>7
<1>9. r_out_reg0' = Code(k) /\ r_out_reg1' = Code(q0)
  BY DEF WriteRegisters, WriterHolds
<1> QED BY <1>1, <1>2, <1>4, <1>6, <1>8, <1>9

\* The registers of dataOut_clk at an edge, r_empty likewise.
LEMMA ReaderEdge ==
    ASSUME NEW r \in Nat, NEW p1 \in Nat, NEW p0 \in Nat, NEW k \in Nat, NEW en, NEW sample,
           NEW word, r <= p1, p1 <= r + DEPTH, p1 <= p0,
           ReaderHolds(r, p1, p0), sample = Code(k),
           ReadRegisters(en, sample, word)
    PROVE  \E s \in Nat : /\ s = IF ReadEn(en) THEN r + 1 ELSE r
                          /\ s <= p1
                          /\ r_bin' = Ptr(s) /\ r_gray' = Code(s)
                          /\ w_out_reg0' = Code(k) /\ w_out_reg1' = Code(p0)
                          /\ r_empty' \in BOOLEAN /\ (~r_empty' => s < p0)
<1> USE Sizes
<1>1. PICK s \in Nat : s = IF ReadEn(en) THEN r + 1 ELSE r
  OBVIOUS
<1>2. s <= p1 /\ r <= s
  BY <1>1 DEF ReaderHolds, ReadEn
<1>3. NextRBin(en) = Ptr(s)
  BY <1>1, PtrSteps DEF NextRBin, ReaderHolds
<1>4. r_bin' = Ptr(s) /\ r_gray' = Code(s)
  BY <1>3 DEF ReadRegisters, Code
<1>5. r_empty' <=> Code(s) = Code(p1)
  BY <1>3 DEF ReadRegisters, NextEmpty, Code, ReaderHolds
<1>6. r_empty' \in BOOLEAN
  BY DEF ReadRegisters, NextEmpty
<1>7. Code(s) = Code(p1) <=> s = p1
  <2>1. s <= p1 /\ p1 - s < PTR_MOD
    BY <1>2
  <2> QED BY <2>1, CodesTellApart
<1>8. ~r_empty' => s < p0
  BY <1>2, <1>5, <1>7
<1>9. w_out_reg0' = Code(k) /\ w_out_reg1' = Code(p0)
  BY DEF ReadRegisters, ReaderHolds
<1> QED BY <1>1, <1>2, <1>4, <1>6, <1>8, <1>9

\* What an edge or two do to the numbers.
Moved(w, r, v, s, wen, ren) ==
    /\ v = IF WriteEn(wen) THEN w + 1 ELSE w
    /\ s = IF ReadEn(ren) THEN r + 1 ELSE r

Known(w, p1, r, q1) == w <= q1 + DEPTH /\ q1 <= r /\ r <= p1 /\ p1 <= w

LEMMA CountedKnown ==
    ASSUME NEW w, NEW p1, NEW p0, NEW pw, NEW r, NEW q1, NEW q0, NEW qw,
           Counted(w, p1, p0, pw, r, q1, q0, qw)
    PROVE  w \in Nat /\ p1 \in Nat /\ r \in Nat /\ q1 \in Nat /\ Known(w, p1, r, q1)
  BY Sizes DEF Counted, Numbered, Ordered, Known

LEMMA WriteEdgeCounts ==
    ASSUME NEW w, NEW p1, NEW p0, NEW pw, NEW r, NEW q1, NEW q0, NEW qw,
           Counted(w, p1, p0, pw, r, q1, q0, qw),
           NEW en, NEW word, WriteEdge(en, word)
    PROVE  \E v, y0, yw : /\ Counted(v, p1, p0, w, r, q0, y0, yw)'
                          /\ v = IF WriteEn(en) THEN w + 1 ELSE w
<1> USE Sizes
<1>1. /\ w \in Nat /\ p1 \in Nat /\ p0 \in Nat /\ pw \in Nat
      /\ r \in Nat /\ q1 \in Nat /\ q0 \in Nat /\ qw \in Nat
      /\ r <= p1 /\ p1 <= p0 /\ p0 <= pw /\ pw <= w
      /\ w <= q1 + DEPTH /\ q1 <= q0 /\ q0 <= qw /\ qw <= r /\ r <= qw + 1
  BY DEF Counted, Numbered, Ordered
<1>2. WriterHolds(w, q1, q0) /\ ReaderHolds(r, p1, p0) /\ WiresHold(pw, qw)
  BY DEF Counted
<1>3. PICK yw \in {qw, r} : r_wire' = Code(yw)
  <2>1. r_wire' \in Between(Code(qw), Code(r))
    BY <1>2 DEF WriteEdge, WiresHold, ReaderHolds
  <2> QED BY <1>1, <2>1, Sample
<1>4. yw \in Nat /\ qw <= yw /\ yw <= r /\ yw <= qw + 1 /\ r <= yw + 1
  BY <1>1
<1>5. PICK y0 \in {qw, yw} : WriteRegisters(en, Code(y0))
  <2>1. PICK sample \in Between(Code(qw), Code(yw)) : WriteRegisters(en, sample)
    BY <1>2, <1>3 DEF WriteEdge, WiresHold
  <2>2. \E k \in {qw, yw} : sample = Code(k)
    BY <1>1, <1>4, Sample
  <2> QED BY <2>1, <2>2
<1>6. y0 \in Nat /\ qw <= y0 /\ y0 <= yw
  BY <1>1, <1>4
<1>7. PICK v \in Nat : /\ v = IF WriteEn(en) THEN w + 1 ELSE w
                       /\ v <= q1 + DEPTH
                       /\ w_bin' = Ptr(v) /\ w_gray' = Code(v)
                       /\ r_out_reg0' = Code(y0) /\ r_out_reg1' = Code(q0)
                       /\ w_full' \in BOOLEAN /\ (~w_full' => v < q0 + DEPTH)
  BY <1>1, <1>2, <1>5, <1>6, WriterEdge
<1>8. (WriterHolds(v, q0, y0))'
  BY <1>7 DEF WriterHolds
<1>9. (ReaderHolds(r, p1, p0))'
  BY <1>2 DEF ReaderHolds, WriteEdge, readVars
<1>10. (WiresHold(w, yw))'
  BY <1>2, <1>3 DEF WiresHold, WriteEdge, WriterHolds
<1>11. Numbered(v, p1, p0, w, r, q0, y0, yw) /\ Ordered(v, p1, p0, w, r, q0, y0, yw)
  BY <1>1, <1>4, <1>6, <1>7 DEF Numbered, Ordered
<1>12. (Numbered(v, p1, p0, w, r, q0, y0, yw) /\ Ordered(v, p1, p0, w, r, q0, y0, yw))'
  BY <1>11 DEF Numbered, Ordered
<1>13. Counted(v, p1, p0, w, r, q0, y0, yw)'
  BY <1>8, <1>9, <1>10, <1>12, Zenon DEF Counted
<1> QED BY <1>7, <1>13

LEMMA ReadEdgeCounts ==
    ASSUME NEW w, NEW p1, NEW p0, NEW pw, NEW r, NEW q1, NEW q0, NEW qw,
           Counted(w, p1, p0, pw, r, q1, q0, qw),
           NEW en, ReadEdge(en)
    PROVE  \E s, x0, xw : /\ Counted(w, p0, x0, xw, s, q1, q0, r)'
                          /\ s = IF ReadEn(en) THEN r + 1 ELSE r
<1> USE Sizes
<1>1. /\ w \in Nat /\ p1 \in Nat /\ p0 \in Nat /\ pw \in Nat
      /\ r \in Nat /\ q1 \in Nat /\ q0 \in Nat /\ qw \in Nat
      /\ r <= p1 /\ p1 <= p0 /\ p0 <= pw /\ pw <= w /\ w <= pw + 1
      /\ w <= q1 + DEPTH /\ q1 <= q0 /\ q0 <= qw /\ qw <= r
  BY DEF Counted, Numbered, Ordered
<1>2. WriterHolds(w, q1, q0) /\ ReaderHolds(r, p1, p0) /\ WiresHold(pw, qw)
  BY DEF Counted
<1>3. PICK xw \in {pw, w} : w_wire' = Code(xw)
  <2>1. w_wire' \in Between(Code(pw), Code(w))
    BY <1>2 DEF ReadEdge, WiresHold, WriterHolds
  <2> QED BY <1>1, <2>1, Sample
<1>4. xw \in Nat /\ pw <= xw /\ xw <= w /\ xw <= pw + 1 /\ w <= xw + 1
  BY <1>1
<1>5. PICK x0 \in {pw, xw} : ReadRegisters(en, Code(x0), memory[Address(r_bin)])
  <2>1. PICK sample \in Between(Code(pw), Code(xw)) :
             ReadRegisters(en, sample, memory[Address(r_bin)])
    BY <1>2, <1>3 DEF ReadEdge, WiresHold
  <2>2. \E k \in {pw, xw} : sample = Code(k)
    BY <1>1, <1>4, Sample
  <2> QED BY <2>1, <2>2
<1>6. x0 \in Nat /\ pw <= x0 /\ x0 <= xw
  BY <1>1, <1>4
<1>7. PICK s \in Nat : /\ s = IF ReadEn(en) THEN r + 1 ELSE r
                       /\ s <= p1
                       /\ r_bin' = Ptr(s) /\ r_gray' = Code(s)
                       /\ w_out_reg0' = Code(x0) /\ w_out_reg1' = Code(p0)
                       /\ r_empty' \in BOOLEAN /\ (~r_empty' => s < p0)
  <2>1. p1 <= r + DEPTH
    BY <1>1
  <2> QED BY <1>1, <1>2, <1>5, <1>6, <2>1, ReaderEdge
<1>8. (ReaderHolds(s, p0, x0))'
  BY <1>7 DEF ReaderHolds
<1>9. (WriterHolds(w, q1, q0))'
  BY <1>2 DEF WriterHolds, ReadEdge, writeVars
<1>10. (WiresHold(xw, r))'
  BY <1>2, <1>3 DEF WiresHold, ReadEdge, ReaderHolds
<1>11. Numbered(w, p0, x0, xw, s, q1, q0, r) /\ Ordered(w, p0, x0, xw, s, q1, q0, r)
  BY <1>1, <1>4, <1>6, <1>7 DEF Numbered, Ordered
<1>12. (Numbered(w, p0, x0, xw, s, q1, q0, r) /\ Ordered(w, p0, x0, xw, s, q1, q0, r))'
  BY <1>11 DEF Numbered, Ordered
<1>13. Counted(w, p0, x0, xw, s, q1, q0, r)'
  BY <1>8, <1>9, <1>10, <1>12, Zenon DEF Counted
<1> QED BY <1>7, <1>13

LEMMA BothEdgesCount ==
    ASSUME NEW w, NEW p1, NEW p0, NEW pw, NEW r, NEW q1, NEW q0, NEW qw,
           Counted(w, p1, p0, pw, r, q1, q0, qw),
           NEW wen, NEW word, NEW ren, BothEdges(wen, word, ren)
    PROVE  \E v, x0, xw, s, y0, yw :
              /\ Counted(v, p0, x0, xw, s, q0, y0, yw)'
              /\ Moved(w, r, v, s, wen, ren)
<1> USE Sizes
<1>1. /\ w \in Nat /\ p1 \in Nat /\ p0 \in Nat /\ pw \in Nat
      /\ r \in Nat /\ q1 \in Nat /\ q0 \in Nat /\ qw \in Nat
      /\ r <= p1 /\ p1 <= p0 /\ p0 <= pw /\ pw <= w
      /\ w <= q1 + DEPTH /\ q1 <= q0 /\ q0 <= qw /\ qw <= r
  BY DEF Counted, Numbered, Ordered
<1>2. WriterHolds(w, q1, q0) /\ ReaderHolds(r, p1, p0)
  BY DEF Counted
<1>3. PICK s \in Nat : s = IF ReadEn(ren) THEN r + 1 ELSE r
  BY <1>1
<1>4. BinToGray(NextRBin(ren)) = Code(s) /\ r <= s /\ s <= r + 1
  BY <1>1, <1>2, <1>3, PtrSteps DEF NextRBin, ReaderHolds, Code
<1>5. PICK v \in Nat : v = IF WriteEn(wen) THEN w + 1 ELSE w
  BY <1>1
<1>6. BinToGray(NextWBin(wen)) = Code(v) /\ w <= v /\ v <= w + 1
  BY <1>1, <1>2, <1>5, PtrSteps DEF NextWBin, WriterHolds, Code
<1>7. PICK y0 \in {r, s} : WriteRegisters(wen, Code(y0))
  <2>1. PICK sample \in Between(Code(r), Code(s)) : WriteRegisters(wen, sample)
    BY <1>2, <1>4 DEF BothEdges, ReaderHolds
  <2>2. \E k \in {r, s} : sample = Code(k)
    BY <1>1, <1>4, Sample
  <2> QED BY <2>1, <2>2
<1>8. PICK x0 \in {w, v} : ReadRegisters(ren, Code(x0), MemoryAnswer(wen))
  <2>1. PICK sample \in Between(Code(w), Code(v)) :
             ReadRegisters(ren, sample, MemoryAnswer(wen))
    BY <1>2, <1>6 DEF BothEdges, WriterHolds
  <2>2. \E k \in {w, v} : sample = Code(k)
    BY <1>1, <1>6, Sample
  <2> QED BY <2>1, <2>2
<1>9. y0 \in Nat /\ r <= y0 /\ y0 <= s /\ s <= y0 + 1
  BY <1>1, <1>4
<1>10. x0 \in Nat /\ w <= x0 /\ x0 <= v /\ v <= x0 + 1
  BY <1>1, <1>6
<1>11. PICK vv \in Nat : /\ vv = IF WriteEn(wen) THEN w + 1 ELSE w
                         /\ vv <= q1 + DEPTH
                         /\ w_bin' = Ptr(vv) /\ w_gray' = Code(vv)
                         /\ r_out_reg0' = Code(y0) /\ r_out_reg1' = Code(q0)
                         /\ w_full' \in BOOLEAN /\ (~w_full' => vv < q0 + DEPTH)
  BY <1>1, <1>2, <1>7, <1>9, WriterEdge
<1>12. vv = v
  BY <1>5, <1>11
<1>13. PICK ss \in Nat : /\ ss = IF ReadEn(ren) THEN r + 1 ELSE r
                         /\ ss <= p1
                         /\ r_bin' = Ptr(ss) /\ r_gray' = Code(ss)
                         /\ w_out_reg0' = Code(x0) /\ w_out_reg1' = Code(p0)
                         /\ r_empty' \in BOOLEAN /\ (~r_empty' => ss < p0)
  <2>1. p1 <= r + DEPTH
    BY <1>1
  <2> QED BY <1>1, <1>2, <1>8, <1>10, <2>1, ReaderEdge
<1>14. ss = s
  BY <1>3, <1>13
<1>15. PICK yw \in {y0, s} : r_wire' = Code(yw)
  <2>1. r_wire' \in Between(Code(y0), Code(s))
    BY <1>11, <1>13, <1>14 DEF BothEdges
  <2> QED BY <1>9, <2>1, Sample
<1>16. PICK xw \in {x0, v} : w_wire' = Code(xw)
  <2>1. w_wire' \in Between(Code(x0), Code(v))
    BY <1>11, <1>12, <1>13 DEF BothEdges
  <2> QED BY <1>10, <2>1, Sample
<1>17. (WriterHolds(v, q0, y0))'
  BY <1>11, <1>12 DEF WriterHolds
<1>18. (ReaderHolds(s, p0, x0))'
  BY <1>13, <1>14 DEF ReaderHolds
<1>19. (WiresHold(xw, yw))'
  BY <1>15, <1>16 DEF WiresHold
<1>20. Numbered(v, p0, x0, xw, s, q0, y0, yw) /\ Ordered(v, p0, x0, xw, s, q0, y0, yw)
  BY <1>1, <1>9, <1>10, <1>11, <1>12, <1>13, <1>14 DEF Numbered, Ordered
<1>21. Moved(w, r, v, s, wen, ren)
  BY <1>3, <1>5 DEF Moved
<1>22. (Numbered(v, p0, x0, xw, s, q0, y0, yw) /\ Ordered(v, p0, x0, xw, s, q0, y0, yw))'
  BY <1>20 DEF Numbered, Ordered
<1>23. Counted(v, p0, x0, xw, s, q0, y0, yw)'
  BY <1>17, <1>18, <1>19, <1>22, Zenon DEF Counted
<1> QED BY <1>21, <1>23

\* After a reset all numbers are zero.
LEMMA ZeroCounted ==
    ASSUME w_bin = 0, w_gray = Zero, w_full = FALSE, r_out_reg0 = Zero, r_out_reg1 = Zero,
           r_bin = 0, r_gray = Zero, r_empty = TRUE, w_out_reg0 = Zero, w_out_reg1 = Zero,
           w_wire = Zero, r_wire = Zero
    PROVE  Counted(0, 0, 0, 0, 0, 0, 0, 0)
<1>1. Ptr(0) = 0
  <2>1. Splits(0, PTR_MOD, 0, 0)
    BY Sizes DEF Splits
  <2> QED BY <2>1, Sizes, Remainder DEF Ptr
<1>2. Code(0) = Zero
  BY <1>1 DEF Code, Zero
<1>3. WriterHolds(0, 0, 0) /\ ReaderHolds(0, 0, 0) /\ WiresHold(0, 0)
  <2>1. 0 < 0 + DEPTH
    BY Sizes
  <2>2. WriterHolds(0, 0, 0)
    BY <1>1, <1>2, <2>1, Zenon DEF WriterHolds
  <2>3. ReaderHolds(0, 0, 0)
    BY <1>1, <1>2, Zenon DEF ReaderHolds
  <2>4. WiresHold(0, 0)
    BY <1>2, Zenon DEF WiresHold
  <2> QED BY <2>2, <2>3, <2>4
<1> QED BY <1>3, Sizes DEF Counted, Numbered, Ordered

LEMMA ResetCounts ==
    ASSUME NEW wen, NEW word, NEW ren, AsyncReset(wen, word, ren)
    PROVE  (Counted(0, 0, 0, 0, 0, 0, 0, 0))'
<1>1. (/\ w_bin = 0 /\ w_gray = Zero /\ w_full = FALSE /\ r_out_reg0 = Zero /\ r_out_reg1 = Zero
       /\ r_bin = 0 /\ r_gray = Zero /\ r_empty = TRUE /\ w_out_reg0 = Zero /\ w_out_reg1 = Zero
       /\ w_wire = Zero /\ r_wire = Zero)'
  BY DEF AsyncReset
<1> QED BY <1>1, ZeroCounted, PTL

\* The order of the pointers is kept by every edge.
LEMMA PointersStay ==
    ASSUME PointersInv, [Next]_vars
    PROVE  PointersInv'
<1>1. PICK w, p1, p0, pw, r, q1, q0, qw : Counted(w, p1, p0, pw, r, q1, q0, qw)
  BY DEF PointersInv
<1>2. ASSUME NEW vld, NEW word, InEdge(vld, word) PROVE PointersInv'
  <2>1. WriteEdge(vld /\ ~w_full, word)
    BY <1>2 DEF InEdge
  <2> QED BY <1>1, <2>1, WriteEdgeCounts DEF PointersInv
<1>3. ASSUME NEW rd, OutEdge(rd) PROVE PointersInv'
  <2>1. ReadEdge(OutEn(rd))
    BY <1>3 DEF OutEdge
  <2> QED BY <1>1, <2>1, ReadEdgeCounts DEF PointersInv
<1>4. ASSUME NEW vld, NEW word, NEW rd, InAndOutEdge(vld, word, rd) PROVE PointersInv'
  <2>1. BothEdges(vld /\ ~w_full, word, OutEn(rd))
    BY <1>4 DEF InAndOutEdge
  <2> QED BY <1>1, <2>1, BothEdgesCount DEF PointersInv
<1>5. ASSUME NEW vld, NEW word, NEW rd, Reset(vld, word, rd) PROVE PointersInv'
  <2>1. AsyncReset(vld /\ ~w_full, word, OutEn(rd))
    BY <1>5 DEF Reset
  <2> QED BY <2>1, ResetCounts DEF PointersInv
<1>6. ASSUME UNCHANGED vars PROVE PointersInv'
  <2>1. (Counted(w, p1, p0, pw, r, q1, q0, qw))'
    BY <1>1, <1>6 DEF Counted, Numbered, Ordered, WriterHolds, ReaderHolds, WiresHold, vars, asyncVars,
       writeVars, readVars
  <2> QED BY <2>1 DEF PointersInv
<1> QED BY <1>2, <1>3, <1>4, <1>5, <1>6 DEF Next, NextWith

LEMMA PointersAlways ==
    Spec => []PointersInv
<1>1. Init => PointersInv
  <2> SUFFICES ASSUME Init PROVE PointersInv
    OBVIOUS
  <2>1. Counted(0, 0, 0, 0, 0, 0, 0, 0)
    BY ZeroCounted DEF Init, AsyncInit
  <2> QED BY <2>1 DEF PointersInv
<1>2. PointersInv /\ [Next]_vars => PointersInv'
  BY PointersStay
<1> QED BY <1>1, <1>2, PTL DEF Spec

\* The codes that cross from one clock to the other (mem/fifoAsync.py through
\* SignalCdcBuilder), torn samples included, stand for pointers the other side has held, and
\* none for an older one than the sample before it; no pointer is seen ahead of its own.
THEOREM SeenPointersStayInOrder ==
    Spec => []SeenPointersAreInOrder
<1>1. PointersInv => SeenPointersAreInOrder
  <2> SUFFICES ASSUME PointersInv PROVE SeenPointersAreInOrder
    OBVIOUS
  <2> USE Sizes
  <2>1. PICK w, p1, p0, pw, r, q1, q0, qw : Counted(w, p1, p0, pw, r, q1, q0, qw)
    BY DEF PointersInv
  <2>2. /\ w \in Nat /\ p1 \in Nat /\ p0 \in Nat /\ pw \in Nat
        /\ r \in Nat /\ q1 \in Nat /\ q0 \in Nat /\ qw \in Nat
        /\ r <= p1 /\ p1 <= p0 /\ p0 <= pw /\ pw <= w
        /\ w <= q1 + DEPTH /\ q1 <= q0 /\ q0 <= qw /\ qw <= r
    BY <2>1 DEF Counted, Numbered, Ordered
  <2>3. /\ w_bin = Ptr(w) /\ r_bin = Ptr(r) /\ w_wire = Code(pw) /\ r_wire = Code(qw)
        /\ w_out_reg0 = Code(p0) /\ w_out_reg1 = Code(p1)
        /\ r_out_reg0 = Code(q0) /\ r_out_reg1 = Code(q1)
    BY <2>1 DEF Counted, WriterHolds, ReaderHolds, WiresHold
  <2>4. /\ Ahead(r_bin, GrayToBin(w_out_reg1)) = p1 - r
        /\ Ahead(r_bin, GrayToBin(w_out_reg0)) = p0 - r
        /\ Ahead(r_bin, GrayToBin(w_wire)) = pw - r
        /\ Fill = w - r
    <3>1. /\ r <= p0 /\ r <= pw /\ r <= w
          /\ p1 - r < PTR_MOD /\ p0 - r < PTR_MOD /\ pw - r < PTR_MOD /\ w - r < PTR_MOD
      BY <2>2
    <3> QED BY <2>2, <2>3, <3>1, CodeStandsFor, CodesTellApart DEF Fill
  <2>5. /\ Ahead(GrayToBin(r_out_reg1), w_bin) = w - q1
        /\ Ahead(GrayToBin(r_out_reg0), w_bin) = w - q0
        /\ Ahead(GrayToBin(r_wire), w_bin) = w - qw
    <3>1. /\ q1 <= w /\ q0 <= w /\ qw <= w
          /\ w - q1 < PTR_MOD /\ w - q0 < PTR_MOD /\ w - qw < PTR_MOD
      BY <2>2
    <3> QED BY <2>2, <2>3, <3>1, CodeStandsFor, CodesTellApart
  <2> QED BY <2>2, <2>4, <2>5 DEF SeenPointersAreInOrder
<1> QED BY <1>1, PointersAlways, PTL


---------------------------------------------------------------------------
(* The stored words *)

Cells == Data \cup {Undef}

CellsInv ==
    /\ memory \in [0 .. DEPTH - 1 -> Cells]
    /\ r_reg \in Cells
    /\ out_vld \in BOOLEAN

IInv == PointersInv /\ CellsInv

\* n words from the r-th on.
Words(mem, r, n) == [i \in 1 .. n |-> mem[(r + i - 1) % DEPTH]]

LEMMA AddressType ==
    ASSUME NEW n \in Nat
    PROVE  n % DEPTH \in 0 .. DEPTH - 1 /\ Address(Ptr(n)) = n % DEPTH
<1>1. n % DEPTH \in 0 .. DEPTH - 1
  BY Sizes, DivMod
<1>2. Address(Ptr(n) + 0) = (n + 0) % DEPTH
  BY AddressOf
<1>3. Ptr(n) + 0 = Ptr(n) /\ n + 0 = n
  BY PtrType
<1> QED BY <1>1, <1>2, <1>3

LEMMA WordsAreSeq ==
    ASSUME NEW mem \in [0 .. DEPTH - 1 -> Cells], NEW r \in Nat, NEW n \in Nat
    PROVE  /\ Words(mem, r, n) \in Seq(Cells)
           /\ Len(Words(mem, r, n)) = n
           /\ \A i \in 1 .. n : Words(mem, r, n)[i] = mem[(r + i - 1) % DEPTH]
<1>1. ASSUME NEW i \in 1 .. n PROVE mem[(r + i - 1) % DEPTH] \in Cells
  <2>1. PICK k \in Nat : k = r + i - 1
    OBVIOUS
  <2>2. k % DEPTH \in 0 .. DEPTH - 1
    BY AddressType
  <2> QED BY <2>1, <2>2
<1>2. Words(mem, r, n) \in [1 .. n -> Cells]
  BY <1>1 DEF Words
<1>3. Words(mem, r, n) \in Seq(Cells)
  BY <1>2, SeqDef
<1>4. Len(Words(mem, r, n)) = n
  BY <1>2, <1>3, LenProperties
<1> QED BY <1>3, <1>4 DEF Words

LEMMA StoredIsWords ==
    ASSUME CellsInv,
           NEW w, NEW p1, NEW p0, NEW pw, NEW r, NEW q1, NEW q0, NEW qw,
           Counted(w, p1, p0, pw, r, q1, q0, qw)
    PROVE  /\ Stored = Words(memory, r, w - r)
           /\ Stored \in Seq(Cells)
           /\ Len(Stored) = w - r
           /\ w - r \in 0 .. DEPTH
<1>1. w \in Nat /\ r \in Nat /\ w - r \in 0 .. DEPTH /\ w - r \in Nat
  BY Sizes DEF Counted, Numbered, Ordered
<1>2. w_bin = Ptr(w) /\ r_bin = Ptr(r)
  BY DEF Counted, WriterHolds, ReaderHolds
<1>3. Fill = w - r
  <2>1. r <= w /\ w - r < PTR_MOD
    BY <1>1, Sizes
  <2> QED BY <1>1, <1>2, <2>1, CodesTellApart DEF Fill
<1>4. ASSUME NEW i \in 1 .. w - r
      PROVE  Address(r_bin + i - 1) = (r + i - 1) % DEPTH
  <2>1. PICK k \in Nat : k = i - 1
    BY <1>1
  <2>2. r_bin + i - 1 = Ptr(r) + k /\ r + i - 1 = r + k
    BY <1>1, <1>2, <2>1, PtrType
  <2> QED BY <1>1, <2>2, AddressOf
<1>5. Stored = Words(memory, r, w - r)
  BY <1>3, <1>4 DEF Stored, Words
<1> QED BY <1>1, <1>5, WordsAreSeq DEF CellsInv

LEMMA WordsWritten ==
    ASSUME NEW mem \in [0 .. DEPTH - 1 -> Cells], NEW r \in Nat, NEW n \in Nat, n < DEPTH,
           NEW word \in Cells
    PROVE  Words([mem EXCEPT ![(r + n) % DEPTH] = word], r, n + 1)
              = Append(Words(mem, r, n), word)
<1> DEFINE new == [mem EXCEPT ![(r + n) % DEPTH] = word]
           old == Words(mem, r, n)
<1>1. (r + n) % DEPTH \in 0 .. DEPTH - 1
  BY AddressType
<1>2. new \in [0 .. DEPTH - 1 -> Cells] /\ new[(r + n) % DEPTH] = word
  BY <1>1
<1>3. old \in Seq(Cells) /\ Len(old) = n /\ \A i \in 1 .. n : old[i] = mem[(r + i - 1) % DEPTH]
  BY WordsAreSeq
<1>4. /\ Words(new, r, n + 1) \in Seq(Cells) /\ Len(Words(new, r, n + 1)) = n + 1
      /\ \A i \in 1 .. n + 1 : Words(new, r, n + 1)[i] = new[(r + i - 1) % DEPTH]
  <2>1. n + 1 \in Nat
    OBVIOUS
  <2> HIDE DEF new
  <2> QED BY <1>2, <2>1, WordsAreSeq
<1>5. ASSUME NEW i \in 1 .. n
      PROVE  new[(r + i - 1) % DEPTH] = mem[(r + i - 1) % DEPTH]
  <2>1. PICK k \in Nat : k = r + i - 1 /\ k < r + n /\ (r + n) - k < DEPTH
    BY Sizes
  <2>2. k % DEPTH \in 0 .. DEPTH - 1
    BY <2>1, AddressType
  <2>3. k % DEPTH # (r + n) % DEPTH
    <3>1. r + n \in Nat
      OBVIOUS
    <3> QED BY <2>1, <3>1, AddressesDiffer
  <2> QED BY <2>1, <2>2, <2>3
<1>6. new[(r + (n + 1) - 1) % DEPTH] = word
  <2>1. r + (n + 1) - 1 = r + n
    OBVIOUS
  <2> QED BY <1>2, <2>1
<1>7. Append(old, word) \in Seq(Cells) /\ Len(Append(old, word)) = n + 1
      /\ (\A i \in 1 .. n : Append(old, word)[i] = old[i]) /\ Append(old, word)[n + 1] = word
  <2> HIDE DEF old
  <2> QED BY <1>3, AppendProperties
<1> HIDE DEF new, old
<1>8. ASSUME NEW i \in 1 .. n + 1
      PROVE  Words(new, r, n + 1)[i] = Append(old, word)[i]
  <2>1. CASE i \in 1 .. n
    BY <1>3, <1>4, <1>5, <1>7, <2>1
  <2>2. CASE i = n + 1
    BY <1>4, <1>6, <1>7, <2>2
  <2>3. i \in 1 .. n \/ i = n + 1
    OBVIOUS
  <2> QED BY <2>1, <2>2, <2>3
<1>9. Words(new, r, n + 1) = Append(old, word)
  BY <1>4, <1>7, <1>8, SeqEqual
<1> QED BY <1>9 DEF new, old

LEMMA WordsRead ==
    ASSUME NEW mem \in [0 .. DEPTH - 1 -> Cells], NEW r \in Nat, NEW n \in Nat, n > 0
    PROVE  /\ Words(mem, r, n) # <<>>
           /\ Head(Words(mem, r, n)) = mem[r % DEPTH]
           /\ Tail(Words(mem, r, n)) = Words(mem, r + 1, n - 1)
<1> DEFINE old == Words(mem, r, n)
           new == Words(mem, r + 1, n - 1)
<1>1. old \in Seq(Cells) /\ Len(old) = n /\ \A i \in 1 .. n : old[i] = mem[(r + i - 1) % DEPTH]
  BY WordsAreSeq
<1>2. /\ new \in Seq(Cells) /\ Len(new) = n - 1
      /\ \A i \in 1 .. n - 1 : new[i] = mem[((r + 1) + i - 1) % DEPTH]
  <2>1. n - 1 \in Nat /\ r + 1 \in Nat
    OBVIOUS
  <2> QED BY <2>1, WordsAreSeq
<1>3. old[1] = mem[r % DEPTH]
  <2>1. r + 1 - 1 = r /\ 1 \in 1 .. n
    OBVIOUS
  <2> QED BY <1>1, <2>1
<1> HIDE DEF old, new
<1>4. old # <<>>
  BY <1>1
<1>5. /\ Head(old) = old[1] /\ Tail(old) \in Seq(Cells) /\ Len(Tail(old)) = n - 1
      /\ \A i \in 1 .. n - 1 : Tail(old)[i] = old[i + 1]
  BY <1>1, <1>4, HeadTailProperties
<1>6. ASSUME NEW i \in 1 .. n - 1 PROVE Tail(old)[i] = new[i]
  <2>1. i + 1 \in 1 .. n /\ r + (i + 1) - 1 = (r + 1) + i - 1
    OBVIOUS
  <2>2. old[i + 1] = mem[(r + (i + 1) - 1) % DEPTH]
    BY <1>1, <2>1
  <2> QED BY <1>2, <1>5, <2>1, <2>2
<1>7. Tail(old) = new
  BY <1>2, <1>5, <1>6, SeqEqual
<1> QED BY <1>3, <1>4, <1>5, <1>7 DEF old, new

---------------------------------------------------------------------------
(* Sequences with a word in front *)

LEMMA Cons ==
    ASSUME NEW d \in Cells, NEW s \in Seq(Cells)
    PROVE  /\ <<d>> \o s \in Seq(Cells)
           /\ Len(<<d>> \o s) = Len(s) + 1
           /\ <<d>> \o s # <<>>
           /\ Head(<<d>> \o s) = d
           /\ Tail(<<d>> \o s) = s
           /\ \A e \in Cells : <<d>> \o Append(s, e) = Append(<<d>> \o s, e)
<1> DEFINE ds == <<d>> \o s
<1>1. <<d>> \in Seq(Cells) /\ Len(<<d>>) = 1 /\ <<d>>[1] = d
  OBVIOUS
<1>2. /\ ds \in Seq(Cells)
      /\ Len(ds) = Len(s) + 1
      /\ \A i \in 1 .. Len(s) + 1 : ds[i] = IF i <= 1 THEN d ELSE s[i - 1]
  <2>1. /\ ds \in Seq(Cells)
        /\ Len(ds) = Len(<<d>>) + Len(s)
        /\ \A i \in 1 .. Len(<<d>>) + Len(s) :
              ds[i] = IF i <= Len(<<d>>) THEN <<d>>[i] ELSE s[i - Len(<<d>>)]
    BY <1>1, ConcatProperties
  <2>2. Len(s) \in Nat /\ Len(<<d>>) + Len(s) = Len(s) + 1
    BY <1>1
  <2>3. ASSUME NEW i \in 1 .. Len(s) + 1
        PROVE  ds[i] = IF i <= 1 THEN d ELSE s[i - 1]
    <3>1. i \in 1 .. Len(<<d>>) + Len(s)
      BY <2>2
    <3>2. ds[i] = IF i <= Len(<<d>>) THEN <<d>>[i] ELSE s[i - Len(<<d>>)]
      BY <2>1, <3>1
    <3>3. i <= 1 => i = 1
      BY <2>2
    <3> QED BY <1>1, <3>2, <3>3
  <2> QED BY <2>1, <2>2, <2>3
<1>3. Len(s) \in Nat
  OBVIOUS
<1> HIDE DEF ds
<1>4. ds # <<>> /\ Head(ds) = d
  BY <1>2, <1>3
<1>5. Tail(ds) = s
  <2>1. /\ Tail(ds) \in Seq(Cells)
        /\ Len(Tail(ds)) = Len(s)
        /\ \A i \in 1 .. Len(Tail(ds)) : Tail(ds)[i] = ds[i + 1]
    BY <1>2, <1>3, <1>4, HeadTailProperties
  <2>2. \A i \in 1 .. Len(s) : ds[i + 1] = s[i]
    <3>1. \A i \in 1 .. Len(s) : i + 1 \in 1 .. Len(s) + 1 /\ ~(i + 1 <= 1) /\ i + 1 - 1 = i
      BY <1>3
    <3> QED BY <1>2, <3>1
  <2> QED BY <2>1, <2>2, SeqEqual
<1>6. ASSUME NEW e \in Cells
      PROVE  <<d>> \o Append(s, e) = Append(ds, e)
  <2>1. Append(s, e) = s \o <<e>> /\ Append(ds, e) = ds \o <<e>>
    BY <1>2, AppendIsConcat
  <2>2. <<e>> \in Seq(Cells)
    OBVIOUS
  <2>3. (<<d>> \o s) \o <<e>> = <<d>> \o (s \o <<e>>)
    BY <1>1, <2>2, ConcatAssociative
  <2> QED BY <2>1, <2>3 DEF ds
<1> QED BY <1>2, <1>4, <1>5, <1>6 DEF ds

\* A sequence is its head in front of its tail.
LEMMA Uncons ==
    ASSUME NEW s \in Seq(Cells), s # <<>>
    PROVE  Head(s) \in Cells /\ Tail(s) \in Seq(Cells) /\ <<Head(s)>> \o Tail(s) = s
<1>1. Head(s) \in Cells /\ Tail(s) \in Seq(Cells)
  BY HeadTailProperties
<1>2. s = <<s[1]>> \o SubSeq(s, 2, Len(s))
  <2>1. 1 \in 1 .. Len(s) /\ Len(s) \in 1 .. Len(s)
    BY EmptySeq
  <2>2. SubSeq(s, 1, Len(s)) = <<s[1]>> \o SubSeq(s, 1 + 1, Len(s))
    BY <2>1, SubSeqRecursiveFirst
  <2> QED BY <2>2, SubSeqFull
<1>3. Tail(s) = SubSeq(s, 2, Len(s))
  BY TailIsSubSeq
<1>4. Head(s) = s[1]
  OBVIOUS
<1> QED BY <1>1, <1>2, <1>3, <1>4

\* The register out_vld and the output word extend the ring by one place: a word moves into
\* it without changing what is inside, and leaves when the consumer is ready.
Staged(st, reg, v, empty, rd, v2, reg2, rest, all) ==
    /\ st \in Seq(Cells) /\ reg \in Cells /\ v \in BOOLEAN /\ empty \in BOOLEAN
    /\ rd \in BOOLEAN /\ (~empty => st # <<>>)
    /\ v2 = IF rd \/ ~v THEN ~empty ELSE v
    /\ reg2 = IF (rd \/ ~v) /\ ~empty THEN Head(st) ELSE reg
    /\ rest = IF (rd \/ ~v) /\ ~empty THEN Tail(st) ELSE st
    /\ all = (IF v THEN <<reg>> ELSE <<>>) \o st

Restaged(st, reg, v, rd, v2, reg2, rest, all) ==
    /\ all \in Seq(Cells) /\ rest \in Seq(Cells) /\ reg2 \in Cells
    /\ v => all # <<>> /\ Head(all) = reg
    /\ Len(all) <= Len(st) + 1
    /\ (IF v2 THEN <<reg2>> ELSE <<>>) \o rest = IF v /\ rd THEN Tail(all) ELSE all

LEMMA OutputStage ==
    ASSUME NEW st, NEW reg, NEW v, NEW empty, NEW rd, NEW v2, NEW reg2, NEW rest, NEW all,
           Staged(st, reg, v, empty, rd, v2, reg2, rest, all)
    PROVE  Restaged(st, reg, v, rd, v2, reg2, rest, all)
<1> USE DEF Staged, Restaged
<1>1. /\ v => /\ all \in Seq(Cells) /\ all # <<>> /\ Head(all) = reg /\ Tail(all) = st
              /\ Len(all) = Len(st) + 1
      /\ ~v => all = st
  BY Cons, ConcatEmptySeq
<1>2. ~empty => Head(st) \in Cells /\ Tail(st) \in Seq(Cells) /\ <<Head(st)>> \o Tail(st) = st
  BY Uncons
<1>3. rest \in Seq(Cells) /\ reg2 \in Cells
  BY <1>2
<1>4. <<>> \o rest = rest
  BY <1>3, ConcatEmptySeq
<1>5. Len(st) \in Nat
  BY LenProperties
<1>6. (IF v2 THEN <<reg2>> ELSE <<>>) \o rest = IF v /\ rd THEN Tail(all) ELSE all
  <2>1. CASE (rd \/ ~v) /\ ~empty
    <3>1. (IF v2 THEN <<reg2>> ELSE <<>>) \o rest = st
      BY <1>2, <2>1
    <3> QED BY <1>1, <2>1, <3>1
  <2>2. CASE (rd \/ ~v) /\ empty
    <3>1. (IF v2 THEN <<reg2>> ELSE <<>>) \o rest = st
      BY <1>4, <2>2
    <3> QED BY <1>1, <2>2, <3>1
  <2>3. CASE ~(rd \/ ~v)
    BY <2>3
  <2> QED BY <2>1, <2>2, <2>3
<1>7. all \in Seq(Cells) /\ Len(all) <= Len(st) + 1
  BY <1>1, <1>5
<1> QED BY <1>1, <1>3, <1>6, <1>7

---------------------------------------------------------------------------
(* What the edges do to the stored words *)

LEMMA StoredThen ==
    \A w, p1, p0, pw, r, q1, q0, qw :
       CellsInv' /\ Counted(w, p1, p0, pw, r, q1, q0, qw)' => Stored' = Words(memory', r, w - r)
<1>1. \A w, p1, p0, pw, r, q1, q0, qw :
         CellsInv /\ Counted(w, p1, p0, pw, r, q1, q0, qw) => Stored = Words(memory, r, w - r)
  BY StoredIsWords
<1>2. (\A w, p1, p0, pw, r, q1, q0, qw :
         CellsInv /\ Counted(w, p1, p0, pw, r, q1, q0, qw) => Stored = Words(memory, r, w - r))'
  BY <1>1, PTL
<1> QED BY <1>2

\* One cycle of the ring with the enables of its two sides.
LEMMA RingEdge ==
    ASSUME CellsInv, CellsInv',
           NEW w, NEW p1, NEW p0, NEW pw, NEW r, NEW q1, NEW q0, NEW qw,
           Counted(w, p1, p0, pw, r, q1, q0, qw),
           NEW v, NEW x1, NEW x0, NEW xw, NEW s, NEW y1, NEW y0, NEW yw,
           Counted(v, x1, x0, xw, s, y1, y0, yw)',
           NEW wen, NEW ren, NEW word, word \in Cells,
           Moved(w, r, v, s, wen, ren), WriteMemory(wen, word)
    PROVE  /\ Stored \in Seq(Cells) /\ Len(Stored) <= DEPTH
           /\ WriteEn(wen) => Len(Stored) < DEPTH
           /\ ~r_empty => Stored # <<>> /\ Head(Stored) = memory[Address(r_bin)]
           /\ WriteEn(wen) /\ ~r_empty => Address(w_bin) # Address(r_bin)
           /\ Stored' = LET rest == IF ReadEn(ren) THEN Tail(Stored) ELSE Stored
                        IN  IF WriteEn(wen) THEN Append(rest, word) ELSE rest
<1> USE Sizes
<1>1. w \in Nat /\ r \in Nat /\ r <= w /\ w - r \in Nat /\ w - r \in 0 .. DEPTH
  BY DEF Counted, Numbered, Ordered
<1>2. /\ w_bin = Ptr(w) /\ r_bin = Ptr(r)
      /\ ~w_full => w - r < DEPTH
      /\ ~r_empty => r < w
  BY DEF Counted, Numbered, Ordered, WriterHolds, ReaderHolds
<1>3. Stored = Words(memory, r, w - r) /\ Stored \in Seq(Cells) /\ Len(Stored) = w - r
  BY StoredIsWords
<1>4. Stored' = Words(memory', s, v - s)
  BY StoredThen
<1>5. Address(w_bin) = w % DEPTH /\ Address(r_bin) = r % DEPTH
  BY <1>1, <1>2, AddressType
<1>6. memory \in [0 .. DEPTH - 1 -> Cells] /\ memory' \in [0 .. DEPTH - 1 -> Cells]
  BY DEF CellsInv
<1>7. PICK n \in Nat : n = w - r
  BY <1>1
<1>8. WriteEn(wen) => n < DEPTH
  BY <1>2, <1>7 DEF WriteEn
<1>9. WriteEn(wen) /\ ~r_empty => Address(w_bin) # Address(r_bin)
  BY <1>1, <1>2, <1>5, <1>7, <1>8, AddressesDiffer
<1>10. Stored = Words(memory, r, n)
  BY <1>3, <1>7
<1>11. ~r_empty => /\ n > 0 /\ Stored # <<>> /\ Head(Stored) = memory[Address(r_bin)]
                  /\ Tail(Stored) = Words(memory, r + 1, n - 1)
  <2>1. ~r_empty => n > 0
    BY <1>1, <1>2, <1>7
  <2> SUFFICES ASSUME ~r_empty
               PROVE  /\ Stored # <<>> /\ Head(Stored) = memory[Address(r_bin)]
                      /\ Tail(Stored) = Words(memory, r + 1, n - 1)
    BY <2>1
  <2>2. r \in Nat /\ n \in Nat /\ n > 0 /\ memory \in [0 .. DEPTH - 1 -> Cells]
    BY <1>1, <1>6, <1>7, <2>1
  <2>3. /\ Words(memory, r, n) # <<>> /\ Head(Words(memory, r, n)) = memory[r % DEPTH]
        /\ Tail(Words(memory, r, n)) = Words(memory, r + 1, n - 1)
    BY <2>2, WordsRead
  <2> QED BY <1>5, <1>10, <2>3
<1>12. WriteEn(wen) => Words(memory', r, n + 1) = Append(Stored, word)
  <2> SUFFICES ASSUME WriteEn(wen) PROVE Words(memory', r, n + 1) = Append(Stored, word)
    OBVIOUS
  <2>1. memory' = [memory EXCEPT ![(r + n) % DEPTH] = word]
    <3>1. r + n = w
      BY <1>1, <1>7
    <3> QED BY <1>5, <3>1 DEF WriteMemory
  <2>2. r \in Nat /\ n \in Nat /\ n < DEPTH /\ memory \in [0 .. DEPTH - 1 -> Cells]
    BY <1>1, <1>6, <1>7, <1>8
  <2>3. Words([memory EXCEPT ![(r + n) % DEPTH] = word], r, n + 1)
           = Append(Words(memory, r, n), word)
    BY <2>2, WordsWritten
  <2> QED BY <1>10, <2>1, <2>3
<1>13. ~WriteEn(wen) => memory' = memory
  BY DEF WriteMemory
<1> DEFINE after == IF ReadEn(ren) THEN Tail(Stored) ELSE Stored
<1>14. Stored' = IF WriteEn(wen) THEN Append(after, word) ELSE after
  <2>1. CASE ~ReadEn(ren)
    <3>1. s = r /\ (WriteEn(wen) => v - s = n + 1) /\ (~WriteEn(wen) => v - s = n)
      BY <1>1, <1>7, <2>1 DEF Moved
    <3> QED BY <1>4, <1>10, <1>12, <1>13, <2>1, <3>1
  <2>2. CASE ReadEn(ren) /\ ~WriteEn(wen)
    <3>1. ~r_empty /\ s = r + 1 /\ v - s = n - 1
      BY <1>1, <1>7, <2>2 DEF Moved, ReadEn
    <3> QED BY <1>4, <1>11, <1>13, <2>2, <3>1
  <2>3. CASE ReadEn(ren) /\ WriteEn(wen)
    <3>1. ~r_empty /\ s = r + 1 /\ v - s = n
      BY <1>1, <1>7, <2>3 DEF Moved, ReadEn
    <3>2. Tail(Words(memory', r, n + 1)) = Words(memory', r + 1, n)
      <4>1. PICK m \in Nat : m = n + 1 /\ m > 0 /\ m - 1 = n
        OBVIOUS
      <4>2. Tail(Words(memory', r, m)) = Words(memory', r + 1, m - 1)
        BY <1>1, <1>6, <4>1, WordsRead
      <4> QED BY <4>1, <4>2
    <3>3. Tail(Append(Stored, word)) = Stored'
      BY <1>4, <1>12, <2>3, <3>1, <3>2
    <3>4. Tail(Append(Stored, word)) = Append(Tail(Stored), word)
      <4>1. Stored # <<>>
        BY <1>11, <3>1
      <4>2. /\ Head(Stored) \in Cells /\ Tail(Stored) \in Seq(Cells)
            /\ <<Head(Stored)>> \o Tail(Stored) = Stored
        BY <1>3, <4>1, Uncons
      <4>3. <<Head(Stored)>> \o Append(Tail(Stored), word) = Append(Stored, word)
        BY <4>2, Cons
      <4>4. Append(Tail(Stored), word) \in Seq(Cells)
        BY <4>2, AppendProperties
      <4> QED BY <4>2, <4>3, <4>4, Cons
    <3> QED BY <2>3, <3>3, <3>4
  <2> QED BY <2>1, <2>2, <2>3
<1>15. Stored \in Seq(Cells) /\ Len(Stored) = n /\ n <= DEPTH
  BY <1>1, <1>3, <1>7
<1> HIDE DEF after
<1>16. Stored' = LET rest == IF ReadEn(ren) THEN Tail(Stored) ELSE Stored
                 IN  IF WriteEn(wen) THEN Append(rest, word) ELSE rest
  BY <1>14 DEF after
<1> QED BY <1>8, <1>9, <1>11, <1>15, <1>16

\* The memory and the output register only ever hold words or Undef.
LEMMA CellsStay ==
    ASSUME IInv, [Next]_vars
    PROVE  CellsInv'
<1> USE Sizes
<1>1. PICK w, p1, p0, pw, r, q1, q0, qw : Counted(w, p1, p0, pw, r, q1, q0, qw)
  BY DEF IInv, PointersInv
<1>2. w \in Nat /\ r \in Nat /\ w_bin = Ptr(w) /\ r_bin = Ptr(r) /\ r_empty \in BOOLEAN
  BY <1>1 DEF Counted, Numbered, WriterHolds, ReaderHolds
<1>3. Address(w_bin) \in 0 .. DEPTH - 1 /\ Address(r_bin) \in 0 .. DEPTH - 1
  BY <1>2, AddressType
<1>4. CellsInv /\ memory \in [0 .. DEPTH - 1 -> Cells] /\ r_reg \in Cells /\ out_vld \in BOOLEAN
  BY DEF IInv, CellsInv
<1>5. memory[Address(r_bin)] \in Cells /\ \A en : MemoryAnswer(en) \in Cells
  BY <1>3, <1>4 DEF MemoryAnswer, Cells
<1>6. ASSUME NEW en, NEW word \in Data, WriteMemory(en, word)
      PROVE  memory' \in [0 .. DEPTH - 1 -> Cells]
  BY <1>3, <1>4, <1>6 DEF WriteMemory, Cells
<1>7. ASSUME NEW rd \in BOOLEAN PROVE NextOutVld(rd) \in BOOLEAN
  BY <1>2, <1>4 DEF NextOutVld
<1>8. ASSUME NEW vld, NEW word \in Data, InEdge(vld, word) PROVE CellsInv'
  BY <1>4, <1>6, <1>8 DEF InEdge, WriteEdge, readVars, CellsInv
<1>9. ASSUME NEW rd \in BOOLEAN, OutEdge(rd) PROVE CellsInv'
  <2>1. r_reg' \in Cells
    BY <1>4, <1>5, <1>9 DEF OutEdge, ReadEdge, ReadRegisters
  <2> QED BY <1>4, <1>7, <1>9, <2>1 DEF OutEdge, ReadEdge, CellsInv
<1>10. ASSUME NEW vld, NEW word \in Data, NEW rd \in BOOLEAN, InAndOutEdge(vld, word, rd)
       PROVE  CellsInv'
  <2>1. r_reg' \in Cells
    BY <1>4, <1>5, <1>10 DEF InAndOutEdge, BothEdges, ReadRegisters
  <2> QED BY <1>4, <1>6, <1>7, <1>10, <2>1 DEF InAndOutEdge, BothEdges, CellsInv
<1>11. ASSUME NEW vld, NEW word \in Data, NEW rd, Reset(vld, word, rd) PROVE CellsInv'
  <2>1. r_reg' \in Cells
    BY <1>4, <1>5, <1>11 DEF Reset, AsyncReset
  <2> QED BY <1>4, <1>6, <1>11, <2>1 DEF Reset, AsyncReset, CellsInv
<1>12. ASSUME UNCHANGED vars PROVE CellsInv'
  BY <1>4, <1>12 DEF vars, asyncVars, readVars, CellsInv
<1> QED BY <1>8, <1>9, <1>10, <1>11, <1>12 DEF Next, NextWith

LEMMA IInvAlways ==
    Spec => []IInv
<1>1. Init => CellsInv
  BY Sizes DEF Init, AsyncInit, CellsInv, Cells
<1>2. IInv /\ [Next]_vars => CellsInv'
  BY CellsStay
<1>3. Spec => []PointersInv
  BY PointersAlways
<1> QED BY <1>1, <1>2, <1>3, PTL DEF Spec, IInv

---------------------------------------------------------------------------
(* What the edges do to the queue *)

\* A step puts word if put holds and takes the oldest one if take does.
QueueEdge(put, take, word) ==
    /\ take => Contents # <<>>
    /\ put => Len(Contents) < CAPACITY
    /\ in_xfer' = IF put THEN <<word>> ELSE <<>>
    /\ out_xfer' = IF take THEN <<Head(Contents)>> ELSE <<>>
    /\ Contents' = LET rest == IF take THEN Tail(Contents) ELSE Contents
                   IN  IF put THEN Append(rest, word) ELSE rest

LEMMA QueueEdgeNext ==
    ASSUME NEW put, NEW take, NEW word \in Data, QueueEdge(put, take, word)
    PROVE  queue!Next
<1>1. CASE put /\ take
  <2>1. queue!Pass(word)
    BY <1>1 DEF QueueEdge, queue!Pass
  <2> QED BY <2>1 DEF queue!Next
<1>2. CASE put /\ ~take
  <2>1. queue!Enqueue(word)
    BY <1>2 DEF QueueEdge, queue!Enqueue
  <2> QED BY <2>1 DEF queue!Next
<1>3. CASE ~put /\ take
  <2>1. queue!Dequeue
    BY <1>3 DEF QueueEdge, queue!Dequeue
  <2> QED BY <2>1 DEF queue!Next
<1>4. CASE ~put /\ ~take
  <2>1. queue!Idle
    BY <1>4 DEF QueueEdge, queue!Idle
  <2> QED BY <2>1 DEF queue!Next
<1> QED BY <1>1, <1>2, <1>3, <1>4

\* The output register at an edge of dataOut_clk.
OutputMoves(rd) ==
    /\ out_vld' = NextOutVld(rd)
    /\ r_reg' = IF ReadEn(OutEn(rd)) THEN Head(Stored) ELSE r_reg

StoredMoves(put, get, word) ==
    /\ Stored \in Seq(Cells)
    /\ Len(Stored) <= DEPTH
    /\ put => Len(Stored) < DEPTH
    /\ r_empty \in BOOLEAN
    /\ ~r_empty => Stored # <<>>
    /\ Stored' = LET rest == IF get THEN Tail(Stored) ELSE Stored
                 IN  IF put THEN Append(rest, word) ELSE rest

LEMMA OutputContents ==
    ASSUME CellsInv, NEW rd \in BOOLEAN, NEW word \in Cells, NEW put, put \in BOOLEAN,
           NEW get, get = ReadEn(OutEn(rd)), StoredMoves(put, get, word), OutputMoves(rd),
           in_xfer' = IF put THEN <<word>> ELSE <<>>, out_xfer' = HandedOver(rd)
    PROVE  QueueEdge(put, out_vld /\ rd, word)
<1> USE Sizes
<1>1. /\ Stored \in Seq(Cells) /\ Len(Stored) <= DEPTH /\ (put => Len(Stored) < DEPTH)
      /\ r_empty \in BOOLEAN /\ (~r_empty => Stored # <<>>)
  BY DEF StoredMoves
<1>2. out_vld \in BOOLEAN /\ r_reg \in Cells
  BY DEF CellsInv
<1>3. get <=> (rd \/ ~out_vld) /\ ~r_empty
  BY DEF ReadEn, OutEn
<1>4. PICK rest : rest = IF (rd \/ ~out_vld) /\ ~r_empty THEN Tail(Stored) ELSE Stored
  OBVIOUS
<1>5. Stored' = IF put THEN Append(rest, word) ELSE rest
  BY <1>3, <1>4 DEF StoredMoves
<1>6. PICK v2 : v2 = IF rd \/ ~out_vld THEN ~r_empty ELSE out_vld
  OBVIOUS
<1>7. PICK reg2 : reg2 = IF (rd \/ ~out_vld) /\ ~r_empty THEN Head(Stored) ELSE r_reg
  OBVIOUS
<1>8. out_vld' = v2 /\ r_reg' = reg2
  BY <1>6, <1>7 DEF OutputMoves, NextOutVld, ReadEn, OutEn
<1>9. PICK all : all = (IF out_vld THEN <<r_reg>> ELSE <<>>) \o Stored
  OBVIOUS
<1>10. PICK left : left = IF out_vld /\ rd THEN Tail(all) ELSE all
  OBVIOUS
<1>11. /\ all \in Seq(Cells) /\ rest \in Seq(Cells) /\ reg2 \in Cells
       /\ out_vld => all # <<>> /\ Head(all) = r_reg
       /\ Len(all) <= Len(Stored) + 1
       /\ (IF v2 THEN <<reg2>> ELSE <<>>) \o rest = left
  <2>1. Staged(Stored, r_reg, out_vld, r_empty, rd, v2, reg2, rest, all)
    BY <1>1, <1>2, <1>4, <1>6, <1>7, <1>9, Zenon DEF Staged
  <2>2. Restaged(Stored, r_reg, out_vld, rd, v2, reg2, rest, all)
    BY <2>1, OutputStage
  <2> QED BY <1>10, <2>2 DEF Restaged
<1>12. Contents = all
  BY <1>9 DEF Contents
<1>13. Contents' = (IF v2 THEN <<reg2>> ELSE <<>>) \o Stored'
  BY <1>8 DEF Contents
<1>14. put => Contents' = Append(left, word)
  <2> SUFFICES ASSUME put PROVE Contents' = Append(left, word)
    OBVIOUS
  <2>1. Contents' = (IF v2 THEN <<reg2>> ELSE <<>>) \o Append(rest, word)
    BY <1>5, <1>13
  <2>2. CASE v2
    <3>1. <<reg2>> \o Append(rest, word) = Append(<<reg2>> \o rest, word)
      BY <1>11, Cons
    <3> QED BY <1>11, <2>1, <2>2, <3>1
  <2>3. CASE ~v2
    <3>1. Append(rest, word) \in Seq(Cells)
      BY <1>11, AppendProperties
    <3>2. <<>> \o Append(rest, word) = Append(rest, word) /\ <<>> \o rest = rest
      BY <1>11, <3>1, ConcatEmptySeq
    <3> QED BY <1>11, <2>1, <2>3, <3>2
  <2> QED BY <2>2, <2>3
<1>15. ~put => Contents' = left
  BY <1>5, <1>11, <1>13
<1>16. put => Len(Contents) < CAPACITY
  <2>1. Len(Stored) \in Nat /\ Len(all) \in Nat
    BY <1>1, <1>11, LenProperties
  <2> QED BY <1>1, <1>11, <1>12, <2>1 DEF CAPACITY
<1>17. out_vld /\ rd => Contents # <<>>
  BY <1>11, <1>12
<1>18. out_xfer' = IF out_vld /\ rd THEN <<Head(Contents)>> ELSE <<>>
  BY <1>11, <1>12 DEF HandedOver, NoTransfer
<1>19. Contents' = LET rst2 == IF out_vld /\ rd THEN Tail(Contents) ELSE Contents
                   IN  IF put THEN Append(rst2, word) ELSE rst2
  BY <1>10, <1>12, <1>14, <1>15
<1> QED BY <1>16, <1>17, <1>18, <1>19 DEF QueueEdge

\* Nothing moves at the output.
LEMMA InputContents ==
    ASSUME CellsInv, NEW word \in Cells, NEW put, put \in BOOLEAN,
           StoredMoves(put, FALSE, word), UNCHANGED <<out_vld, r_reg>>,
           in_xfer' = IF put THEN <<word>> ELSE <<>>, out_xfer' = <<>>
    PROVE  QueueEdge(put, FALSE, word)
<1> USE Sizes
<1>1. Stored \in Seq(Cells) /\ Len(Stored) <= DEPTH /\ (put => Len(Stored) < DEPTH)
  BY DEF StoredMoves
<1>2. out_vld \in BOOLEAN /\ r_reg \in Cells
  BY DEF CellsInv
<1>3. Stored' = IF put THEN Append(Stored, word) ELSE Stored
  BY DEF StoredMoves
<1>4. Append(Stored, word) \in Seq(Cells)
  BY <1>1, AppendProperties
<1>5. /\ out_vld => /\ Contents = <<r_reg>> \o Stored /\ Contents' = <<r_reg>> \o Stored'
      /\ ~out_vld => Contents = <<>> \o Stored /\ Contents' = <<>> \o Stored'
  BY DEF Contents
<1>6. <<>> \o Stored = Stored /\ <<>> \o Append(Stored, word) = Append(Stored, word)
  BY <1>1, <1>4, ConcatEmptySeq
<1>7. <<r_reg>> \o Append(Stored, word) = Append(<<r_reg>> \o Stored, word)
      /\ Len(<<r_reg>> \o Stored) = Len(Stored) + 1
  BY <1>1, <1>2, Cons
<1>8. Contents' = IF put THEN Append(Contents, word) ELSE Contents
  BY <1>2, <1>3, <1>5, <1>6, <1>7
<1>9. put => Len(Contents) < CAPACITY
  <2>1. Len(Stored) \in Nat
    BY <1>1, LenProperties
  <2> QED BY <1>1, <1>2, <1>5, <1>6, <1>7, <2>1 DEF CAPACITY
<1> QED BY <1>8, <1>9 DEF QueueEdge

\* The edges are queue steps.
LEMMA InEdgeQueue ==
    ASSUME IInv, IInv', NEW vld \in BOOLEAN, NEW word \in Data, InEdge(vld, word)
    PROVE  queue!Next
<1> DEFINE wen == vld /\ ~w_full
<1>1. CellsInv /\ CellsInv' /\ word \in Cells
  BY DEF IInv, Cells
<1>2. PICK w, p1, p0, pw, r, q1, q0, qw : Counted(w, p1, p0, pw, r, q1, q0, qw)
  BY DEF IInv, PointersInv
<1>3. WriteEdge(wen, word) /\ UNCHANGED <<out_vld, r_reg>>
  BY DEF InEdge, WriteEdge, readVars
<1>4. PICK v, y0, yw : /\ Counted(v, p1, p0, w, r, q0, y0, yw)'
                       /\ v = IF WriteEn(wen) THEN w + 1 ELSE w
  BY <1>2, <1>3, WriteEdgeCounts
<1>5. r_empty \in BOOLEAN /\ w_full \in BOOLEAN
  BY <1>2 DEF Counted, WriterHolds, ReaderHolds
<1>6. Moved(w, r, v, r, wen, FALSE) /\ ~ReadEn(FALSE)
  BY <1>4 DEF Moved, ReadEn
<1>7. WriteMemory(wen, word)
  BY <1>3 DEF WriteEdge
<1>8. PICK put : put \in BOOLEAN /\ (put <=> vld /\ ~w_full)
  OBVIOUS
<1>9. WriteEn(wen) <=> put
  BY <1>8 DEF WriteEn
<1> HIDE DEF wen
<1>10. StoredMoves(put, FALSE, word)
  BY <1>1, <1>2, <1>4, <1>5, <1>6, <1>7, <1>8, <1>9, RingEdge DEF StoredMoves
<1>11. in_xfer' = (IF put THEN <<word>> ELSE <<>>) /\ out_xfer' = <<>>
  BY <1>8 DEF InEdge, Accepted, NoTransfer
<1>12. QueueEdge(put, FALSE, word)
  BY <1>1, <1>3, <1>8, <1>10, <1>11, InputContents
<1> QED BY <1>12, QueueEdgeNext

LEMMA OutEdgeQueue ==
    ASSUME IInv, IInv', NEW rd \in BOOLEAN, OutEdge(rd)
    PROVE  queue!Next
<1>1. CellsInv /\ CellsInv' /\ Undef \in Cells
  BY DEF IInv, Cells
<1>2. PICK w, p1, p0, pw, r, q1, q0, qw : Counted(w, p1, p0, pw, r, q1, q0, qw)
  BY DEF IInv, PointersInv
<1>3. ReadEdge(OutEn(rd)) /\ out_vld' = NextOutVld(rd)
  BY DEF OutEdge
<1>4. PICK s, x0, xw : /\ Counted(w, p0, x0, xw, s, q1, q0, r)'
                       /\ s = IF ReadEn(OutEn(rd)) THEN r + 1 ELSE r
  BY <1>2, <1>3, ReadEdgeCounts
<1>5. r_empty \in BOOLEAN
  BY <1>2 DEF Counted, ReaderHolds
<1>6. Moved(w, r, w, s, FALSE, OutEn(rd)) /\ ~WriteEn(FALSE)
  BY <1>4 DEF Moved, WriteEn
<1>7. WriteMemory(FALSE, Undef)
  BY <1>3, <1>6 DEF ReadEdge, WriteMemory
<1>8. PICK get : get = ReadEn(OutEn(rd))
  OBVIOUS
<1>9. /\ StoredMoves(FALSE, get, Undef)
      /\ ~r_empty => Head(Stored) = memory[Address(r_bin)]
  BY <1>1, <1>2, <1>4, <1>5, <1>6, <1>7, <1>8, RingEdge DEF StoredMoves
<1>10. OutputMoves(rd)
  <2>1. ReadEn(OutEn(rd)) => ~r_empty
    BY DEF ReadEn
  <2>2. r_reg' = IF ReadEn(OutEn(rd)) THEN memory[Address(r_bin)] ELSE r_reg
    BY <1>3 DEF ReadEdge, ReadRegisters
  <2> QED BY <1>3, <1>9, <2>1, <2>2 DEF OutputMoves
<1>11. in_xfer' = (IF FALSE THEN <<Undef>> ELSE <<>>) /\ out_xfer' = HandedOver(rd)
  BY DEF OutEdge, NoTransfer
<1>12. QueueEdge(FALSE, out_vld /\ rd, Undef)
  BY <1>1, <1>8, <1>9, <1>10, <1>11, OutputContents
<1>13. CASE out_vld /\ rd
  <2>1. queue!Dequeue
    BY <1>12, <1>13 DEF QueueEdge, queue!Dequeue
  <2> QED BY <2>1 DEF queue!Next
<1>14. CASE ~(out_vld /\ rd)
  <2>1. queue!Idle
    BY <1>12, <1>14 DEF QueueEdge, queue!Idle
  <2> QED BY <2>1 DEF queue!Next
<1> QED BY <1>13, <1>14

LEMMA InAndOutEdgeQueue ==
    ASSUME IInv, IInv', NEW vld \in BOOLEAN, NEW word \in Data, NEW rd \in BOOLEAN,
           InAndOutEdge(vld, word, rd)
    PROVE  queue!Next
<1> DEFINE wen == vld /\ ~w_full
<1>1. CellsInv /\ CellsInv' /\ word \in Cells
  BY DEF IInv, Cells
<1>2. PICK w, p1, p0, pw, r, q1, q0, qw : Counted(w, p1, p0, pw, r, q1, q0, qw)
  BY DEF IInv, PointersInv
<1>3. BothEdges(wen, word, OutEn(rd)) /\ out_vld' = NextOutVld(rd)
  BY DEF InAndOutEdge
<1>4. PICK v, x0, xw, s, y0, yw :
         /\ Counted(v, p0, x0, xw, s, q0, y0, yw)'
         /\ Moved(w, r, v, s, wen, OutEn(rd))
  BY <1>2, <1>3, BothEdgesCount
<1>5. r_empty \in BOOLEAN /\ w_full \in BOOLEAN
  BY <1>2 DEF Counted, WriterHolds, ReaderHolds
<1>6. WriteMemory(wen, word)
  BY <1>3 DEF BothEdges
<1>7. PICK put : put \in BOOLEAN /\ (put <=> vld /\ ~w_full)
  OBVIOUS
<1>8. WriteEn(wen) <=> put
  BY <1>7 DEF WriteEn
<1>9. PICK get : get = ReadEn(OutEn(rd))
  OBVIOUS
<1> HIDE DEF wen
<1>10. /\ StoredMoves(put, get, word)
       /\ ~r_empty => Head(Stored) = memory[Address(r_bin)]
       /\ WriteEn(wen) /\ ~r_empty => Address(w_bin) # Address(r_bin)
  BY <1>1, <1>2, <1>4, <1>5, <1>6, <1>7, <1>8, <1>9, RingEdge DEF StoredMoves
<1>11. OutputMoves(rd)
  <2>1. ReadEn(OutEn(rd)) => ~r_empty
    BY DEF ReadEn
  <2>2. r_reg' = IF ReadEn(OutEn(rd)) THEN MemoryAnswer(wen) ELSE r_reg
    BY <1>3 DEF BothEdges, ReadRegisters
  <2>3. ~r_empty => MemoryAnswer(wen) = Head(Stored)
    BY <1>10 DEF MemoryAnswer
  <2> QED BY <1>3, <2>1, <2>2, <2>3 DEF OutputMoves
<1>12. in_xfer' = (IF put THEN <<word>> ELSE <<>>) /\ out_xfer' = HandedOver(rd)
  BY <1>7 DEF InAndOutEdge, Accepted, NoTransfer
<1>13. QueueEdge(put, out_vld /\ rd, word)
  BY <1>1, <1>7, <1>9, <1>10, <1>11, <1>12, OutputContents
<1> QED BY <1>13, QueueEdgeNext

LEMMA EmptyContents ==
    CellsInv /\ Counted(0, 0, 0, 0, 0, 0, 0, 0) /\ out_vld = FALSE => Contents = <<>>
<1> SUFFICES ASSUME CellsInv, Counted(0, 0, 0, 0, 0, 0, 0, 0), out_vld = FALSE
             PROVE  Contents = <<>>
  OBVIOUS
<1>1. Stored \in Seq(Cells) /\ Len(Stored) = 0 - 0
  BY StoredIsWords
<1>2. Stored = <<>>
  BY <1>1, EmptySeq
<1> QED BY <1>2 DEF Contents

\* The FIFO between two clocks implements the bounded queue, for every address width, every
\* set of words and any relation of the clocks: no word is lost, repeated, reordered,
\* overwritten before it is read or read before it is written, though each side knows the
\* pointer of the other only late and through samples that may be torn.
THEOREM ImplementsQueue ==
    Spec => QueueSpec
<1>1. Init => queue!Init
  <2> SUFFICES ASSUME Init PROVE queue!Init
    OBVIOUS
  <2>1. Counted(0, 0, 0, 0, 0, 0, 0, 0)
    BY ZeroCounted DEF Init, AsyncInit
  <2>2. CellsInv
    BY Sizes DEF Init, AsyncInit, CellsInv, Cells
  <2>3. Contents = <<>>
    BY <2>1, <2>2, EmptyContents DEF Init
  <2> QED BY <2>3 DEF Init, NoTransfer, queue!Init
<1>2. IInv /\ IInv' /\ [Next]_vars => [queue!Next]_(queue!vars)
  <2> SUFFICES ASSUME IInv, IInv', Next PROVE queue!Next
    <3>1. UNCHANGED vars => UNCHANGED queue!vars
      BY DEF vars, asyncVars, readVars, writeVars, queue!vars, Contents, Stored, Fill
    <3> QED BY <3>1
  <2>1. ASSUME NEW vld \in BOOLEAN, NEW word \in Data, NEW rd \in BOOLEAN, Reset(vld, word, rd)
        PROVE  queue!Next
    <3>1. CellsInv' /\ Counted(0, 0, 0, 0, 0, 0, 0, 0)' /\ out_vld' = FALSE
      BY <2>1, ResetCounts DEF Reset, IInv
    <3>2. Contents' = <<>>
      <4>1. (CellsInv /\ Counted(0, 0, 0, 0, 0, 0, 0, 0) /\ out_vld = FALSE => Contents = <<>>)'
        BY EmptyContents, PTL
      <4> QED BY <3>1, <4>1
    <3>3. queue!Clear
      BY <2>1, <3>2 DEF Reset, NoTransfer, queue!Clear
    <3> QED BY <3>3 DEF queue!Next
  <2> QED BY <2>1, InEdgeQueue, OutEdgeQueue, InAndOutEdgeQueue DEF Next, NextWith
<1>3. Spec => []IInv
  BY IInvAlways
<1> QED BY <1>1, <1>2, <1>3, PTL DEF Spec, QueueSpec, queue!Spec
===========================================================================
