----------------------------- MODULE RpcProofs -----------------------------
(***************************************************************************)
(* Proofs about the RPC backend (src/dynabridge/backends/rpc.h), for every    *)
(* base and width of the wire format, every set of names, ids, binders,      *)
(* signatures, calls and results.                                            *)
(*                                                                          *)
(* What a recursive function computes is shown in three steps: a witness is   *)
(* given explicitly or by RecursionExists, it satisfies the defining          *)
(* equation, and induction over the index (Induction and StrongInduction,     *)
(* which rest on the least element of a set of numbers) shows that nothing    *)
(* else does.                                                                *)
(*                                                                          *)
(*   codec    integers, texts, values, arguments and frames are read as they  *)
(*            were written, and what is read validly was written so           *)
(*   link     DecodersInvert and FramesArrive                                *)
(*   table    OneOwner: the routes are sorted and own their binders           *)
(*   call     LastDefinedServes and FaithfulCalls                            *)
(***************************************************************************)
EXTENDS MCRpc, WellFoundedInduction, FiniteSetTheorems, SequenceTheorems, TLAPS

-----------------------------------------------------------------------------
(* Induction and recursion over the natural numbers.                        *)

\* A set of natural numbers with a member has a least one.
LEMMA Least ==
  ASSUME NEW T, T \subseteq Nat, T # {}
  PROVE  \E x \in T : \A y \in T : x <= y
<1> DEFINE R == {ss \in Nat \X Nat : ss[1] < ss[2]}
<1>1. IsWellFoundedOn(R, Nat)
  BY NatLessThanWellFounded DEF OpToRel
<1>2. PICK x \in T : \A y \in T : ~(<<y, x>> \in R)
  <2> HIDE DEF R
  <2> QED
    BY <1>1, WFMin
<1>3. ASSUME NEW y \in T PROVE x <= y
  <2>1. x \in Nat /\ y \in Nat
    OBVIOUS
  <2>2. ~(y < x)
    BY <1>2, <2>1
  <2>3. QED
    BY <2>1, <2>2
<1>4. QED
  BY <1>2, <1>3

\* Induction: a set of the numbers up to n that has 0 and every successor has them all.
LEMMA Induction ==
  ASSUME NEW n \in Nat, NEW T, 0 \in T, \A k \in 0..n - 1 : k \in T => k + 1 \in T
  PROVE  \A k \in 0..n : k \in T
<1> DEFINE S == {k \in 0..n : k \notin T}
<1>1. SUFFICES ASSUME S # {} PROVE FALSE
  OBVIOUS
<1>2. PICK k \in S : \A y \in S : k <= y
  <2>1. S \subseteq Nat
    OBVIOUS
  <2> HIDE DEF S
  <2>2. QED
    BY <1>1, <2>1, Least
<1>3. k \in 0..n /\ k \notin T /\ k # 0
  OBVIOUS
<1>4. k - 1 \in 0..n - 1 /\ k - 1 \in 0..n /\ k - 1 + 1 = k /\ ~(k <= k - 1)
  BY <1>3
<1>5. k - 1 \in T
  BY <1>2, <1>4
<1>6. QED
  BY <1>3, <1>4, <1>5

\* Strong induction.
LEMMA StrongInduction ==
  ASSUME NEW T, \A k \in Nat : (\A y \in Nat : y < k => y \in T) => k \in T
  PROVE  \A k \in Nat : k \in T
<1> DEFINE S == {k \in Nat : k \notin T}
<1>1. SUFFICES ASSUME S # {} PROVE FALSE
  OBVIOUS
<1>2. PICK k \in S : \A y \in S : k <= y
  <2>1. S \subseteq Nat
    OBVIOUS
  <2> HIDE DEF S
  <2>2. QED
    BY <1>1, <2>1, Least
<1>3. ASSUME NEW y \in Nat, y < k PROVE y \in T
  BY <1>2, <1>3
<1>4. QED
  BY <1>3

\* What fn has at 0..n is defined by recursion from a first element with a step.
Recurs(fn, n, first, step) ==
  fn[0] = first /\ \A i \in 1..n : fn[i] = step[<<i, fn[i - 1]>>]

\* Every step function has a function that it generates.
LEMMA RecursionExists ==
  ASSUME NEW n \in Nat, NEW X, NEW first \in X, NEW step \in [(1..n) \X X -> X]
  PROVE  \E fn \in [0..n -> X] : Recurs(fn, n, first, step)
<1> DEFINE T == {k \in 0..n : \E fn \in [0..k -> X] : Recurs(fn, k, first, step)}
<1>1. 0 \in T
  <2>1. [i \in 0..0 |-> first] \in [0..0 -> X]
    OBVIOUS
  <2>2. Recurs([i \in 0..0 |-> first], 0, first, step)
    BY DEF Recurs
  <2>3. QED
    BY <2>1, <2>2
<1>2. ASSUME NEW k \in 0..n - 1, k \in T PROVE k + 1 \in T
  <2>1. PICK fn \in [0..k -> X] : Recurs(fn, k, first, step)
    BY <1>2
  <2>2. k \in 0..k /\ k + 1 \in 1..n /\ k + 1 \in 0..n /\ k \in Nat
    OBVIOUS
  <2>3. fn[k] \in X
    BY <2>1, <2>2
  <2>4. PICK e \in X : e = step[<<k + 1, fn[k]>>]
    BY <2>2, <2>3
  <2>5. PICK gn \in [0..k + 1 -> X] :
          gn[k + 1] = e /\ \A i \in 0..k : gn[i] = fn[i]
    <3> DEFINE ext == [i \in 0..k + 1 |-> IF i = k + 1 THEN e ELSE fn[i]]
    <3>1. ext \in [0..k + 1 -> X]
      BY <2>1, <2>2
    <3>2. ext[k + 1] = e /\ \A i \in 0..k : ext[i] = fn[i]
      BY <2>2
    <3>3. QED
      BY <3>1, <3>2
  <2>6. gn[0] = first
    BY <2>1, <2>2, <2>5 DEF Recurs
  <2>7. ASSUME NEW i \in 1..k + 1 PROVE gn[i] = step[<<i, gn[i - 1]>>]
    <3>1. CASE i = k + 1
      <4>1. gn[i - 1] = fn[k]
        BY <2>2, <2>5, <3>1
      <4>2. QED
        BY <2>4, <2>5, <3>1, <4>1
    <3>2. CASE i # k + 1
      <4>1. i \in 1..k /\ i \in 0..k /\ i - 1 \in 0..k
        BY <2>2, <3>2
      <4>2. QED
        BY <2>1, <2>5, <4>1 DEF Recurs
    <3>3. QED
      BY <3>1, <3>2
  <2>8. Recurs(gn, k + 1, first, step)
    BY <2>6, <2>7 DEF Recurs
  <2>9. QED
    BY <2>2, <2>5, <2>8
<1>3. \A k \in 0..n : k \in T
  <2> HIDE DEF T
  <2> QED
    BY <1>1, <1>2, Induction
<1>4. n \in T
  BY <1>3
<1>5. QED
  BY <1>4

\* It generates one only.
LEMMA RecursionUnique ==
  ASSUME NEW n \in Nat, NEW first, NEW step, NEW fn, NEW gn,
         Recurs(fn, n, first, step), Recurs(gn, n, first, step)
  PROVE  \A k \in 0..n : fn[k] = gn[k]
<1> DEFINE T == {k \in 0..n : fn[k] = gn[k]}
<1>1. 0 \in T
  BY DEF Recurs
<1>2. ASSUME NEW k \in 0..n - 1, k \in T PROVE k + 1 \in T
  <2>1. k + 1 \in 1..n /\ k + 1 \in 0..n /\ k + 1 - 1 = k
    OBVIOUS
  <2>2. fn[k + 1] = step[<<k + 1, fn[k]>>] /\ gn[k + 1] = step[<<k + 1, gn[k]>>]
    BY <2>1 DEF Recurs
  <2>3. QED
    BY <1>2, <2>1, <2>2
<1>3. \A k \in 0..n : k \in T
  <2> HIDE DEF T
  <2> QED
    BY <1>1, <1>2, Induction
<1>4. QED
  BY <1>3

-----------------------------------------------------------------------------
(* The powers of Base.                                                      *)

\* The recursive definition of Power means what it says.
LEMMA PowerEquation ==
  /\ Power \in [Nat -> Nat \ {0}]
  /\ Power[0] = 1 /\ \A w \in Nat : Power[w + 1] = Base * Power[w]
<1> DEFINE P == Nat \ {0}
<1> DEFINE step == [p \in Nat \X P |-> Base * p[2]]
<1> DEFINE Approx(n) == CHOOSE fn : fn \in [0..n -> P] /\ Recurs(fn, n, 1, step)
<1>1. ASSUME NEW n \in Nat PROVE Approx(n) \in [0..n -> P] /\ Recurs(Approx(n), n, 1, step)
  <2>1. PICK s : s = [p \in (1..n) \X P |-> Base * p[2]]
    OBVIOUS
  <2>2. ASSUME NEW p \in (1..n) \X P PROVE Base * p[2] \in P
    BY CodecAssumption
  <2>3. s \in [(1..n) \X P -> P] /\ 1 \in P
    BY <2>1, <2>2
  <2>4. PICK fn \in [0..n -> P] : Recurs(fn, n, 1, s)
    BY <2>3, RecursionExists
  <2>5. Recurs(fn, n, 1, step)
    <3>1. ASSUME NEW i \in 1..n PROVE s[<<i, fn[i - 1]>>] = step[<<i, fn[i - 1]>>]
      BY <2>1
    <3>2. QED
      BY <2>4, <3>1 DEF Recurs
  <2>6. QED
    BY <2>5
<1>2. \A n \in Nat, x \in P : step[<<n, x>>] = Base * x
  OBVIOUS
<1> HIDE DEF step, Approx
<1>3. ASSUME NEW n \in Nat PROVE Approx(n + 1)[n] = Approx(n)[n]
  <2>1. PICK fn, gn : fn = Approx(n) /\ gn = Approx(n + 1)
    OBVIOUS
  <2>2. Recurs(fn, n, 1, step) /\ Recurs(gn, n + 1, 1, step)
    BY <1>1, <2>1
  <2>3. Recurs(gn, n, 1, step)
    BY <2>2 DEF Recurs
  <2>4. n \in 0..n
    OBVIOUS
  <2>5. fn[n] = gn[n]
    BY <2>2, <2>3, <2>4, RecursionUnique
  <2>6. QED
    BY <2>1, <2>5
<1>4. PICK pw : pw = [n \in Nat |-> Approx(n)[n]]
  OBVIOUS
<1>5. \A n \in Nat : pw[n] = Approx(n)[n]
  BY <1>4
<1>6. ASSUME NEW n \in Nat PROVE pw[n] \in P
  <2>1. n \in 0..n
    OBVIOUS
  <2>2. QED
    BY <1>1, <1>5, <2>1
<1>7. pw[0] = 1
  BY <1>1, <1>5 DEF Recurs
<1>8. ASSUME NEW n \in Nat PROVE pw[n + 1] = Base * pw[n]
  <2>1. n + 1 \in Nat /\ n + 1 \in 1..n + 1 /\ n + 1 - 1 = n /\ n \in 0..n + 1
    OBVIOUS
  <2>2. PICK gn : gn = Approx(n + 1)
    OBVIOUS
  <2>3. gn \in [0..n + 1 -> P] /\ Recurs(gn, n + 1, 1, step)
    BY <1>1, <2>1, <2>2
  <2>4. gn[n + 1] = step[<<n + 1, gn[n]>>] /\ gn[n] \in P
    BY <2>1, <2>3 DEF Recurs
  <2>5. gn[n + 1] = Base * gn[n]
    BY <1>2, <2>1, <2>4
  <2>6. QED
    BY <1>3, <1>5, <2>1, <2>2, <2>5
<1>9. pw = [w \in Nat |-> IF w = 0 THEN 1 ELSE Base * pw[w - 1]]
  <2>1. ASSUME NEW w \in Nat PROVE pw[w] = IF w = 0 THEN 1 ELSE Base * pw[w - 1]
    <3>1. CASE w = 0
      BY <1>7, <3>1
    <3>2. CASE w # 0
      <4>1. w - 1 \in Nat /\ w - 1 + 1 = w
        BY <3>2
      <4>2. QED
        BY <1>8, <3>2, <4>1
    <3>3. QED
      BY <3>1, <3>2
  <2>2. QED
    BY <1>4, <2>1
<1>10. Power = [w \in Nat |-> IF w = 0 THEN 1 ELSE Base * Power[w - 1]]
  BY <1>9 DEF Power
<1>11. Power[0] = 1
  BY <1>10
<1>12. ASSUME NEW w \in Nat PROVE Power[w + 1] = Base * Power[w]
  <2>1. w + 1 \in Nat /\ w + 1 # 0 /\ w + 1 - 1 = w
    OBVIOUS
  <2>2. QED
    BY <1>10, <2>1
<1>13. ASSUME NEW w \in Nat PROVE Power[w] \in P
  <2> DEFINE T == {k \in Nat : Power[k] \in P}
  <2>1. 0 \in T
    BY <1>11
  <2>2. ASSUME NEW k \in 0..w - 1, k \in T PROVE k + 1 \in T
    BY <1>12, <2>2, CodecAssumption
  <2>3. \A k \in 0..w : k \in T
    <3> HIDE DEF T
    <3> QED
      BY <2>1, <2>2, Induction
  <2>4. QED
    BY <2>3
<1>14. Power \in [Nat -> P]
  BY <1>10, <1>13
<1>15. QED
  BY <1>11, <1>12, <1>14

-----------------------------------------------------------------------------
(* Integers: what is written is read, and what is read was written.          *)

\* Quotient and remainder of natural numbers.
LEMMA DivMod ==
  ASSUME NEW n \in Nat, NEW m \in Nat \ {0}
  PROVE  n \div m \in Nat /\ n % m \in 0..m - 1 /\ n = m * (n \div m) + (n % m)
  OBVIOUS

\* Products grow with a factor.
LEMMA MulMonotonic ==
  ASSUME NEW m \in Nat, NEW x \in Nat, NEW y \in Nat, x <= y
  PROVE  m * x \in Nat /\ m * y \in Nat /\ m * x <= m * y
<1>1. PICK z \in Nat : y = x + z
  <2>1. y - x \in Nat /\ y = x + (y - x)
    OBVIOUS
  <2>2. QED
    BY <2>1
<1>2. m * y = m * x + m * z
  BY <1>1
<1>3. m * x \in Nat /\ m * y \in Nat /\ m * z \in Nat
  OBVIOUS
<1>4. QED
  BY <1>2, <1>3

\* Quotient and remainder are unique.
LEMMA DivUnique ==
  ASSUME NEW m \in Nat \ {0}, NEW x \in Nat, NEW u \in 0..m - 1,
         NEW y \in Nat, NEW v \in 0..m - 1, m * x + u = m * y + v
  PROVE  x = y /\ u = v
<1>1. ASSUME NEW k \in Nat, NEW l \in Nat, NEW i \in 0..m - 1, NEW j \in 0..m - 1,
             m * k + i = m * l + j, k < l
      PROVE  FALSE
  <2>1. k + 1 \in Nat /\ k + 1 <= l
    BY <1>1
  <2>2. m * (k + 1) <= m * l
    BY <2>1, MulMonotonic
  <2>3. m * (k + 1) = m * k + m
    OBVIOUS
  <2>4. m * k \in Nat /\ m * l \in Nat
    OBVIOUS
  <2>5. QED
    BY <1>1, <2>2, <2>3, <2>4
<1>2. x = y
  BY <1>1
<1>3. QED
  BY <1>2

\* Dividing by a product is dividing twice.
LEMMA DivTwice ==
  ASSUME NEW n \in Nat, NEW m \in Nat \ {0}, NEW k \in Nat \ {0}
  PROVE  n \div (k * m) = (n \div m) \div k
<1>1. PICK q, r : q = n \div m /\ r = n % m
  OBVIOUS
<1>2. q \in Nat /\ r \in 0..m - 1 /\ n = m * q + r
  BY <1>1, DivMod
<1>3. PICK s, t : s = q \div k /\ t = q % k
  OBVIOUS
<1>4. s \in Nat /\ t \in 0..k - 1 /\ q = k * s + t
  BY <1>2, <1>3, DivMod
<1>5. n = (k * m) * s + (m * t + r)
  <2>1. m * q = m * (k * s) + m * t
    BY <1>4
  <2>2. m * (k * s) = (k * m) * s
    BY <1>4
  <2>3. QED
    BY <1>2, <1>4, <2>1, <2>2
<1>6. k * m \in Nat \ {0} /\ m * t + r \in 0..k * m - 1
  <2>1. k - 1 \in Nat /\ t <= k - 1 /\ t \in Nat
    BY <1>4
  <2>2. m * t \in Nat /\ m * t <= m * (k - 1)
    BY <2>1, MulMonotonic
  <2>3. m * (k - 1) = k * m - m /\ k * m \in Nat
    OBVIOUS
  <2>4. 1 <= k /\ m * 1 <= m * k
    BY MulMonotonic
  <2>5. QED
    BY <1>2, <2>2, <2>3, <2>4
<1>7. PICK p, x, y : p = k * m /\ x = n \div (k * m) /\ y = n % (k * m)
  OBVIOUS
<1>8. x \in Nat /\ y \in 0..p - 1 /\ n = p * x + y /\ p \in Nat \ {0}
  BY <1>6, <1>7, DivMod
<1>9. PICK z : z = m * t + r
  OBVIOUS
<1>10. p * x + y = p * s + z /\ z \in 0..p - 1
  BY <1>5, <1>6, <1>7, <1>8, <1>9
<1>11. x = s
  BY <1>4, <1>8, <1>10, DivUnique
<1>12. QED
  BY <1>1, <1>3, <1>7, <1>11

\* The bytes that follow position at, as a sum.
Sums(sum, bs, at, w) ==
  sum[0] = 0 /\ \A i \in 1..w : sum[i] = sum[i - 1] + bs[at + i] * Power[i - 1]

\* The bytes are added up from the first to the last.
LEMMA AssembleSum ==
  ASSUME NEW w \in Nat, NEW at \in Nat, NEW bs, \A i \in 1..w : bs[at + i] \in Byte
  PROVE  \E sum \in [0..w -> Nat] : Sums(sum, bs, at, w) /\ Assemble(bs, at, w) = sum[w]
<1>1. PICK s : s = [p \in (1..w) \X Nat |-> p[2] + bs[at + p[1]] * Power[p[1] - 1]]
  OBVIOUS
<1>2. ASSUME NEW p \in (1..w) \X Nat PROVE p[2] + bs[at + p[1]] * Power[p[1] - 1] \in Nat
  <2>1. p[1] \in 1..w /\ p[2] \in Nat /\ p[1] - 1 \in Nat
    OBVIOUS
  <2>2. bs[at + p[1]] \in Nat
    BY <2>1, CodecAssumption DEF Byte
  <2>3. Power[p[1] - 1] \in Nat
    BY <2>1, PowerEquation
  <2>4. QED
    BY <2>1, <2>2, <2>3
<1>3. s \in [(1..w) \X Nat -> Nat]
  BY <1>1, <1>2
<1>4. PICK fn \in [0..w -> Nat] : Recurs(fn, w, 0, s)
  BY <1>3, RecursionExists
<1>5. ASSUME NEW i \in 1..w PROVE fn[i] = fn[i - 1] + bs[at + i] * Power[i - 1]
  <2>1. i - 1 \in 0..w
    OBVIOUS
  <2>2. fn[i - 1] \in Nat
    BY <1>4, <2>1
  <2>3. fn[i] = s[<<i, fn[i - 1]>>]
    BY <1>4 DEF Recurs
  <2>4. QED
    BY <1>1, <2>2, <2>3
<1>6. fn = [i \in 0..w |-> IF i = 0 THEN 0 ELSE fn[i - 1] + bs[at + i] * Power[i - 1]]
  <2>1. fn[0] = 0
    BY <1>4 DEF Recurs
  <2>2. QED
    BY <1>4, <1>5, <2>1
<1> DEFINE chosen == CHOOSE sum : sum = [i \in 0..w |-> IF i = 0 THEN 0 ELSE sum[i - 1] + bs[at + i] * Power[i - 1]]
<1>7. chosen = [i \in 0..w |-> IF i = 0 THEN 0 ELSE chosen[i - 1] + bs[at + i] * Power[i - 1]]
  BY <1>6
<1>8. Assemble(bs, at, w) = chosen[w]
  BY DEF Assemble
<1> HIDE DEF chosen
<1>9. \A k \in 0..w : chosen[k] = fn[k]
  <2> DEFINE T == {k \in 0..w : chosen[k] = fn[k]}
  <2>1. 0 \in T
    BY <1>6, <1>7
  <2>2. ASSUME NEW k \in 0..w - 1, k \in T PROVE k + 1 \in T
    <3>1. k + 1 \in 1..w /\ k + 1 \in 0..w /\ k + 1 - 1 = k /\ k + 1 # 0
      OBVIOUS
    <3>2. chosen[k + 1] = chosen[k] + bs[at + (k + 1)] * Power[k]
      BY <1>7, <3>1
    <3>3. fn[k + 1] = fn[k] + bs[at + (k + 1)] * Power[k]
      BY <1>5, <3>1
    <3>4. QED
      BY <2>2, <3>1, <3>2, <3>3
  <2>3. \A k \in 0..w : k \in T
    <3> HIDE DEF T
    <3> QED
      BY <2>1, <2>2, Induction
  <2>4. QED
    BY <2>3
<1>10. Sums(fn, bs, at, w)
  BY <1>4, <1>5 DEF Sums, Recurs
<1>11. QED
  BY <1>4, <1>8, <1>9, <1>10

\* writer::integer writes w bytes.
LEMMA WriteType ==
  ASSUME NEW n \in Nat, NEW w \in Nat
  PROVE  /\ WriteInteger(n, w) \in Seq(Byte) /\ Len(WriteInteger(n, w)) = w
         /\ \A i \in 1..w : WriteInteger(n, w)[i] = (n \div Power[i - 1]) % Base
<1>1. ASSUME NEW i \in 1..w PROVE (n \div Power[i - 1]) % Base \in Byte
  <2>1. Power[i - 1] \in Nat \ {0} /\ Base \in Nat \ {0}
    BY PowerEquation, CodecAssumption
  <2>2. n \div Power[i - 1] \in Nat
    BY <2>1, DivMod
  <2>3. QED
    BY <2>1, <2>2, DivMod DEF Byte
<1>2. WriteInteger(n, w) \in [1..w -> Byte]
  BY <1>1 DEF WriteInteger
<1>3. WriteInteger(n, w) \in Seq(Byte) /\ Len(WriteInteger(n, w)) = w
  BY <1>2, IsASeq, LenProperties
<1>4. QED
  BY <1>3 DEF WriteInteger

\* What writer::integer wrote is assembled to the number it wrote.
LEMMA WrittenIsRead ==
  ASSUME NEW w \in Nat, NEW at \in Nat, NEW bs, NEW n \in 0..Limit(w) - 1,
         \A i \in 1..w : bs[at + i] = WriteInteger(n, w)[i]
  PROVE  Assemble(bs, at, w) = n
<1>1. ASSUME NEW i \in 1..w
      PROVE  bs[at + i] = (n \div Power[i - 1]) % Base /\ bs[at + i] \in Byte
  <2>1. n \in Nat
    BY PowerEquation DEF Limit
  <2>2. WriteInteger(n, w)[i] \in Byte /\ WriteInteger(n, w)[i] = (n \div Power[i - 1]) % Base
    BY <2>1, WriteType, ElementOfSeq
  <2>3. QED
    BY <2>2
<1>2. PICK sum \in [0..w -> Nat] : Sums(sum, bs, at, w) /\ Assemble(bs, at, w) = sum[w]
  BY <1>1, AssembleSum
<1> DEFINE T == {k \in 0..w : n = Power[k] * (n \div Power[k]) + sum[k]}
<1>3. n \in Nat /\ Base \in Nat \ {0} /\ Power[w] \in Nat \ {0} /\ n < Power[w]
  <2>1. Base \in Nat \ {0}
    BY CodecAssumption
  <2>2. Power[w] \in Nat \ {0}
    BY PowerEquation
  <2>3. QED
    BY <2>1, <2>2 DEF Limit
<1>4. 0 \in T
  <2>1. sum[0] = 0 /\ Power[0] = 1
    BY <1>2, PowerEquation DEF Sums
  <2>2. n \div 1 = n
    BY <1>3
  <2>3. 0 \in 0..w
    OBVIOUS
  <2>4. QED
    BY <1>3, <2>1, <2>2, <2>3
<1>5. ASSUME NEW k \in 0..w - 1, k \in T PROVE k + 1 \in T
  <2>1. k + 1 \in 1..w /\ k + 1 \in 0..w /\ k + 1 - 1 = k /\ k \in Nat /\ k \in 0..w
    OBVIOUS
  <2>2. PICK p, q, s, x : p = Power[k] /\ q = n \div Power[k] /\ s = sum[k] /\ x = bs[at + (k + 1)]
    OBVIOUS
  <2>3. p \in Nat \ {0} /\ s \in Nat /\ Power[k + 1] = Base * p
    BY <1>2, <2>1, <2>2, PowerEquation
  <2>4. n = p * q + s
    BY <1>5, <2>2
  <2>5. q \in Nat
    BY <1>3, <2>2, <2>3, DivMod
  <2>6. x = q % Base /\ sum[k + 1] = s + x * p
    <3>1. x = q % Base
      <4>1. bs[at + (k + 1)] = (n \div Power[(k + 1) - 1]) % Base
        BY <1>1, <2>1
      <4>2. QED
        BY <2>1, <2>2, <4>1
    <3>2. sum[k + 1] = sum[k] + bs[at + (k + 1)] * Power[k]
      BY <1>2, <2>1 DEF Sums
    <3>3. QED
      BY <2>2, <3>1, <3>2
  <2>7. PICK z : z = q \div Base
    OBVIOUS
  <2>8. q = Base * z + x /\ z \in Nat /\ x \in Nat
    <3>1. q \div Base \in Nat /\ q % Base \in 0..Base - 1
            /\ q = Base * (q \div Base) + (q % Base)
      BY ONLY <1>3, <2>5, DivMod
    <3>2. QED
      BY <2>6, <2>7, <3>1
  <2>9. n \div (Base * p) = z
    BY <1>3, <2>2, <2>3, <2>7, DivTwice
  <2>10. p * q = (Base * p) * z + x * p
    BY <1>3, <2>3, <2>8
  <2>11. n = (Base * p) * z + (s + x * p)
    BY <1>3, <2>3, <2>4, <2>8, <2>10
  <2>12. QED
    BY <2>1, <2>3, <2>6, <2>9, <2>11
<1>6. \A k \in 0..w : k \in T
  <2> HIDE DEF T
  <2> QED
    BY <1>4, <1>5, Induction
<1>7. n = Power[w] * (n \div Power[w]) + sum[w] /\ sum[w] \in Nat
  BY <1>2, <1>6
<1>8. PICK p, q : p = Power[w] /\ q = n \div Power[w]
  OBVIOUS
<1>9. p \in Nat \ {0} /\ q \in Nat /\ n = p * q + (n % p)
  BY <1>3, <1>8, DivMod
<1>10. q = 0
  <2>1. n % p \in 0..p - 1 /\ n \in 0..p - 1
    <3>1. n % p \in 0..p - 1
      BY ONLY <1>3, <1>9, DivMod
    <3>2. QED
      BY <1>3, <1>8, <1>9, <3>1
  <2>2. PICK z : z = n % p
    OBVIOUS
  <2>3. p * 0 + n = p * q + z /\ z \in 0..p - 1
    BY <1>3, <1>9, <2>1, <2>2
  <2>4. QED
    BY <1>9, <2>1, <2>3, DivUnique
<1>11. n = sum[w]
  BY <1>7, <1>8, <1>9, <1>10
<1>12. QED
  BY <1>2, <1>11

\* What is assembled would be written as the bytes it was read from.
LEMMA ReadIsWritten ==
  ASSUME NEW w \in Nat, NEW at \in Nat, NEW bs, \A i \in 1..w : bs[at + i] \in Byte
  PROVE  /\ Assemble(bs, at, w) \in 0..Limit(w) - 1
         /\ \A i \in 1..w : bs[at + i] = WriteInteger(Assemble(bs, at, w), w)[i]
<1>1. PICK sum \in [0..w -> Nat] : Sums(sum, bs, at, w) /\ Assemble(bs, at, w) = sum[w]
  BY AssembleSum
<1>2. Base \in Nat \ {0} /\ \A i \in 1..w : bs[at + i] \in 0..Base - 1
  BY CodecAssumption DEF Byte
\* The step of the sum.
<1>3. ASSUME NEW k \in 0..w - 1
      PROVE  /\ Power[k] \in Nat \ {0} /\ Power[k + 1] = Base * Power[k]
             /\ sum[k] \in Nat /\ bs[at + (k + 1)] \in 0..Base - 1
             /\ sum[k + 1] = sum[k] + bs[at + (k + 1)] * Power[k]
             /\ k + 1 \in 1..w /\ k + 1 \in 0..w /\ k \in 0..w
  <2>1. k + 1 \in 1..w /\ k + 1 \in 0..w /\ k + 1 - 1 = k /\ k \in Nat /\ k \in 0..w
    OBVIOUS
  <2>2. sum[k + 1] = sum[k] + bs[at + (k + 1)] * Power[k]
    BY <1>1, <2>1 DEF Sums
  <2>3. QED
    BY <1>1, <1>2, <2>1, <2>2, PowerEquation
<1>4. \A k \in 0..w : sum[k] < Power[k]
  <2> DEFINE T == {k \in 0..w : sum[k] < Power[k]}
  <2>1. 0 \in T
    BY <1>1, PowerEquation DEF Sums
  <2>2. ASSUME NEW k \in 0..w - 1, k \in T PROVE k + 1 \in T
    <3>1. PICK p, s, x : p = Power[k] /\ s = sum[k] /\ x = bs[at + (k + 1)]
      OBVIOUS
    <3>2. p \in Nat \ {0} /\ s \in Nat /\ x \in 0..Base - 1 /\ s < p
      BY <1>3, <2>2, <3>1
    <3>3. x <= Base - 1 /\ x \in Nat /\ Base - 1 \in Nat
      BY <1>2, <3>2
    <3>4. p * x <= p * (Base - 1) /\ p * x \in Nat
      BY <3>2, <3>3, MulMonotonic
    <3>5. p * (Base - 1) = Base * p - p /\ p * x = x * p /\ Base * p \in Nat
      BY <1>2, <3>2, <3>3
    <3>6. s + x * p < Base * p
      BY <3>2, <3>4, <3>5
    <3>7. QED
      BY <1>3, <3>1, <3>6
  <2>3. \A k \in 0..w : k \in T
    <3> HIDE DEF T
    <3> QED
      BY <2>1, <2>2, Induction
  <2>4. QED
    BY <2>3
<1>5. PICK n : n = sum[w]
  OBVIOUS
<1>6. n \in Nat
  BY <1>1, <1>5
<1>7. \A k \in 0..w : \E t \in Nat : n = sum[k] + Power[k] * t
  <2> DEFINE T == {j \in 0..w : \E t \in Nat : n = sum[w - j] + Power[w - j] * t}
  <2>1. 0 \in T
    <3>1. Power[w] \in Nat /\ w - 0 = w /\ 0 \in 0..w
      BY PowerEquation
    <3>2. n = sum[w] + Power[w] * 0
      BY <1>5, <1>6, <3>1
    <3>3. QED
      BY <3>1, <3>2
  <2>2. ASSUME NEW j \in 0..w - 1, j \in T PROVE j + 1 \in T
    <3>1. PICK k \in 0..w - 1 : k = w - (j + 1)
      OBVIOUS
    <3>2. w - j = k + 1 /\ j + 1 \in 0..w
      BY <3>1
    <3>3. PICK t \in Nat : n = sum[k + 1] + Power[k + 1] * t
      BY <2>2, <3>2
    <3>4. PICK p, s, x : p = Power[k] /\ s = sum[k] /\ x = bs[at + (k + 1)]
      OBVIOUS
    <3>5. p \in Nat \ {0} /\ s \in Nat /\ x \in Nat /\ n = (s + x * p) + (Base * p) * t
      <4>1. /\ Power[k] \in Nat \ {0} /\ Power[k + 1] = Base * Power[k]
            /\ sum[k] \in Nat /\ bs[at + (k + 1)] \in 0..Base - 1
            /\ sum[k + 1] = sum[k] + bs[at + (k + 1)] * Power[k]
        BY <1>3
      <4>2. QED
        BY <1>2, <3>3, <3>4, <4>1
    <3>6. PICK u \in Nat : u = x + Base * t
      BY <1>2, <3>5
    <3>7. p * u = x * p + (Base * p) * t
      BY <1>2, <3>5, <3>6
    <3>8. n = s + p * u
      BY <1>2, <3>5, <3>7
    <3>9. QED
      BY <3>1, <3>2, <3>4, <3>8
  <2>3. \A j \in 0..w : j \in T
    <3> HIDE DEF T
    <3> QED
      BY <2>1, <2>2, Induction
  <2>4. ASSUME NEW k \in 0..w PROVE \E t \in Nat : n = sum[k] + Power[k] * t
    <3>1. w - k \in 0..w /\ w - (w - k) = k
      OBVIOUS
    <3>2. w - k \in T
      BY <2>3, <3>1
    <3>3. QED
      BY <3>1, <3>2
  <2>5. QED
    BY <2>4
<1>8. ASSUME NEW i \in 1..w PROVE bs[at + i] = (n \div Power[i - 1]) % Base
  <2>1. PICK k \in 0..w - 1 : k = i - 1
    OBVIOUS
  <2>2. i = k + 1 /\ i \in 0..w
    BY <2>1
  <2>3. PICK t \in Nat : n = sum[k + 1] + Power[k + 1] * t
    BY <1>7, <2>2
  <2>4. PICK p, s, x : p = Power[k] /\ s = sum[k] /\ x = bs[at + (k + 1)]
    OBVIOUS
  <2>5. /\ p \in Nat \ {0} /\ s \in 0..p - 1 /\ x \in 0..Base - 1
        /\ n = (s + x * p) + (Base * p) * t
    BY <1>3, <1>4, <2>3, <2>4, SMTT(20)
  <2>6. PICK u \in Nat : u = Base * t + x
    BY <1>2, <2>5
  <2>7. p * u = x * p + (Base * p) * t
    BY <1>2, <2>5, <2>6
  <2>8. n = p * u + s
    BY <1>2, <2>5, <2>7
  <2>9. n \div p = u
    <3>1. PICK y, z : y = n \div p /\ z = n % p
      OBVIOUS
    <3>2. y \in Nat /\ z \in 0..p - 1 /\ n = p * y + z
      BY <1>6, <2>5, <3>1, DivMod
    <3>3. y = u
      BY <2>5, <2>8, <3>2, DivUnique
    <3>4. QED
      BY <3>1, <3>3
  <2>10. u % Base = x
    <3>1. PICK y, z : y = u \div Base /\ z = u % Base
      OBVIOUS
    <3>2. y \in Nat /\ z \in 0..Base - 1 /\ u = Base * y + z
      BY <1>2, <3>1, DivMod
    <3>3. z = x
      BY ONLY <1>2, <2>5, <2>6, <3>2, DivUnique, ZenonT(30)
    <3>4. QED
      BY <3>1, <3>3
  <2>11. QED
    BY <2>1, <2>2, <2>4, <2>9, <2>10
<1>9. n \in 0..Limit(w) - 1
  BY <1>4, <1>5, <1>6, PowerEquation DEF Limit
<1>10. QED
  BY <1>1, <1>5, <1>6, <1>8, <1>9, WriteType

-----------------------------------------------------------------------------
(* The reader.                                                              *)

\* The bytes of s follow position at of the frame bs.
Follows(bs, at, s) == at + Len(s) <= Len(bs) /\ \A i \in 1..Len(s) : bs[at + i] = s[i]

\* A concatenation follows when its parts follow one another.
LEMMA FollowsConcat ==
  ASSUME NEW bs \in Seq(Byte), NEW at \in Nat, NEW s \in Seq(Byte), NEW t \in Seq(Byte)
  PROVE  Follows(bs, at, s \o t) <=> Follows(bs, at, s) /\ Follows(bs, at + Len(s), t)
<1>1. PICK m \in Nat, n \in Nat : m = Len(s) /\ n = Len(t)
  BY LenProperties
<1>2. /\ Len(s \o t) = m + n
      /\ \A i \in 1..m : (s \o t)[i] = s[i]
      /\ \A i \in 1..n : (s \o t)[m + i] = t[i]
  <2>1. /\ Len(s \o t) = Len(s) + Len(t)
        /\ \A i \in 1..Len(s) + Len(t) :
             (s \o t)[i] = IF i <= Len(s) THEN s[i] ELSE t[i - Len(s)]
    BY ConcatProperties
  <2>2. ASSUME NEW i \in 1..m PROVE i \in 1..m + n /\ i <= m
    BY <1>1
  <2>3. ASSUME NEW i \in 1..n PROVE m + i \in 1..m + n /\ ~(m + i <= m) /\ m + i - m = i
    BY <1>1
  <2>4. QED
    BY <1>1, <2>1, <2>2, <2>3
<1>3. Len(bs) \in Nat
  BY LenProperties
<1>4. ASSUME Follows(bs, at, s \o t) PROVE Follows(bs, at, s) /\ Follows(bs, at + Len(s), t)
  <2>1. at + (m + n) <= Len(bs) /\ \A i \in 1..m + n : bs[at + i] = (s \o t)[i]
    BY <1>2, <1>4 DEF Follows
  <2>2. Follows(bs, at, s)
    BY <1>1, <1>2, <1>3, <2>1 DEF Follows
  <2>3. ASSUME NEW i \in 1..n PROVE bs[at + m + i] = t[i]
    <3>1. m + i \in 1..m + n /\ at + m + i = at + (m + i)
      BY <1>1
    <3>2. QED
      BY <1>2, <2>1, <3>1
  <2>4. QED
    BY <1>1, <1>3, <2>1, <2>2, <2>3 DEF Follows
<1>5. ASSUME Follows(bs, at, s), Follows(bs, at + Len(s), t) PROVE Follows(bs, at, s \o t)
  <2>1. at + m + n <= Len(bs)
    BY <1>1, <1>5 DEF Follows
  <2>2. ASSUME NEW i \in 1..m + n PROVE bs[at + i] = (s \o t)[i]
    <3>1. CASE i <= m
      BY <1>1, <1>2, <1>5, <3>1 DEF Follows
    <3>2. CASE ~(i <= m)
      <4>1. PICK j \in 1..n : i = m + j
        <5>1. i - m \in 1..n /\ i = m + (i - m)
          BY <1>1, <3>2
        <5>2. QED
          BY <5>1
      <4>2. bs[at + m + j] = t[j]
        BY <1>1, <1>5 DEF Follows
      <4>3. at + m + j = at + i
        BY <1>1, <4>1
      <4>4. QED
        BY <1>2, <4>1, <4>2, <4>3
    <3>3. QED
      BY <3>1, <3>2
  <2>3. QED
    BY <1>1, <1>2, <1>3, <2>1, <2>2 DEF Follows
<1>6. QED
  BY <1>4, <1>5

\* A frame whose first bytes are those of another.
Begins(bs, cs) == Len(bs) <= Len(cs) /\ \A i \in 1..Len(bs) : bs[i] = cs[i]

\* What follows in a frame follows in every frame that begins with it.
LEMMA FollowsBegins ==
  ASSUME NEW bs \in Seq(Byte), NEW cs \in Seq(Byte), Begins(bs, cs),
         NEW at \in Nat, NEW s \in Seq(Byte), Follows(bs, at, s)
  PROVE  Follows(cs, at, s)
<1>1. Len(bs) \in Nat /\ Len(cs) \in Nat /\ Len(s) \in Nat
  BY LenProperties
<1>2. ASSUME NEW i \in 1..Len(s) PROVE cs[at + i] = s[i]
  <2>1. at + i \in 1..Len(bs)
    BY <1>1 DEF Follows
  <2>2. QED
    BY <2>1 DEF Begins, Follows
<1>3. QED
  BY <1>1, <1>2 DEF Begins, Follows

\* A reader of bs.
IsReader(bs, r) == r.at \in 0..Len(bs) /\ r.ok \in BOOLEAN

\* There is an integer of every width.
LEMMA LimitType == \A w \in Nat : Limit(w) \in Nat \ {0}
  BY PowerEquation DEF Limit

\* reader::integer reads what writer::integer wrote.
LEMMA IntegerArrives ==
  ASSUME NEW bs \in Seq(Byte), NEW r, IsReader(bs, r), r.ok,
         NEW w \in Nat, NEW n \in 0..Limit(w) - 1, Follows(bs, r.at, WriteInteger(n, w))
  PROVE  ReadInteger(bs, r, w) = [at |-> r.at + w, ok |-> TRUE, value |-> n]
<1>1. n \in Nat /\ Len(bs) \in Nat /\ r.at \in Nat
  <2>1. n \in Nat
    BY LimitType
  <2>2. Len(bs) \in Nat
    BY LenProperties
  <2>3. QED
    BY <2>1, <2>2 DEF IsReader
<1>2. Len(WriteInteger(n, w)) = w
  BY <1>1, WriteType
<1>3. r.at + w <= Len(bs) /\ \A i \in 1..w : bs[r.at + i] = WriteInteger(n, w)[i]
  BY <1>2 DEF Follows
<1>4. Assemble(bs, r.at, w) = n
  <2>1. PICK p \in Nat : p = r.at
    BY <1>1
  <2>2. \A i \in 1..w : bs[p + i] = WriteInteger(n, w)[i]
    BY <1>3, <2>1
  <2>3. Assemble(bs, p, w) = n
    BY ONLY <2>2, WrittenIsRead, p \in Nat, w \in Nat, n \in 0..Limit(w) - 1
  <2>4. QED
    BY <2>1, <2>3
<1>5. Require(bs, r, w)
  BY <1>1, <1>3 DEF Require, Remaining
<1>6. QED
  BY <1>4, <1>5 DEF ReadInteger

\* What a valid read returns fits its width, and its bytes follow.
LEMMA IntegerRead ==
  ASSUME NEW bs \in Seq(Byte), NEW r, IsReader(bs, r), NEW w \in Nat
  PROVE  /\ IsReader(bs, ReadInteger(bs, r, w))
         /\ ReadInteger(bs, r, w).ok =>
              /\ r.ok /\ ReadInteger(bs, r, w).at = r.at + w
              /\ ReadInteger(bs, r, w).value \in 0..Limit(w) - 1
              /\ Follows(bs, r.at, WriteInteger(ReadInteger(bs, r, w).value, w))
         /\ ~ReadInteger(bs, r, w).ok =>
              ReadInteger(bs, r, w) = [at |-> r.at, ok |-> FALSE, value |-> 0]
<1>1. Len(bs) \in Nat /\ r.at \in 0..Len(bs) /\ r.at \in Nat /\ r.ok \in BOOLEAN
  BY LenProperties DEF IsReader
<1>2. CASE Require(bs, r, w)
  <2>1. PICK n : n = Assemble(bs, r.at, w)
    OBVIOUS
  <2>2. ReadInteger(bs, r, w) = [at |-> r.at + w, ok |-> TRUE, value |-> n]
    BY <1>2, <2>1 DEF ReadInteger
  <2>3. r.ok /\ r.at + w <= Len(bs)
    BY <1>1, <1>2 DEF Require, Remaining
  <2>4. ASSUME NEW i \in 1..w PROVE bs[r.at + i] \in Byte
    <3>1. r.at + i \in 1..Len(bs)
      BY <1>1, <2>3
    <3>2. QED
      BY <3>1, ElementOfSeq
  <2>5. n \in 0..Limit(w) - 1 /\ \A i \in 1..w : bs[r.at + i] = WriteInteger(n, w)[i]
    BY <1>1, <2>1, <2>4, ReadIsWritten, ZenonT(30)
  <2>6. n \in Nat
    BY <2>5, PowerEquation DEF Limit
  <2>7. Follows(bs, r.at, WriteInteger(n, w))
    BY <2>3, <2>5, <2>6, WriteType DEF Follows
  <2>8. IsReader(bs, [at |-> r.at + w, ok |-> TRUE, value |-> n])
    BY <1>1, <2>3 DEF IsReader
  <2>9. QED
    BY <2>2, <2>3, <2>5, <2>7, <2>8
<1>3. CASE ~Require(bs, r, w)
  <2>1. ReadInteger(bs, r, w) = [at |-> r.at, ok |-> FALSE, value |-> 0]
    BY <1>3 DEF ReadInteger
  <2>2. IsReader(bs, [at |-> r.at, ok |-> FALSE, value |-> 0])
    BY <1>1 DEF IsReader
  <2>3. QED
    BY <2>1, <2>2
<1>4. QED
  BY <1>2, <1>3

\* What is read out of a frame is read out of one that begins with it.
LEMMA IntegerBegins ==
  ASSUME NEW bs \in Seq(Byte), NEW cs \in Seq(Byte), Begins(bs, cs),
         NEW r, IsReader(bs, r), NEW w \in Nat, ReadInteger(bs, r, w).ok
  PROVE  IsReader(cs, r) /\ ReadInteger(cs, r, w) = ReadInteger(bs, r, w)
<1>1. Len(bs) \in Nat /\ Len(cs) \in Nat /\ Len(bs) <= Len(cs)
  BY LenProperties DEF Begins
<1>2. IsReader(cs, r) /\ r.at \in Nat
  BY <1>1 DEF IsReader
<1>3. PICK n : n = ReadInteger(bs, r, w).value
  OBVIOUS
<1>4. r.ok /\ n \in 0..Limit(w) - 1 /\ Follows(bs, r.at, WriteInteger(n, w)) /\ n \in Nat
  <2>1. r.ok /\ n \in 0..Limit(w) - 1 /\ Follows(bs, r.at, WriteInteger(n, w))
    BY <1>3, IntegerRead
  <2>2. QED
    BY <2>1, PowerEquation DEF Limit
<1>5. Follows(cs, r.at, WriteInteger(n, w))
  BY <1>2, <1>4, FollowsBegins, WriteType
<1>6. ReadInteger(cs, r, w) = [at |-> r.at + w, ok |-> TRUE, value |-> n]
  BY <1>2, <1>4, <1>5, IntegerArrives
<1>7. ReadInteger(bs, r, w) = [at |-> r.at + w, ok |-> TRUE, value |-> n]
  BY <1>4, IntegerArrives
<1>8. QED
  BY <1>2, <1>6, <1>7

\* The widths are numbers.
LEMMA WidthType == W32 \in Nat /\ W64 \in Nat /\ Base \in Nat /\ Base > 6
  BY CodecAssumption

\* writer::raw writes bytes: the length, then the text.
LEMMA RawType ==
  ASSUME NEW t \in Seq(Byte)
  PROVE  /\ WriteRaw(t) \in Seq(Byte) /\ Len(WriteRaw(t)) = W32 + Len(t)
         /\ WriteInteger(Len(t), W32) \in Seq(Byte) /\ Len(WriteInteger(Len(t), W32)) = W32
<1>1. Len(t) \in Nat
  BY LenProperties
<1>2. PICK s \in Seq(Byte) : s = WriteInteger(Len(t), W32) /\ Len(s) = W32
  BY <1>1, WidthType, WriteType
<1>3. s \o t \in Seq(Byte) /\ Len(s \o t) = W32 + Len(t)
  BY <1>2, ConcatProperties
<1>4. QED
  BY <1>2, <1>3 DEF WriteRaw

\* The parts of a raw text.
LEMMA RawFollows ==
  ASSUME NEW bs \in Seq(Byte), NEW p \in Nat, NEW t \in Seq(Byte)
  PROVE  Follows(bs, p, WriteRaw(t)) <=>
           Follows(bs, p, WriteInteger(Len(t), W32)) /\ Follows(bs, p + W32, t)
<1>1. PICK s \in Seq(Byte) : s = WriteInteger(Len(t), W32) /\ Len(s) = W32
  BY RawType
<1>2. Follows(bs, p, s \o t) <=> Follows(bs, p, s) /\ Follows(bs, p + Len(s), t)
  BY FollowsConcat
<1>3. QED
  BY <1>1, <1>2 DEF WriteRaw

\* A part of a frame.
LEMMA PartFollows ==
  ASSUME NEW bs \in Seq(Byte), NEW p \in Nat, NEW n \in Nat, p + n <= Len(bs)
  PROVE  /\ SubSeq(bs, p + 1, p + n) \in Seq(Byte) /\ Len(SubSeq(bs, p + 1, p + n)) = n
         /\ Follows(bs, p, SubSeq(bs, p + 1, p + n))
         /\ \A t \in Seq(Byte) :
              Len(t) = n /\ Follows(bs, p, t) => t = SubSeq(bs, p + 1, p + n)
<1>1. Len(bs) \in Nat
  BY LenProperties
<1>2. PICK s : s = SubSeq(bs, p + 1, p + n)
  OBVIOUS
<1>3. ASSUME NEW i \in p + 1..p + n PROVE bs[i] \in Byte
  <2>1. i \in 1..Len(bs)
    BY <1>1
  <2>2. QED
    BY <2>1, ElementOfSeq
<1>4. PICK l \in Nat, m \in Nat : l = p + 1 /\ m = p + n
  OBVIOUS
<1>5. /\ s \in Seq(Byte) /\ Len(s) = IF l <= m THEN m - l + 1 ELSE 0
      /\ \A i \in 1..m - l + 1 : s[i] = bs[l + i - 1]
  BY <1>2, <1>3, <1>4, SubSeqProperties
<1>6. s \in Seq(Byte) /\ Len(s) = n /\ \A i \in 1..n : s[i] = bs[p + i]
  <2>1. m - l + 1 = n /\ (~(l <= m) => n = 0) /\ \A i \in 1..n : l + i - 1 = p + i
    BY <1>4
  <2>2. QED
    BY <1>5, <2>1
<1>7. Follows(bs, p, s)
  BY <1>6 DEF Follows
<1>8. ASSUME NEW t \in Seq(Byte), Len(t) = n, Follows(bs, p, t) PROVE t = s
  <2>1. ASSUME NEW i \in 1..n PROVE t[i] = s[i]
    BY <1>6, <1>8 DEF Follows
  <2>2. QED
    BY <1>6, <1>8, <2>1, SeqEqual
<1>9. QED
  BY <1>2, <1>6, <1>7, <1>8

\* reader::raw reads what writer::raw wrote.
LEMMA RawArrives ==
  ASSUME NEW bs \in Seq(Byte), NEW r, IsReader(bs, r), r.ok,
         NEW t \in Seq(Byte), Writable(Len(t)), Follows(bs, r.at, WriteRaw(t))
  PROVE  ReadRaw(bs, r) = [at |-> r.at + W32 + Len(t), ok |-> TRUE, value |-> t]
<1>1. PICK p \in Nat, n \in Nat : p = r.at /\ n = Len(t)
  BY LenProperties DEF IsReader
<1>2. n \in 0..Limit(W32) - 1
  BY <1>1, LimitType, WidthType DEF Writable
<1>3. Follows(bs, p, WriteInteger(n, W32)) /\ Follows(bs, p + W32, t)
  BY <1>1, RawFollows
<1>4. PICK size : size = ReadInteger(bs, r, W32)
  OBVIOUS
<1>5. size = [at |-> p + W32, ok |-> TRUE, value |-> n]
  BY <1>1, <1>2, <1>3, <1>4, IntegerArrives, WidthType
<1>6. size.at = p + W32 /\ size.ok /\ size.value = n
  BY <1>5
<1>7. p + W32 \in Nat /\ p + W32 + n <= Len(bs) /\ Len(bs) \in Nat
  BY <1>1, <1>3, WidthType, LenProperties DEF Follows
<1>8. Require(bs, size, size.value)
  BY <1>6, <1>7 DEF Require, Remaining
<1>9. t = SubSeq(bs, p + W32 + 1, p + W32 + n)
  <2>1. PICK q \in Nat : q = p + W32
    BY <1>7
  <2>2. Follows(bs, q, t) /\ q + n <= Len(bs) /\ Len(t) = n
    BY <1>1, <1>3, <1>7, <2>1
  <2>3. t = SubSeq(bs, q + 1, q + n)
    BY <2>2, PartFollows
  <2>4. QED
    BY <2>1, <2>3
<1>10. ReadRaw(bs, r) = [at |-> size.at + size.value, ok |-> TRUE,
                         value |-> SubSeq(bs, size.at + 1, size.at + size.value)]
  BY <1>4, <1>8 DEF ReadRaw
<1>11. QED
  BY <1>1, <1>6, <1>9, <1>10

\* What a valid read of a raw text returns is a text, and its bytes follow.
LEMMA RawRead ==
  ASSUME NEW bs \in Seq(Byte), NEW r, IsReader(bs, r)
  PROVE  /\ IsReader(bs, ReadRaw(bs, r))
         /\ ReadRaw(bs, r).ok =>
              \E t \in Seq(Byte) :
                 /\ r.ok /\ Writable(Len(t)) /\ Follows(bs, r.at, WriteRaw(t))
                 /\ ReadRaw(bs, r) = [at |-> r.at + W32 + Len(t), ok |-> TRUE, value |-> t]
<1>1. PICK size : size = ReadInteger(bs, r, W32)
  OBVIOUS
<1>2. IsReader(bs, size) /\ Len(bs) \in Nat /\ r.at \in Nat
  <2>1. IsReader(bs, size)
    BY <1>1, IntegerRead, WidthType
  <2>2. Len(bs) \in Nat
    BY LenProperties
  <2>3. QED
    BY <2>1, <2>2 DEF IsReader
<1>3. size.at \in 0..Len(bs) /\ size.ok \in BOOLEAN
  BY <1>2 DEF IsReader
<1>4. CASE Require(bs, size, size.value)
  <2>1. size.ok
    BY <1>4 DEF Require
  <2>2. /\ r.ok /\ size.at = r.at + W32 /\ size.value \in 0..Limit(W32) - 1
        /\ Follows(bs, r.at, WriteInteger(size.value, W32))
    BY <1>1, <2>1, IntegerRead, WidthType
  <2>3. PICK p \in Nat, q \in Nat, n \in Nat :
          p = r.at /\ q = size.at /\ n = size.value /\ q = p + W32
    <3>1. size.value \in Nat
      BY <2>2, LimitType, WidthType
    <3>2. QED
      BY <1>2, <1>3, <2>2, <3>1
  <2>4. q + n <= Len(bs)
    BY <1>2, <1>4, <2>3 DEF Require, Remaining
  <2>5. PICK t : t = SubSeq(bs, q + 1, q + n)
    OBVIOUS
  <2>6. t \in Seq(Byte) /\ Len(t) = n /\ Follows(bs, q, t)
    BY <2>4, <2>5, PartFollows
  <2>7. Follows(bs, p, WriteRaw(t))
    BY <2>2, <2>3, <2>6, RawFollows
  <2>8. Writable(Len(t))
    <3>1. Limit(W32) \in Nat
      BY LimitType, WidthType
    <3>2. QED
      BY <2>2, <2>3, <2>6, <3>1 DEF Writable
  <2>9. ReadRaw(bs, r) = [at |-> size.at + size.value, ok |-> TRUE,
                          value |-> SubSeq(bs, size.at + 1, size.at + size.value)]
    BY <1>1, <1>4 DEF ReadRaw
  <2>10. ReadRaw(bs, r) = [at |-> p + W32 + Len(t), ok |-> TRUE, value |-> t]
    BY <2>3, <2>5, <2>6, <2>9
  <2>11. IsReader(bs, ReadRaw(bs, r))
    BY <1>2, <2>3, <2>4, <2>6, <2>10, WidthType DEF IsReader
  <2>12. QED
    BY <2>2, <2>3, <2>6, <2>7, <2>8, <2>10, <2>11
<1>5. CASE ~Require(bs, size, size.value)
  <2>1. ReadRaw(bs, r) = [at |-> size.at, ok |-> FALSE, value |-> <<>>]
    BY <1>1, <1>5 DEF ReadRaw
  <2>2. QED
    BY <1>3, <2>1 DEF IsReader
<1>6. QED
  BY <1>4, <1>5

\* A valid read of a raw text is the same in every frame that begins with this one.
LEMMA RawBegins ==
  ASSUME NEW bs \in Seq(Byte), NEW cs \in Seq(Byte), Begins(bs, cs),
         NEW r, IsReader(bs, r), ReadRaw(bs, r).ok
  PROVE  IsReader(cs, r) /\ ReadRaw(cs, r) = ReadRaw(bs, r)
<1>1. PICK t \in Seq(Byte) :
        /\ r.ok /\ Writable(Len(t)) /\ Follows(bs, r.at, WriteRaw(t))
        /\ ReadRaw(bs, r) = [at |-> r.at + W32 + Len(t), ok |-> TRUE, value |-> t]
  BY RawRead
<1>2. IsReader(cs, r) /\ r.at \in Nat
  BY LenProperties DEF Begins, IsReader
<1>3. Follows(cs, r.at, WriteRaw(t))
  BY <1>1, <1>2, RawType, FollowsBegins
<1>4. QED
  BY <1>1, <1>2, <1>3, RawArrives

-----------------------------------------------------------------------------
(* Values.                                                                  *)

\* An integer of one byte is written as that byte.
LEMMA OneByte ==
  ASSUME NEW n \in Byte
  PROVE  /\ <<n>> \in Seq(Byte) /\ Len(<<n>>) = 1 /\ <<n>>[1] = n
         /\ WriteInteger(n, 1) = <<n>> /\ Limit(1) = Base /\ n \in Nat
<1>1. n \in Nat /\ n < Base /\ Base \in Nat \ {0}
  BY WidthType DEF Byte
<1>2. Power[0] = 1 /\ Power[1] = Base
  <2>1. Power[0 + 1] = Base * Power[0] /\ Power[0] = 1
    BY PowerEquation
  <2>2. QED
    BY <1>1, <2>1
<1>3. <<n>> \in Seq(Byte) /\ Len(<<n>>) = 1 /\ <<n>>[1] = n
  OBVIOUS
<1>4. (n \div 1) % Base = n
  BY <1>1
<1>5. PICK s : s = WriteInteger(n, 1)
  OBVIOUS
<1>6. s \in Seq(Byte) /\ Len(s) = 1 /\ \A i \in 1..1 : s[i] = (n \div Power[i - 1]) % Base
  BY <1>1, <1>5, WriteType
<1>7. s[1] = n
  BY <1>2, <1>4, <1>6
<1>8. s = <<n>>
  BY <1>3, <1>6, <1>7, SeqEqual
<1>9. QED
  BY <1>1, <1>2, <1>3, <1>5, <1>8 DEF Limit

\* A byte that follows is read.
LEMMA ByteArrives ==
  ASSUME NEW bs \in Seq(Byte), NEW r, IsReader(bs, r), r.ok, NEW n \in Byte,
         Follows(bs, r.at, <<n>>)
  PROVE  ReadInteger(bs, r, 1) = [at |-> r.at + 1, ok |-> TRUE, value |-> n]
<1>1. n \in 0..Limit(1) - 1 /\ Follows(bs, r.at, WriteInteger(n, 1))
  BY OneByte DEF Byte
<1>2. QED
  BY <1>1, IntegerArrives

\* A byte that is read follows.
LEMMA ByteRead ==
  ASSUME NEW bs \in Seq(Byte), NEW r, IsReader(bs, r), ReadInteger(bs, r, 1).ok
  PROVE  \E n \in Byte :
           /\ r.ok /\ Follows(bs, r.at, <<n>>)
           /\ ReadInteger(bs, r, 1) = [at |-> r.at + 1, ok |-> TRUE, value |-> n]
<1>1. PICK n : n = ReadInteger(bs, r, 1).value
  OBVIOUS
<1>2. r.ok /\ n \in 0..Limit(1) - 1 /\ Follows(bs, r.at, WriteInteger(n, 1))
  BY <1>1, IntegerRead
<1>3. 0 \in Byte
  BY WidthType DEF Byte
<1>4. n \in Byte
  BY <1>2, <1>3, OneByte DEF Byte
<1>5. QED
  BY <1>2, <1>4, OneByte, ByteArrives

\* The kinds and the rest of a value's bytes.
LEMMA EncodeForms ==
  /\ EncodeValue(Undefined) = <<undefined>> \o <<>>
  /\ \A n : \A kind \in Numbers : EncodeValue(Number(kind, n)) = <<kind>> \o WriteInteger(n, W64)
  /\ EncodeValue(Boolean(0)) = <<boolean>> \o <<0>>
  /\ EncodeValue(Boolean(1)) = <<boolean>> \o <<1>>
  /\ \A t : EncodeValue(String(t)) = <<string>> \o WriteRaw(t)
  /\ \A n : EncodeValue(Number(boolean, n)) = <<boolean>> \o <<n>>
  BY DEF EncodeValue, Undefined, Number, Boolean, String, Numbers,
         undefined, signed_integer, unsigned_integer, real, boolean, string

\* The kinds are different bytes.
LEMMA KindsAreBytes ==
  /\ {undefined, boolean, string, 0, 1} \cup Numbers \subseteq Byte
  /\ undefined \notin Numbers /\ boolean \notin Numbers /\ string \notin Numbers
  /\ undefined # boolean /\ undefined # string /\ boolean # string
  BY WidthType DEF Byte, Numbers,
         undefined, signed_integer, unsigned_integer, real, boolean, string

\* The bytes of a value: its kind, and what follows it.
LEMMA EncodeType ==
  ASSUME NEW v, IsValue(v)
  PROVE  \E kind \in Byte, s \in Seq(Byte) :
            /\ EncodeValue(v) = <<kind>> \o s /\ v.kind = kind
            /\ EncodeValue(v) \in Seq(Byte) /\ Len(EncodeValue(v)) = 1 + Len(s)
            /\ Len(s) \in Nat
<1>1. ASSUME NEW kind \in Byte, NEW s \in Seq(Byte)
      PROVE  <<kind>> \o s \in Seq(Byte) /\ Len(<<kind>> \o s) = 1 + Len(s) /\ Len(s) \in Nat
  <2>1. PICK k \in Seq(Byte) : k = <<kind>> /\ Len(k) = 1
    BY OneByte
  <2>2. k \o s \in Seq(Byte) /\ Len(k \o s) = 1 + Len(s) /\ Len(s) \in Nat
    BY <2>1, ConcatProperties, LenProperties
  <2>3. QED
    BY <2>1, <2>2
<1>2. PICK kind \in Byte, s \in Seq(Byte) : EncodeValue(v) = <<kind>> \o s /\ v.kind = kind
  <2>1. CASE v = Undefined
    <3>1. <<>> \in Seq(Byte) /\ v.kind = undefined
      BY <2>1, EmptySeq DEF Undefined, Number
    <3>2. QED
      BY <2>1, <3>1, EncodeForms, KindsAreBytes
  <2>2. CASE v = Boolean(0)
    <3>1. <<0>> \in Seq(Byte) /\ v.kind = boolean
      BY <2>2, OneByte, KindsAreBytes DEF Boolean, Number
    <3>2. QED
      BY <2>2, <3>1, EncodeForms, KindsAreBytes
  <2>3. CASE v = Boolean(1)
    <3>1. <<1>> \in Seq(Byte) /\ v.kind = boolean
      BY <2>3, OneByte, KindsAreBytes DEF Boolean, Number
    <3>2. QED
      BY <2>3, <3>1, EncodeForms, KindsAreBytes
  <2>4. CASE \E kind \in Numbers : v = Number(kind, v.bits) /\ v.bits \in 0..Limit(W64) - 1
    <3>1. PICK kind \in Numbers, n \in 0..Limit(W64) - 1 : v = Number(kind, n)
      BY <2>4
    <3>2. n \in Nat
      BY <3>1, LimitType, WidthType
    <3>3. WriteInteger(n, W64) \in Seq(Byte) /\ v.kind = kind
      BY <3>1, <3>2, WriteType, WidthType DEF Number
    <3>4. kind \in Byte
      BY KindsAreBytes
    <3>5. EncodeValue(v) = <<kind>> \o WriteInteger(n, W64)
      BY <3>1, EncodeForms
    <3>6. QED
      BY <3>3, <3>4, <3>5
  <2>5. CASE v = String(v.text) /\ v.text \in Seq(Byte)
    <3>1. WriteRaw(v.text) \in Seq(Byte) /\ v.kind = string
      BY <2>5, RawType DEF String
    <3>2. EncodeValue(v) = <<string>> \o WriteRaw(v.text)
      BY <2>5, EncodeForms
    <3>3. QED
      BY <3>1, <3>2, KindsAreBytes
  <2>6. QED
    BY <2>1, <2>2, <2>3, <2>4, <2>5 DEF IsValue
<1>3. QED
  BY <1>1, <1>2

\* What decode_value gives, by the kind it has read.
LEMMA DecodeForms ==
  ASSUME NEW bs, NEW r, NEW k, k = ReadInteger(bs, r, 1)
  PROVE  /\ k.value = undefined => DecodeValue(bs, r) = Yields(k, Undefined)
         /\ k.value \in Numbers =>
              DecodeValue(bs, r) =
                Yields(ReadInteger(bs, k, W64), Number(k.value, ReadInteger(bs, k, W64).value))
         /\ k.value = boolean =>
              DecodeValue(bs, r) =
                Yields(ReadInteger(bs, k, 1), Boolean(ReadInteger(bs, k, 1).value))
         /\ k.value = string =>
              DecodeValue(bs, r) = Yields(ReadRaw(bs, k), String(ReadRaw(bs, k).value))
         /\ k.value \notin {undefined, boolean, string} \cup Numbers =>
              DecodeValue(bs, r) = UnknownKind(k)
<1>1. DecodeValue(bs, r) =
        IF k.value = undefined THEN Yields(k, Undefined)
        ELSE IF k.value \in Numbers
        THEN Yields(ReadInteger(bs, k, W64), Number(k.value, ReadInteger(bs, k, W64).value))
        ELSE IF k.value = boolean
        THEN Yields(ReadInteger(bs, k, 1), Boolean(ReadInteger(bs, k, 1).value))
        ELSE IF k.value = string
        THEN Yields(ReadRaw(bs, k), String(ReadRaw(bs, k).value))
        ELSE UnknownKind(k)
  BY DEF DecodeValue
<1>2. QED
  BY <1>1, KindsAreBytes

\* The parts of what a read yields.
LEMMA YieldsFields ==
  \A r, v : Yields(r, v).at = r.at /\ Yields(r, v).ok = r.ok /\ Yields(r, v).value = v
              /\ UnknownKind(r).at = r.at /\ UnknownKind(r).ok = FALSE
  BY DEF Yields, UnknownKind

\* The kind, and the reader behind it.
LEMMA KindArrives ==
  ASSUME NEW bs \in Seq(Byte), NEW r, IsReader(bs, r), r.ok, NEW kind \in Byte,
         NEW s \in Seq(Byte), Follows(bs, r.at, <<kind>> \o s)
  PROVE  \E k : /\ k = ReadInteger(bs, r, 1) /\ k = [at |-> r.at + 1, ok |-> TRUE, value |-> kind]
                /\ IsReader(bs, k) /\ Follows(bs, k.at, s) /\ r.at \in Nat
<1>1. PICK k : k = ReadInteger(bs, r, 1)
  OBVIOUS
<1>2. PICK p \in Nat : p = r.at
  BY LenProperties DEF IsReader
<1>3. PICK t \in Seq(Byte) : t = <<kind>> /\ Len(t) = 1
  BY OneByte
<1>4. Follows(bs, p, t) /\ Follows(bs, p + 1, s)
  BY <1>2, <1>3, FollowsConcat
<1>5. k = [at |-> r.at + 1, ok |-> TRUE, value |-> kind]
  BY <1>1, <1>2, <1>3, <1>4, ByteArrives
<1>6. IsReader(bs, k)
  BY <1>1, IntegerRead
<1>7. QED
  BY <1>1, <1>2, <1>4, <1>5, <1>6

\* decode_value reads what encode_value wrote.
LEMMA ValueArrives ==
  ASSUME NEW bs \in Seq(Byte), NEW r, IsReader(bs, r), r.ok,
         NEW v, IsValue(v), Writable(Len(v.text)), Follows(bs, r.at, EncodeValue(v))
  PROVE  DecodeValue(bs, r) = [at |-> r.at + Len(EncodeValue(v)), ok |-> TRUE, value |-> v]
<1>1. PICK kind \in Byte, s \in Seq(Byte) :
         /\ EncodeValue(v) = <<kind>> \o s /\ v.kind = kind
         /\ Len(EncodeValue(v)) = 1 + Len(s) /\ Len(s) \in Nat
  BY EncodeType
<1>2. PICK k : /\ k = ReadInteger(bs, r, 1) /\ k = [at |-> r.at + 1, ok |-> TRUE, value |-> kind]
               /\ IsReader(bs, k) /\ Follows(bs, k.at, s) /\ r.at \in Nat
  BY <1>1, KindArrives
<1>3. k.at = r.at + 1 /\ k.ok /\ k.ok = TRUE /\ k.value = kind
  BY <1>2
<1>4. CASE v = Undefined
  <2>1. kind = undefined /\ Len(s) = 0
    <3>1. kind = undefined
      BY <1>1, <1>4 DEF Undefined, Number
    <3>2. PICK t \in Seq(Byte), e \in Seq(Byte) : t = <<kind>> /\ Len(t) = 1 /\ e = <<>> /\ Len(e) = 0
      BY OneByte, EmptySeq
    <3>3. EncodeValue(v) = t \o e /\ Len(t \o e) = 1 + 0
      BY <1>4, <3>1, <3>2, EncodeForms, ConcatProperties
    <3>4. QED
      BY <1>1, <3>1, <3>3
  <2>2. DecodeValue(bs, r) = Yields(k, Undefined)
    BY <1>2, <1>3, <2>1, DecodeForms
  <2>3. QED
    BY <1>1, <1>2, <1>3, <1>4, <2>1, <2>2 DEF Yields
<1>5. CASE v \in {Boolean(0), Boolean(1)}
  <2>1. PICK n \in {0, 1} : v = Boolean(n)
    BY <1>5
  <2>2. kind = boolean /\ EncodeValue(v) = <<boolean>> \o <<n>> /\ n \in Byte
    BY <1>1, <2>1, EncodeForms, KindsAreBytes DEF Boolean, Number
  <2>3. PICK j : /\ j = [at |-> r.at + 1, ok |-> TRUE, value |-> kind] /\ j = ReadInteger(bs, r, 1)
                 /\ IsReader(bs, j) /\ Follows(bs, j.at, <<n>>)
    BY <2>2, KindArrives, OneByte, SMTT(20)
  <2>4. k = j
    BY <1>2, <2>3
  <2>5. PICK flag : flag = ReadInteger(bs, k, 1)
    OBVIOUS
  <2>6. flag = [at |-> k.at + 1, ok |-> TRUE, value |-> n]
    BY <1>3, <2>2, <2>3, <2>4, <2>5, ByteArrives
  <2>7. DecodeValue(bs, r) = Yields(flag, Boolean(flag.value))
    BY <1>2, <1>3, <2>2, <2>5, DecodeForms
  <2>8. Len(EncodeValue(v)) = 2
    <3>1. PICK t \in Seq(Byte), e \in Seq(Byte) : t = <<boolean>> /\ Len(t) = 1 /\ e = <<n>> /\ Len(e) = 1
      BY <2>2, OneByte, KindsAreBytes
    <3>2. Len(t \o e) = 2
      BY <3>1, ConcatProperties
    <3>3. QED
      BY <2>2, <3>1, <3>2
  <2>9. QED
    <3>1. flag.at = r.at + Len(EncodeValue(v)) /\ flag.ok = TRUE
      BY <1>2, <1>3, <2>6, <2>8
    <3>2. DecodeValue(bs, r) = Yields(flag, v)
      BY <2>1, <2>6, <2>7
    <3>3. QED
      BY <3>1, <3>2 DEF Yields
<1>6. CASE \E j \in Numbers : v = Number(j, v.bits) /\ v.bits \in 0..Limit(W64) - 1
  <2>1. PICK n \in 0..Limit(W64) - 1 : v = Number(kind, n) /\ kind \in Numbers
    BY <1>1, <1>6 DEF Number
  <2>2. n \in Nat
    BY LimitType, WidthType
  <2>3. PICK t \in Seq(Byte) : t = WriteInteger(n, W64) /\ Len(t) = W64
    BY <2>2, WriteType, WidthType
  <2>4. EncodeValue(v) = <<kind>> \o t
    BY <2>1, <2>3, EncodeForms
  <2>5. PICK j : /\ j = [at |-> r.at + 1, ok |-> TRUE, value |-> kind] /\ j = ReadInteger(bs, r, 1)
                 /\ IsReader(bs, j) /\ Follows(bs, j.at, t)
    BY <2>4, KindArrives
  <2>6. k = j
    BY <1>2, <2>5
  <2>7. PICK word : word = ReadInteger(bs, k, W64)
    OBVIOUS
  <2>8. word = [at |-> k.at + W64, ok |-> TRUE, value |-> n]
    BY <1>3, <2>3, <2>5, <2>6, <2>7, IntegerArrives, WidthType, ZenonT(30)
  <2>9. DecodeValue(bs, r) = Yields(word, Number(kind, word.value))
    BY <1>2, <1>3, <2>1, <2>7, DecodeForms
  <2>10. Len(EncodeValue(v)) = 1 + W64
    <3>1. PICK e \in Seq(Byte) : e = <<kind>> /\ Len(e) = 1
      BY OneByte
    <3>2. Len(e \o t) = 1 + W64
      BY <2>3, <3>1, ConcatProperties
    <3>3. QED
      BY <2>4, <3>1, <3>2
  <2>11. QED
    <3>1. word.at = r.at + Len(EncodeValue(v)) /\ word.ok = TRUE
      <4>1. word.at = k.at + W64 /\ word.ok = TRUE
        BY <2>8
      <4>2. k.at = r.at + 1 /\ r.at \in Nat /\ W64 \in Nat
        BY <1>2, <1>3, WidthType
      <4>3. word.at = r.at + (1 + W64)
        <5>1. PICK p \in Nat, u \in Nat : p = r.at /\ u = W64
          BY <4>2
        <5>2. word.at = (p + 1) + u
          BY <4>1, <4>2, <5>1
        <5>3. (p + 1) + u = p + (1 + u)
          BY ONLY p \in Nat, u \in Nat
        <5>4. QED
          BY <5>1, <5>2, <5>3
      <4>4. QED
        BY <2>10, <4>1, <4>3
    <3>2. DecodeValue(bs, r) = Yields(word, v)
      BY <2>1, <2>8, <2>9
    <3>3. QED
      BY <3>1, <3>2 DEF Yields
<1>7. CASE v = String(v.text) /\ v.text \in Seq(Byte)
  <2>1. PICK t \in Seq(Byte) : v = String(t) /\ Writable(Len(t))
    BY <1>7
  <2>2. PICK u \in Seq(Byte) : u = WriteRaw(t) /\ Len(u) = W32 + Len(t)
    BY RawType
  <2>3. kind = string /\ EncodeValue(v) = <<kind>> \o u
    BY <1>1, <2>1, <2>2, EncodeForms DEF String
  <2>4. PICK j : /\ j = [at |-> r.at + 1, ok |-> TRUE, value |-> kind] /\ j = ReadInteger(bs, r, 1)
                 /\ IsReader(bs, j) /\ Follows(bs, j.at, u)
    BY <2>3, KindArrives
  <2>5. k = j
    BY <1>2, <2>4
  <2>6. PICK raw : raw = ReadRaw(bs, k)
    OBVIOUS
  <2>7. raw = [at |-> k.at + W32 + Len(t), ok |-> TRUE, value |-> t]
    <3>1. IsReader(bs, k) /\ k.ok /\ Follows(bs, k.at, WriteRaw(t))
      BY <1>3, <2>2, <2>4, <2>5
    <3>2. QED
      BY <2>1, <2>6, <3>1, RawArrives
  <2>8. DecodeValue(bs, r) = Yields(raw, String(raw.value))
    BY <1>2, <1>3, <2>3, <2>6, DecodeForms, ZenonT(30)
  <2>9. Len(EncodeValue(v)) = 1 + W32 + Len(t) /\ Len(t) \in Nat
    <3>1. PICK e \in Seq(Byte) : e = <<kind>> /\ Len(e) = 1
      BY OneByte
    <3>2. Len(t) \in Nat
      BY LenProperties
    <3>3. Len(e \o u) = 1 + W32 + Len(t)
      BY <2>2, <3>1, <3>2, ConcatProperties, WidthType
    <3>4. QED
      BY <2>3, <3>1, <3>2, <3>3
  <2>10. QED
    <3>1. raw.at = r.at + Len(EncodeValue(v)) /\ raw.ok = TRUE
      BY <1>2, <1>3, <2>7, <2>9, WidthType
    <3>2. DecodeValue(bs, r) = Yields(raw, v)
      BY <2>1, <2>7, <2>8
    <3>3. QED
      BY <3>1, <3>2 DEF Yields
<1>8. QED
  BY <1>4, <1>5, <1>6, <1>7 DEF IsValue

\* A value is one of its forms.
LEMMA OwnForm == \A v : v \in Forms(v)
  BY WidthType DEF Forms, Boolean

\* A value that was read out of bs from position p on, and left the reader at q.
ReadAs(bs, p, q, v) ==
  /\ IsValue(v) /\ Writable(Len(v.text))
  /\ \E raw \in Forms(v) : Follows(bs, p, EncodeValue(raw)) /\ q = p + Len(EncodeValue(raw))

\* An empty text fits every frame.
LEMMA EmptyWritable == Writable(0) /\ Len(<<>>) = 0
  BY LimitType, WidthType DEF Writable

\* What decode_value reads validly is a value of which the bytes are a form.
LEMMA ValueRead ==
  ASSUME NEW bs \in Seq(Byte), NEW r, IsReader(bs, r)
  PROVE  /\ IsReader(bs, DecodeValue(bs, r))
         /\ DecodeValue(bs, r).ok =>
              r.ok /\ ReadAs(bs, r.at, DecodeValue(bs, r).at, DecodeValue(bs, r).value)
<1>1. PICK k : k = ReadInteger(bs, r, 1)
  OBVIOUS
<1>2. IsReader(bs, k) /\ Len(bs) \in Nat
  BY <1>1, IntegerRead, LenProperties
<1>3. CASE ~k.ok
  <2>1. k = [at |-> r.at, ok |-> FALSE, value |-> 0]
    BY <1>1, <1>3, IntegerRead
  <2>2. DecodeValue(bs, r) = Yields(k, Undefined)
    BY <1>1, <2>1, DecodeForms DEF undefined
  <2>3. QED
    <3>1. DecodeValue(bs, r).at = k.at /\ DecodeValue(bs, r).ok = k.ok
      BY <2>2, YieldsFields
    <3>2. QED
      BY <1>2, <1>3, <3>1 DEF IsReader
<1>4. CASE k.ok
  <2>1. PICK kind \in Byte :
          /\ r.ok /\ Follows(bs, r.at, <<kind>>)
          /\ k = [at |-> r.at + 1, ok |-> TRUE, value |-> kind]
    BY <1>1, <1>4, ByteRead
  <2>2. PICK p \in Nat : p = r.at
    BY <1>2 DEF IsReader
  <2>3. k.at = p + 1 /\ k.value = kind /\ k.ok = TRUE
    BY <2>1, <2>2
  <2>4. PICK e \in Seq(Byte) : e = <<kind>> /\ Len(e) = 1 /\ Follows(bs, p, e)
    BY <2>1, <2>2, OneByte
  \* It is enough that the rest of the value's bytes follow.
  <2>5. ASSUME NEW v, IsValue(v), Writable(Len(v.text)), NEW raw \in Forms(v), NEW s \in Seq(Byte),
               EncodeValue(raw) = <<kind>> \o s, Follows(bs, p + 1, s), NEW q, q = p + 1 + Len(s)
        PROVE  ReadAs(bs, p, q, v)
    <3>1. Follows(bs, p, e \o s)
      BY <2>4, <2>5, FollowsConcat
    <3>2. Len(e \o s) = 1 + Len(s) /\ Len(s) \in Nat
      BY <2>4, ConcatProperties, LenProperties
    <3>3. q = p + Len(e \o s)
      BY <2>5, <3>2
    <3>4. QED
      BY <2>4, <2>5, <3>1, <3>3 DEF ReadAs
  <2>6. CASE kind = undefined
    <3>1. DecodeValue(bs, r) = Yields(k, Undefined)
      BY <1>1, <2>3, <2>6, DecodeForms
    <3>2. Undefined.text = <<>> /\ IsValue(Undefined)
      BY DEF Undefined, Number, IsValue
    <3>3. PICK s \in Seq(Byte) : s = <<>> /\ Len(s) = 0
      BY EmptySeq
    <3>4. Follows(bs, p + 1, s)
      BY <1>2, <2>3, <3>3 DEF Follows, IsReader
    <3>5. EncodeValue(Undefined) = <<kind>> \o s
      BY <2>6, <3>3, EncodeForms
    <3>6. p + 1 = p + 1 + Len(s)
      BY <3>3
    <3>7. ReadAs(bs, p, p + 1, Undefined)
      BY <2>5, <3>2, <3>4, <3>5, <3>6, EmptyWritable, OwnForm
    <3>8. QED
      <4>1. /\ DecodeValue(bs, r).at = p + 1 /\ DecodeValue(bs, r).ok = k.ok
            /\ DecodeValue(bs, r).value = Undefined
        BY <2>3, <3>1, YieldsFields
      <4>2. IsReader(bs, DecodeValue(bs, r))
        BY <1>2, <2>3, <4>1 DEF IsReader
      <4>3. QED
        BY <2>1, <2>2, <3>7, <4>1, <4>2
  <2>7. CASE kind \in Numbers
    <3>1. PICK word : word = ReadInteger(bs, k, W64)
      OBVIOUS
    <3>2. DecodeValue(bs, r) = Yields(word, Number(kind, word.value))
      BY <1>1, <2>3, <2>7, <3>1, DecodeForms
    <3>3. IsReader(bs, word)
      BY <1>2, <3>1, IntegerRead, WidthType
    <3>4. ASSUME word.ok PROVE ReadAs(bs, p, word.at, Number(kind, word.value))
      <4>1. /\ word.at = p + 1 + W64 /\ word.value \in 0..Limit(W64) - 1
            /\ Follows(bs, p + 1, WriteInteger(word.value, W64))
        BY <1>2, <2>3, <3>1, <3>4, IntegerRead, WidthType
      <4>2. PICK n \in Nat : n = word.value
        <5>1. Limit(W64) \in Nat
          BY LimitType, WidthType
        <5>2. word.value \in Nat
          BY <4>1, <5>1
        <5>3. QED
          BY <5>2
      <4>3. PICK s \in Seq(Byte) : s = WriteInteger(n, W64) /\ Len(s) = W64
        BY WriteType, WidthType
      <4>4. PICK v : v = Number(kind, n)
        OBVIOUS
      <4>5. v.text = <<>> /\ IsValue(v)
        BY <2>7, <4>1, <4>2, <4>4 DEF IsValue, Number
      <4>6. EncodeValue(v) = <<kind>> \o s /\ Follows(bs, p + 1, s)
        BY <2>7, <4>1, <4>2, <4>3, <4>4, EncodeForms
      <4>7. ReadAs(bs, p, word.at, v)
        BY <2>5, <4>1, <4>3, <4>5, <4>6, EmptyWritable, OwnForm
      <4>8. QED
        BY <4>2, <4>4, <4>7
    <3>5. QED
      BY <2>1, <2>2, <3>2, <3>3, <3>4, YieldsFields DEF IsReader
  <2>8. CASE kind = boolean
    <3>1. PICK flag : flag = ReadInteger(bs, k, 1)
      OBVIOUS
    <3>2. DecodeValue(bs, r) = Yields(flag, Boolean(flag.value))
      BY <1>1, <2>3, <2>8, <3>1, DecodeForms
    <3>3. IsReader(bs, flag)
      BY <1>2, <3>1, IntegerRead
    <3>4. ASSUME flag.ok PROVE ReadAs(bs, p, flag.at, Boolean(flag.value))
      <4>1. PICK n \in Byte :
              Follows(bs, p + 1, <<n>>) /\ flag = [at |-> p + 1 + 1, ok |-> TRUE, value |-> n]
        BY <1>2, <2>3, <3>1, <3>4, ByteRead
      <4>2. PICK v : v = Boolean(n)
        OBVIOUS
      <4>3. v \in {Boolean(0), Boolean(1)} /\ IsValue(v) /\ v.text = <<>>
        BY <4>2 DEF IsValue, Number, Boolean
      <4>4. PICK raw \in Forms(v) : raw = Number(boolean, n)
        <5>1. CASE n = 0
          BY <4>2, <5>1, OwnForm DEF Boolean
        <5>2. CASE n # 0
          <6>1. v = Boolean(1) /\ n \in 1..Base - 1
            BY <4>2, <5>2, WidthType DEF Boolean, Byte
          <6>2. QED
            BY <6>1 DEF Forms
        <5>3. QED
          BY <5>1, <5>2
      <4>5. PICK s \in Seq(Byte) : s = <<n>> /\ Len(s) = 1
        BY OneByte
      <4>6. EncodeValue(raw) = <<kind>> \o s /\ Follows(bs, p + 1, s)
        BY <2>8, <4>1, <4>4, <4>5, EncodeForms
      <4>7. ReadAs(bs, p, flag.at, v)
        BY <2>5, <4>1, <4>3, <4>4, <4>5, <4>6, EmptyWritable
      <4>8. QED
        BY <4>1, <4>2, <4>7
    <3>5. QED
      BY <2>1, <2>2, <3>2, <3>3, <3>4, YieldsFields DEF IsReader
  <2>9. CASE kind = string
    <3>1. PICK raw : raw = ReadRaw(bs, k)
      OBVIOUS
    <3>2. DecodeValue(bs, r) = Yields(raw, String(raw.value))
      BY <1>1, <2>3, <2>9, <3>1, DecodeForms
    <3>3. IsReader(bs, raw)
      BY <1>2, <3>1, RawRead
    <3>4. ASSUME raw.ok PROVE ReadAs(bs, p, raw.at, String(raw.value))
      <4>1. PICK t \in Seq(Byte) :
              /\ Writable(Len(t)) /\ Follows(bs, p + 1, WriteRaw(t))
              /\ raw = [at |-> p + 1 + W32 + Len(t), ok |-> TRUE, value |-> t]
        BY <1>2, <2>3, <3>1, <3>4, RawRead
      <4>2. PICK s \in Seq(Byte) : s = WriteRaw(t) /\ Len(s) = W32 + Len(t)
        BY RawType
      <4>3. PICK v : v = String(t)
        OBVIOUS
      <4>4. v.text = t /\ IsValue(v)
        BY <4>3 DEF IsValue, String
      <4>5. EncodeValue(v) = <<kind>> \o s /\ Follows(bs, p + 1, s)
        BY <2>9, <4>1, <4>2, <4>3, EncodeForms
      <4>6. raw.at = p + 1 + Len(s)
        BY <4>1, <4>2, WidthType, LenProperties
      <4>7. ReadAs(bs, p, raw.at, v)
        BY <2>5, <4>1, <4>4, <4>5, <4>6, OwnForm
      <4>8. QED
        BY <4>1, <4>3, <4>7
    <3>5. QED
      BY <2>1, <2>2, <3>2, <3>3, <3>4, YieldsFields DEF IsReader
  <2>10. CASE kind \notin {undefined, boolean, string} \cup Numbers
    <3>1. DecodeValue(bs, r) = UnknownKind(k)
      BY <1>1, <2>3, <2>10, DecodeForms
    <3>2. QED
      BY <1>2, <3>1, YieldsFields DEF IsReader
  <2>11. QED
    BY <2>6, <2>7, <2>8, <2>9, <2>10
<1>5. QED
  BY <1>3, <1>4

\* What is read out of a frame is read out of one that begins with it.
LEMMA ValueBegins ==
  ASSUME NEW bs \in Seq(Byte), NEW cs \in Seq(Byte), Begins(bs, cs),
         NEW r, IsReader(bs, r), DecodeValue(bs, r).ok
  PROVE  DecodeValue(cs, r) = DecodeValue(bs, r)
<1>1. PICK k : k = ReadInteger(bs, r, 1)
  OBVIOUS
<1>2. IsReader(bs, k)
  BY <1>1, IntegerRead
<1>3. k.ok
  <2>1. SUFFICES ASSUME ~k.ok PROVE FALSE
    OBVIOUS
  <2>2. k = [at |-> r.at, ok |-> FALSE, value |-> 0]
    BY <1>1, <2>1, IntegerRead
  <2>3. DecodeValue(bs, r) = Yields(k, Undefined)
    BY <1>1, <2>2, DecodeForms DEF undefined
  <2>4. QED
    BY <2>2, <2>3, YieldsFields
<1>4. k = ReadInteger(cs, r, 1)
  BY <1>1, <1>3, IntegerBegins
<1>5. CASE k.value = undefined
  BY <1>1, <1>4, <1>5, DecodeForms
<1>6. CASE k.value \in Numbers
  <2>1. DecodeValue(bs, r) =
          Yields(ReadInteger(bs, k, W64), Number(k.value, ReadInteger(bs, k, W64).value))
    BY <1>1, <1>6, DecodeForms
  <2>2. DecodeValue(cs, r) =
          Yields(ReadInteger(cs, k, W64), Number(k.value, ReadInteger(cs, k, W64).value))
    BY <1>4, <1>6, DecodeForms
  <2>3. ReadInteger(bs, k, W64).ok
    BY <2>1, YieldsFields
  <2>4. ReadInteger(cs, k, W64) = ReadInteger(bs, k, W64)
    BY <1>2, <2>3, IntegerBegins, WidthType
  <2>5. QED
    BY <2>1, <2>2, <2>4
<1>7. CASE k.value = boolean
  <2>1. DecodeValue(bs, r) = Yields(ReadInteger(bs, k, 1), Boolean(ReadInteger(bs, k, 1).value))
    BY <1>1, <1>7, DecodeForms
  <2>2. DecodeValue(cs, r) = Yields(ReadInteger(cs, k, 1), Boolean(ReadInteger(cs, k, 1).value))
    BY <1>4, <1>7, DecodeForms
  <2>3. ReadInteger(bs, k, 1).ok
    BY <2>1, YieldsFields
  <2>4. ReadInteger(cs, k, 1) = ReadInteger(bs, k, 1)
    BY <1>2, <2>3, IntegerBegins
  <2>5. QED
    BY <2>1, <2>2, <2>4
<1>8. CASE k.value = string
  <2>1. DecodeValue(bs, r) = Yields(ReadRaw(bs, k), String(ReadRaw(bs, k).value))
    BY <1>1, <1>8, DecodeForms
  <2>2. DecodeValue(cs, r) = Yields(ReadRaw(cs, k), String(ReadRaw(cs, k).value))
    BY <1>4, <1>8, DecodeForms
  <2>3. ReadRaw(bs, k).ok
    BY <2>1, YieldsFields
  <2>4. ReadRaw(cs, k) = ReadRaw(bs, k)
    BY <1>2, <2>3, RawBegins
  <2>5. QED
    BY <2>1, <2>2, <2>4
<1>9. CASE k.value \notin {undefined, boolean, string} \cup Numbers
  <2>1. DecodeValue(bs, r) = UnknownKind(k)
    BY <1>1, <1>9, DecodeForms
  <2>2. QED
    BY <2>1, YieldsFields
<1>10. QED
  BY <1>5, <1>6, <1>7, <1>8, <1>9

\* The set of the values.
Wire ==
  {Undefined, Boolean(0), Boolean(1)}
    \cup {Number(p[1], p[2]) : p \in Numbers \X (0..Limit(W64) - 1)}
    \cup {String(t) : t \in Seq(Byte)}

\* Numbers are wire values.
LEMMA NumberWire == \A kind \in Numbers, n \in 0..Limit(W64) - 1 : Number(kind, n) \in Wire
<1>1. ASSUME NEW kind \in Numbers, NEW n \in 0..Limit(W64) - 1 PROVE Number(kind, n) \in Wire
  <2>1. PICK p \in Numbers \X (0..Limit(W64) - 1) : p[1] = kind /\ p[2] = n
    <3>1. <<kind, n>> \in Numbers \X (0..Limit(W64) - 1) /\ <<kind, n>>[1] = kind /\ <<kind, n>>[2] = n
      OBVIOUS
    <3>2. QED
      BY <3>1
  <2>2. Number(p[1], p[2]) \in Wire
    BY DEF Wire
  <2>3. QED
    BY <2>1, <2>2
<1>2. QED
  BY <1>1

\* The wire values are what the constructors of value make.
LEMMA WireValue ==
  ASSUME NEW v
  PROVE  IsValue(v) <=> v \in Wire
<1>1. ASSUME IsValue(v) PROVE v \in Wire
  <2>1. CASE v \in {Undefined, Boolean(0), Boolean(1)}
    BY <2>1 DEF Wire
  <2>2. CASE \E kind \in Numbers : v = Number(kind, v.bits) /\ v.bits \in 0..Limit(W64) - 1
    BY <2>2, NumberWire
  <2>3. CASE v = String(v.text) /\ v.text \in Seq(Byte)
    BY <2>3 DEF Wire
  <2>4. QED
    BY <1>1, <2>1, <2>2, <2>3 DEF IsValue
<1>2. ASSUME v \in Wire PROVE IsValue(v)
  <2>1. CASE v \in {Undefined, Boolean(0), Boolean(1)}
    BY <2>1 DEF IsValue
  <2>2. CASE v \in {Number(p[1], p[2]) : p \in Numbers \X (0..Limit(W64) - 1)}
    <3>1. PICK p \in Numbers \X (0..Limit(W64) - 1) : v = Number(p[1], p[2])
      BY <2>2
    <3>2. p[1] \in Numbers /\ p[2] \in 0..Limit(W64) - 1 /\ v.bits = p[2]
      BY <3>1 DEF Number
    <3>3. QED
      BY <3>1, <3>2 DEF IsValue
  <2>3. CASE v \in {String(t) : t \in Seq(Byte)}
    <3>1. PICK t \in Seq(Byte) : v = String(t)
      BY <2>3
    <3>2. v.text = t
      BY <3>1 DEF String
    <3>3. QED
      BY <3>1, <3>2 DEF IsValue
  <2>4. QED
    BY <1>2, <2>1, <2>2, <2>3 DEF Wire
<1>3. QED
  BY <1>1, <1>2

\* Whatever is read, valid or not, is a value.
LEMMA ReadWire ==
  ASSUME NEW bs \in Seq(Byte), NEW r, IsReader(bs, r)
  PROVE  DecodeValue(bs, r).value \in Wire
<1>1. PICK k : k = ReadInteger(bs, r, 1)
  OBVIOUS
<1>2. IsReader(bs, k)
  BY <1>1, IntegerRead
<1>3. CASE k.value = undefined
  BY <1>1, <1>3, DecodeForms, YieldsFields DEF Wire
<1>4. CASE k.value \in Numbers
  <2>1. PICK word : word = ReadInteger(bs, k, W64)
    OBVIOUS
  <2>2. word.value \in 0..Limit(W64) - 1
    <3>1. Limit(W64) \in Nat \ {0}
      BY LimitType, WidthType
    <3>2. word.ok => word.value \in 0..Limit(W64) - 1
      BY <1>2, <2>1, IntegerRead, WidthType
    <3>3. ~word.ok => word = [at |-> k.at, ok |-> FALSE, value |-> 0]
      BY <1>2, <2>1, IntegerRead, WidthType
    <3>4. QED
      BY <3>1, <3>2, <3>3
  <2>3. DecodeValue(bs, r).value = Number(k.value, word.value)
    BY <1>1, <1>4, <2>1, DecodeForms, YieldsFields
  <2>4. QED
    BY <1>4, <2>2, <2>3, NumberWire
<1>5. CASE k.value = boolean
  <2>1. \A n : Boolean(n) \in Wire
    BY DEF Wire, Boolean
  <2>2. QED
    BY <1>1, <1>5, <2>1, DecodeForms, YieldsFields
<1>6. CASE k.value = string
  <2>1. PICK raw : raw = ReadRaw(bs, k)
    OBVIOUS
  <2>2. raw.value \in Seq(Byte)
    <3>1. CASE raw.ok
      BY <1>2, <2>1, <3>1, RawRead
    <3>2. CASE ~raw.ok
      <4>1. raw.value = <<>>
        BY <2>1, <3>2 DEF ReadRaw
      <4>2. QED
        BY <4>1, EmptySeq
    <3>3. QED
      BY <3>1, <3>2
  <2>3. DecodeValue(bs, r).value = String(raw.value)
    BY <1>1, <1>6, <2>1, DecodeForms, YieldsFields
  <2>4. QED
    BY <2>2, <2>3 DEF Wire
<1>7. CASE k.value \notin {undefined, boolean, string} \cup Numbers
  <2>1. UnknownKind(k).value \in Wire
    BY DEF UnknownKind, Wire
  <2>2. QED
    BY <1>1, <1>7, <2>1, DecodeForms
<1>8. QED
  BY <1>3, <1>4, <1>5, <1>6, <1>7

\* The values and the other forms of true.
Written == Wire \cup {Number(boolean, n) : n \in Byte}

\* A form has an encoding of at least one byte, and the forms of a value are such forms.
LEMMA WrittenType ==
  /\ \A raw \in Written : EncodeValue(raw) \in Seq(Byte) /\ Len(EncodeValue(raw)) \in Nat \ {0}
  /\ \A v \in Wire : Forms(v) \subseteq Written
<1>1. ASSUME NEW raw \in Written
      PROVE  EncodeValue(raw) \in Seq(Byte) /\ Len(EncodeValue(raw)) \in Nat \ {0}
  <2>1. CASE raw \in Wire
    <3>1. PICK kind \in Byte, s \in Seq(Byte) :
            /\ EncodeValue(raw) \in Seq(Byte) /\ Len(EncodeValue(raw)) = 1 + Len(s)
            /\ Len(s) \in Nat
      BY <2>1, WireValue, EncodeType
    <3>2. QED
      BY <3>1
  <2>2. CASE raw \in {Number(boolean, n) : n \in Byte}
    <3>1. PICK n \in Byte : raw = Number(boolean, n)
      BY <2>2
    <3>2. PICK k \in Seq(Byte), t \in Seq(Byte) :
            k = <<boolean>> /\ t = <<n>> /\ Len(k) = 1 /\ Len(t) = 1
      BY OneByte, KindsAreBytes
    <3>3. EncodeValue(raw) = k \o t
      BY <3>1, <3>2, EncodeForms
    <3>4. k \o t \in Seq(Byte) /\ Len(k \o t) = 1 + 1
      BY <3>2, ConcatProperties
    <3>5. QED
      BY <3>3, <3>4
  <2>3. QED
    BY <2>1, <2>2 DEF Written
<1>2. ASSUME NEW v \in Wire PROVE Forms(v) \subseteq Written
  BY DEF Forms, Written, Byte
<1>3. QED
  BY <1>1, <1>2

-----------------------------------------------------------------------------
(* The arguments of a request.                                              *)

\* What FlattenSeq gives, piece by piece.
Pieces(flat, ss, n) == flat[0] = <<>> /\ \A i \in 1..n : flat[i] = flat[i - 1] \o ss[i]

\* FlattenSeq appends one piece after the other.
LEMMA FlattenPieces ==
  ASSUME NEW ss, NEW n \in Nat, ss \in [1..n -> Seq(Byte)], Len(ss) = n
  PROVE  \E flat \in [0..n -> Seq(Byte)] : Pieces(flat, ss, n) /\ FlattenSeq(ss) = flat[n]
<1>1. PICK s : s = [p \in (1..n) \X Seq(Byte) |-> p[2] \o ss[p[1]]]
  OBVIOUS
<1>2. ASSUME NEW p \in (1..n) \X Seq(Byte) PROVE p[2] \o ss[p[1]] \in Seq(Byte)
  <2>1. p[1] \in 1..n /\ p[2] \in Seq(Byte)
    OBVIOUS
  <2>2. ss[p[1]] \in Seq(Byte)
    BY <2>1
  <2>3. QED
    BY <2>1, <2>2, ConcatProperties
<1>3. s \in [(1..n) \X Seq(Byte) -> Seq(Byte)] /\ <<>> \in Seq(Byte)
  BY <1>1, <1>2, EmptySeq
<1>4. PICK flat \in [0..n -> Seq(Byte)] : Recurs(flat, n, <<>>, s)
  BY <1>3, RecursionExists
<1>5. ASSUME NEW i \in 1..n PROVE flat[i] = flat[i - 1] \o ss[i] /\ flat[i] \in Seq(Byte)
  <2>1. i - 1 \in 0..n /\ i \in 0..n
    OBVIOUS
  <2>2. flat[i - 1] \in Seq(Byte) /\ flat[i] \in Seq(Byte)
    BY <1>4, <2>1
  <2>3. flat[i] = s[<<i, flat[i - 1]>>]
    BY <1>4 DEF Recurs
  <2>4. QED
    BY <1>1, <2>2, <2>3
<1>6. flat[0] = <<>>
  BY <1>4 DEF Recurs
<1>7. Pieces(flat, ss, n)
  BY <1>5, <1>6 DEF Pieces
<1>8. CASE n = 0
  <2>1. ss = <<>>
    BY <1>8
  <2>2. FlattenSeq(ss) = <<>>
    BY <1>8, <2>1 DEF FlattenSeq
  <2>3. QED
    BY <1>4, <1>6, <1>7, <1>8, <2>2
<1>9. CASE n # 0
  <2> DEFINE chosen == CHOOSE flatten : flatten = [i \in 1..Len(ss) |-> IF i = 1 THEN ss[i] ELSE flatten[i - 1] \o ss[i]]
  <2>1. FlattenSeq(ss) = chosen[n]
    BY <1>9 DEF FlattenSeq
  <2>2. PICK fn : fn = [i \in 1..n |-> flat[i]]
    OBVIOUS
  <2>3. flat[1] = ss[1]
    <3>1. 1 \in 1..n /\ ss[1] \in Seq(Byte)
      BY <1>9
    <3>2. flat[1] = <<>> \o ss[1]
      <4>1. flat[1] = flat[1 - 1] \o ss[1]
        BY <1>5, <3>1
      <4>2. flat[1 - 1] = <<>>
        BY <1>6
      <4>3. QED
        BY <4>1, <4>2
    <3>3. QED
      BY <3>1, <3>2, ConcatEmptySeq
  <2>4. ASSUME NEW i \in 1..n PROVE fn[i] = IF i = 1 THEN ss[i] ELSE fn[i - 1] \o ss[i]
    <3>1. CASE i = 1
      BY <2>2, <2>3, <3>1
    <3>2. CASE i # 1
      <4>1. i - 1 \in 1..n
        BY <3>2
      <4>2. fn[i] = flat[i] /\ fn[i - 1] = flat[i - 1]
        BY <2>2, <4>1
      <4>3. QED
        BY <1>5, <3>2, <4>2
    <3>3. QED
      BY <3>1, <3>2
  <2>5. fn = [i \in 1..Len(ss) |-> IF i = 1 THEN ss[i] ELSE fn[i - 1] \o ss[i]]
    BY <2>2, <2>4
  <2>6. chosen = [i \in 1..Len(ss) |-> IF i = 1 THEN ss[i] ELSE chosen[i - 1] \o ss[i]]
    BY <2>5
  <2> HIDE DEF chosen
  <2> DEFINE T == {k \in Nat : k \in 1..n => chosen[k] = flat[k]}
  <2>7. 0 \in T
    OBVIOUS
  <2>8. ASSUME NEW k \in 0..n - 1, k \in T PROVE k + 1 \in T
    <3>1. k + 1 \in 1..n /\ k + 1 \in Nat /\ k + 1 - 1 = k
      OBVIOUS
    <3>2. chosen[k + 1] = IF k + 1 = 1 THEN ss[k + 1] ELSE chosen[k] \o ss[k + 1]
      <4>1. PICK i \in 1..n : i = k + 1
        BY <3>1
      <4>2. chosen[i] = IF i = 1 THEN ss[i] ELSE chosen[i - 1] \o ss[i]
        BY <2>6
      <4>3. i - 1 = k
        BY <4>1
      <4>4. QED
        BY <4>1, <4>2, <4>3
    <3>3. CASE k = 0
      BY <2>3, <3>1, <3>2, <3>3
    <3>4. CASE k # 0
      <4>1. k \in 1..n /\ k + 1 # 1
        BY <3>4
      <4>2. chosen[k] = flat[k]
        BY <2>8, <4>1
      <4>3. flat[k + 1] = flat[k] \o ss[k + 1]
        <5>1. PICK i \in 1..n : i = k + 1
          BY <3>1
        <5>2. flat[i] = flat[i - 1] \o ss[i]
          BY ONLY <1>7, i \in 1..n DEF Pieces
        <5>3. i - 1 = k
          BY <5>1
        <5>4. QED
          BY <5>1, <5>2, <5>3
      <4>4. QED
        BY <3>1, <3>2, <4>1, <4>2, <4>3
    <3>5. QED
      BY <3>3, <3>4
  <2>9. \A k \in 0..n : k \in T
    <3> HIDE DEF T
    <3> QED
      BY <2>7, <2>8, Induction
  <2>10. chosen[n] = flat[n]
    BY <1>9, <2>9
  <2>11. QED
    BY <1>4, <1>7, <2>1, <2>10
<1>10. QED
  BY <1>8, <1>9

\* A frame in which the last of the pieces follow has them all, one after the other.
LEMMA PiecesFollow ==
  ASSUME NEW n \in Nat, NEW ss \in [1..n -> Seq(Byte)], NEW flat \in [0..n -> Seq(Byte)],
         Pieces(flat, ss, n), NEW bs \in Seq(Byte), NEW p \in Nat, Follows(bs, p, flat[n])
  PROVE  \A k \in 1..n :
           /\ Follows(bs, p + Len(flat[k - 1]), ss[k])
           /\ Len(flat[k]) = Len(flat[k - 1]) + Len(ss[k])
<1>1. ASSUME NEW k \in 1..n, Follows(bs, p, flat[k])
      PROVE  Follows(bs, p, flat[k - 1]) /\ Follows(bs, p + Len(flat[k - 1]), ss[k])
  <2>1. PICK s \in Seq(Byte), t \in Seq(Byte) : s = flat[k - 1] /\ t = ss[k]
    <3>1. k - 1 \in 0..n
      OBVIOUS
    <3>2. QED
      BY <3>1
  <2>2. Follows(bs, p, s \o t)
    BY <1>1, <2>1 DEF Pieces
  <2>3. QED
    BY <2>1, <2>2, FollowsConcat
<1>2. ASSUME NEW k \in 1..n PROVE Len(flat[k]) = Len(flat[k - 1]) + Len(ss[k])
  <2>1. PICK s \in Seq(Byte), t \in Seq(Byte) : s = flat[k - 1] /\ t = ss[k]
    <3>1. k - 1 \in 0..n
      OBVIOUS
    <3>2. QED
      BY <3>1
  <2>2. flat[k] = s \o t /\ Len(s \o t) = Len(s) + Len(t)
    BY <2>1, ConcatProperties DEF Pieces
  <2>3. QED
    BY <2>1, <2>2
<1> DEFINE T == {j \in 0..n : Follows(bs, p, flat[n - j])}
<1>3. 0 \in T
  OBVIOUS
<1>4. ASSUME NEW j \in 0..n - 1, j \in T PROVE j + 1 \in T
  <2>1. PICK k \in 1..n : k = n - j
    OBVIOUS
  <2>2. k - 1 = n - (j + 1) /\ j + 1 \in 0..n
    BY <2>1
  <2>3. Follows(bs, p, flat[k])
    BY <1>4, <2>1
  <2>4. QED
    BY <1>1, <2>2, <2>3
<1>5. \A j \in 0..n : j \in T
  <2> HIDE DEF T
  <2> QED
    BY <1>3, <1>4, Induction
<1>6. ASSUME NEW k \in 1..n PROVE Follows(bs, p, flat[k])
  <2>1. n - k \in 0..n /\ n - (n - k) = k
    OBVIOUS
  <2>2. n - k \in T
    BY <1>5, <2>1
  <2>3. QED
    BY <2>1, <2>2
<1>7. QED
  BY <1>1, <1>2, <1>6

\* The readers of the arguments.
ArgReaders(arg, bs, first, n) ==
  /\ arg[0] = Yields(first, <<>>)
  /\ \A i \in 1..n :
       arg[i] = Yields(DecodeValue(bs, arg[i - 1]),
                       Append(arg[i - 1].value, DecodeValue(bs, arg[i - 1]).value))

\* Their type.
ArgReader(bs) == [at : 0..Len(bs), ok : BOOLEAN, value : Seq(Wire)]

\* Reading one more argument gives a reader with one more argument.
LEMMA ArgReaderStep ==
  ASSUME NEW bs \in Seq(Byte), NEW r \in ArgReader(bs)
  PROVE  Yields(DecodeValue(bs, r), Append(r.value, DecodeValue(bs, r).value)) \in ArgReader(bs)
<1>1. PICK item : item = DecodeValue(bs, r)
  OBVIOUS
<1>2. IsReader(bs, r) /\ r.value \in Seq(Wire)
  BY DEF IsReader, ArgReader
<1>3. IsReader(bs, item) /\ item.value \in Wire
  BY <1>1, <1>2, ValueRead, ReadWire
<1>4. PICK s \in Seq(Wire) : s = Append(r.value, item.value)
  BY <1>2, <1>3, AppendProperties
<1>5. Yields(item, s) \in ArgReader(bs)
  BY <1>3 DEF Yields, ArgReader, IsReader
<1>6. QED
  BY <1>1, <1>4, <1>5

\* The recursive definition of ReadArgs means what it says.
LEMMA ArgsExist ==
  ASSUME NEW bs \in Seq(Byte), NEW first, IsReader(bs, first), NEW n \in Nat, first.value = n
  PROVE  \E arg \in [0..n -> ArgReader(bs)] :
           ArgReaders(arg, bs, first, n) /\ ReadArgs(bs, first) = arg[n]
<1> DEFINE step(r) == Yields(DecodeValue(bs, r), Append(r.value, DecodeValue(bs, r).value))
<1> DEFINE X == ArgReader(bs)
<1>1. PICK s : s = [p \in (1..n) \X X |-> step(p[2])]
  OBVIOUS
<1>2. \A r \in X : step(r) \in X
  BY ArgReaderStep
<1>3. PICK z : z = Yields(first, <<>>)
  OBVIOUS
<1>4. z \in X
  BY <1>3, EmptySeq DEF Yields, ArgReader, IsReader
<1> HIDE DEF step, X
<1>5. s \in [(1..n) \X X -> X]
  BY <1>1, <1>2
<1>6. PICK arg \in [0..n -> X] : Recurs(arg, n, z, s)
  BY <1>4, <1>5, RecursionExists
<1>7. arg[0] = z
  BY <1>6 DEF Recurs
<1>8. ASSUME NEW i \in 1..n PROVE arg[i] = step(arg[i - 1])
  <2>1. i - 1 \in 0..n
    OBVIOUS
  <2>2. arg[i - 1] \in X
    BY <1>6, <2>1
  <2>3. arg[i] = s[<<i, arg[i - 1]>>]
    BY <1>6 DEF Recurs
  <2>4. QED
    BY <1>1, <2>2, <2>3
<1>9. arg = [i \in 0..n |-> IF i = 0 THEN z ELSE step(arg[i - 1])]
  BY <1>6, <1>7, <1>8
<1> DEFINE chosen == CHOOSE fn : fn = [i \in 0..n |-> IF i = 0 THEN z ELSE step(fn[i - 1])]
<1>10. chosen = [i \in 0..n |-> IF i = 0 THEN z ELSE step(chosen[i - 1])]
  BY <1>9
<1>11. ReadArgs(bs, first) = chosen[n]
  BY <1>3 DEF ReadArgs, step
<1> HIDE DEF chosen
<1>12. \A k \in 0..n : chosen[k] = arg[k]
  <2> DEFINE T == {k \in 0..n : chosen[k] = arg[k]}
  <2>1. 0 \in T
    BY <1>7, <1>10
  <2>2. ASSUME NEW k \in 0..n - 1, k \in T PROVE k + 1 \in T
    <3>1. PICK i \in 1..n : i = k + 1
      OBVIOUS
    <3>2. i - 1 = k /\ i \in 0..n /\ i # 0
      BY <3>1
    <3>3. chosen[i] = step(chosen[i - 1])
      BY <1>10, <3>2
    <3>4. arg[i] = step(arg[i - 1])
      BY <1>8
    <3>5. QED
      BY <2>2, <3>1, <3>2, <3>3, <3>4
  <2>3. \A k \in 0..n : k \in T
    <3> HIDE DEF T
    <3> QED
      BY <2>1, <2>2, Induction
  <2>4. QED
    BY <2>3
<1>13. ArgReaders(arg, bs, first, n)
  BY <1>3, <1>7, <1>8 DEF ArgReaders, step
<1>14. ReadArgs(bs, first) = arg[n]
  BY <1>11, <1>12
<1>15. QED
  BY <1>6, <1>13, <1>14 DEF X

\* The bytes of the arguments.
Body(args) == FlattenSeq([i \in DOMAIN args |-> EncodeValue(args[i])])

\* The body of a request is its encoded arguments, one after the other.
LEMMA WrittenPieces ==
  ASSUME NEW args \in Seq(Written), NEW n \in Nat, n = Len(args)
  PROVE  \E ss \in [1..n -> Seq(Byte)], flat \in [0..n -> Seq(Byte)] :
           /\ Pieces(flat, ss, n) /\ Body(args) = flat[n]
           /\ \A i \in 1..n : ss[i] = EncodeValue(args[i]) /\ Len(ss[i]) \in Nat \ {0}
<1>1. DOMAIN args = 1..n
  BY LenProperties
<1>2. PICK ss : ss = [i \in 1..n |-> EncodeValue(args[i])]
  OBVIOUS
<1>3. ASSUME NEW i \in 1..n PROVE EncodeValue(args[i]) \in Seq(Byte) /\ Len(EncodeValue(args[i])) \in Nat \ {0}
  <2>1. args[i] \in Written
    BY ElementOfSeq
  <2>2. QED
    BY <2>1, WrittenType
<1>4. ss \in [1..n -> Seq(Byte)]
  BY <1>2, <1>3
<1>5. Len(ss) = n
  BY <1>2
<1>6. PICK flat \in [0..n -> Seq(Byte)] : Pieces(flat, ss, n) /\ FlattenSeq(ss) = flat[n]
  BY <1>4, <1>5, FlattenPieces
<1>7. Body(args) = flat[n]
  BY <1>1, <1>2, <1>6 DEF Body
<1>8. QED
  BY <1>2, <1>3, <1>4, <1>6, <1>7

\* Values are forms, and lists of values lists of forms.
LEMMA WireWritten == \A args \in Seq(Wire) : args \in Seq(Written)
<1>1. ASSUME NEW args \in Seq(Wire) PROVE args \in Seq(Written)
  <2>1. PICK n \in Nat : args \in [1..n -> Wire]
    BY SeqDef
  <2>2. args \in [1..n -> Written]
    BY <2>1 DEF Written
  <2>3. QED
    BY <2>2, SeqDef
<1>2. QED
  BY <1>1

\* The same of values.
LEMMA BodyPieces ==
  ASSUME NEW args \in Seq(Wire), NEW n \in Nat, n = Len(args)
  PROVE  \E ss \in [1..n -> Seq(Byte)], flat \in [0..n -> Seq(Byte)] :
           /\ Pieces(flat, ss, n) /\ Body(args) = flat[n]
           /\ \A i \in 1..n : ss[i] = EncodeValue(args[i]) /\ Len(ss[i]) \in Nat \ {0}
<1>1. PICK forms \in Seq(Written) : forms = args
  BY WireWritten
<1>2. PICK ss \in [1..n -> Seq(Byte)], flat \in [0..n -> Seq(Byte)] :
        /\ Pieces(flat, ss, n) /\ Body(forms) = flat[n]
        /\ \A i \in 1..n : ss[i] = EncodeValue(forms[i]) /\ Len(ss[i]) \in Nat \ {0}
  BY <1>1, WrittenPieces
<1>3. QED
  BY <1>1, <1>2

\* The arguments are read as they were written.
LEMMA ArgsArrive ==
  ASSUME NEW bs \in Seq(Byte), NEW first, IsReader(bs, first), first.ok,
         NEW n \in Nat, first.value = n, NEW args \in Seq(Wire), Len(args) = n,
         \A i \in 1..n : Writable(Len(args[i].text)),
         Follows(bs, first.at, Body(args))
  PROVE  /\ ReadArgs(bs, first) = [at |-> first.at + Len(Body(args)), ok |-> TRUE, value |-> args]
         /\ n <= Len(Body(args))
<1>1. PICK p \in Nat : p = first.at
  BY LenProperties DEF IsReader
<1>2. PICK ss \in [1..n -> Seq(Byte)], flat \in [0..n -> Seq(Byte)] :
        /\ Pieces(flat, ss, n) /\ Body(args) = flat[n]
        /\ \A i \in 1..n : ss[i] = EncodeValue(args[i]) /\ Len(ss[i]) \in Nat \ {0}
  BY BodyPieces
<1>3. Follows(bs, p, flat[n])
  BY <1>1, <1>2
<1>4. \A k \in 1..n : /\ Follows(bs, p + Len(flat[k - 1]), ss[k])
                      /\ Len(flat[k]) = Len(flat[k - 1]) + Len(ss[k])
  <2>1. Pieces(flat, ss, n)
    BY <1>2
  <2>2. QED
    BY ONLY <1>3, <2>1, PiecesFollow, n \in Nat, ss \in [1..n -> Seq(Byte)],
            flat \in [0..n -> Seq(Byte)], bs \in Seq(Byte), p \in Nat
<1>5. PICK arg \in [0..n -> ArgReader(bs)] :
        ArgReaders(arg, bs, first, n) /\ ReadArgs(bs, first) = arg[n]
  BY ArgsExist
<1> DEFINE T == {k \in 0..n :
                   /\ arg[k].at = p + Len(flat[k]) /\ arg[k].ok /\ k <= Len(flat[k])
                   /\ Len(arg[k].value) = k /\ \A i \in 1..k : arg[k].value[i] = args[i]}
<1>6. 0 \in T
  <2>1. arg[0] = Yields(first, <<>>)
    BY <1>5 DEF ArgReaders
  <2>2. arg[0].at = p /\ arg[0].ok /\ arg[0].value = <<>>
    BY <1>1, <2>1, YieldsFields
  <2>3. flat[0] = <<>> /\ Len(flat[0]) = 0 /\ Len(arg[0].value) = 0
    BY <1>2, <2>2, EmptySeq DEF Pieces
  <2>4. 0 \in 0..n /\ p = p + 0 /\ 0 <= 0 /\ 1..0 = {}
    OBVIOUS
  <2>5. QED
    BY <2>2, <2>3, <2>4
<1>7. ASSUME NEW k \in 0..n - 1, k \in T PROVE k + 1 \in T
  <2>1. PICK j \in 1..n : j = k + 1
    OBVIOUS
  <2>2. j - 1 = k /\ j \in 0..n /\ k \in 0..n
    BY <2>1
  <2>3. PICK r \in ArgReader(bs) : r = arg[k]
    BY <1>5, <2>2
  <2>4. PICK l \in Nat, m \in Nat \ {0} : l = Len(flat[k]) /\ m = Len(ss[j])
    <3>1. flat[k] \in Seq(Byte)
      BY <2>2
    <3>2. QED
      BY <1>2, <3>1, LenProperties
  <2>5. r.at = p + l /\ r.ok /\ k <= l /\ Len(r.value) = k /\ \A i \in 1..k : r.value[i] = args[i]
    BY <1>7, <2>3, <2>4
  <2>6. IsReader(bs, r) /\ r.value \in Seq(Wire)
    BY DEF ArgReader, IsReader
  <2>7. PICK v \in Wire : v = args[j] /\ Writable(Len(v.text)) /\ IsValue(v) /\ ss[j] = EncodeValue(v)
    <3>1. args[j] \in Wire
      BY ElementOfSeq
    <3>2. QED
      BY <1>2, <3>1, WireValue
  <2>8. Follows(bs, r.at, EncodeValue(v))
    BY <1>4, <2>2, <2>4, <2>5, <2>7
  <2>9. PICK item : item = DecodeValue(bs, r)
    OBVIOUS
  <2>10. item = [at |-> r.at + m, ok |-> TRUE, value |-> v]
    BY <2>4, <2>5, <2>6, <2>7, <2>8, <2>9, ValueArrives
  <2>11. item.at = p + l + m /\ item.ok /\ item.value = v
    BY <2>5, <2>10
  <2>12. arg[j] = Yields(item, Append(r.value, item.value))
    BY <1>5, <2>2, <2>3, <2>9 DEF ArgReaders
  <2>13. arg[j].at = p + l + m /\ arg[j].ok /\ arg[j].value = Append(r.value, v)
    <3>1. PICK x : x = Append(r.value, v)
      OBVIOUS
    <3>2. arg[j] = Yields(item, x)
      BY <2>11, <2>12, <3>1
    <3>3. arg[j].at = item.at /\ arg[j].ok = item.ok /\ arg[j].value = x
      BY <3>2, YieldsFields
    <3>4. QED
      BY <2>11, <3>1, <3>3
  <2>14. Len(flat[j]) = l + m
    BY <1>4, <2>2, <2>4
  <2>15. PICK s \in Seq(Wire) : s = Append(r.value, v)
    BY <2>6, AppendProperties
  <2>16. Len(s) = j /\ \A i \in 1..j : s[i] = args[i]
    <3>1. /\ Len(s) = Len(r.value) + 1 /\ s[Len(r.value) + 1] = v
          /\ \A i \in 1..Len(r.value) : s[i] = r.value[i]
      BY <2>6, <2>15, AppendProperties
    <3>2. ASSUME NEW i \in 1..j PROVE s[i] = args[i]
      <4>1. CASE i = j
        BY <2>1, <2>5, <2>7, <3>1, <4>1
      <4>2. CASE i # j
        <5>1. i \in 1..k
          BY <2>1, <4>2
        <5>2. QED
          BY <2>5, <3>1, <5>1
      <4>3. QED
        BY <4>1, <4>2
    <3>3. QED
      BY <2>1, <2>5, <3>1, <3>2
  <2>17. j <= l + m /\ p + l + m = p + (l + m)
    BY <2>1, <2>5
  <2>18. QED
    BY <2>1, <2>2, <2>13, <2>14, <2>15, <2>16, <2>17
<1>8. \A k \in 0..n : k \in T
  <2> HIDE DEF T
  <2> QED
    BY <1>6, <1>7, Induction
<1>9. /\ arg[n].at = p + Len(flat[n]) /\ arg[n].ok /\ n <= Len(flat[n])
      /\ Len(arg[n].value) = n /\ \A i \in 1..n : arg[n].value[i] = args[i]
  BY <1>8
<1>10. PICK r \in ArgReader(bs) : r = arg[n]
  BY <1>5
<1>11. r = [at |-> r.at, ok |-> r.ok, value |-> r.value] /\ r.value \in Seq(Wire) /\ r.ok \in BOOLEAN
  BY DEF ArgReader
<1>12. r.value = args
  BY <1>9, <1>10, <1>11, SeqEqual
<1>13. QED
  BY <1>1, <1>2, <1>5, <1>9, <1>10, <1>11, <1>12

\* The flag is sticky: when the last reader is valid, all are.
LEMMA ArgsSticky ==
  ASSUME NEW bs \in Seq(Byte), NEW first, NEW n \in Nat, NEW arg \in [0..n -> ArgReader(bs)],
         ArgReaders(arg, bs, first, n), arg[n].ok
  PROVE  /\ first.ok
         /\ \A k \in 0..n : arg[k].ok /\ IsReader(bs, arg[k]) /\ arg[k].value \in Seq(Wire)
         /\ \A k \in 1..n :
              /\ DecodeValue(bs, arg[k - 1]).ok
              /\ arg[k].at = DecodeValue(bs, arg[k - 1]).at
              /\ ReadAs(bs, arg[k - 1].at, arg[k].at, DecodeValue(bs, arg[k - 1]).value)
              /\ Append(arg[k - 1].value, DecodeValue(bs, arg[k - 1]).value) = arg[k].value
<1>1. ASSUME NEW k \in 0..n PROVE IsReader(bs, arg[k]) /\ arg[k].value \in Seq(Wire)
  <2>1. arg[k] \in ArgReader(bs)
    OBVIOUS
  <2>2. QED
    BY <2>1 DEF ArgReader, IsReader
<1>2. ASSUME NEW k \in 1..n, arg[k].ok
      PROVE  /\ arg[k - 1].ok /\ DecodeValue(bs, arg[k - 1]).ok
             /\ arg[k].at = DecodeValue(bs, arg[k - 1]).at
             /\ ReadAs(bs, arg[k - 1].at, arg[k].at, DecodeValue(bs, arg[k - 1]).value)
             /\ Append(arg[k - 1].value, DecodeValue(bs, arg[k - 1]).value) = arg[k].value
  <2>1. PICK r : r = arg[k - 1]
    OBVIOUS
  <2>2. IsReader(bs, r)
    BY <1>1, <2>1
  <2>3. PICK item, x : item = DecodeValue(bs, r) /\ x = Append(r.value, item.value)
    OBVIOUS
  <2>4. arg[k] = Yields(item, x)
    BY <2>1, <2>3 DEF ArgReaders
  <2>5. arg[k].at = item.at /\ arg[k].ok = item.ok /\ arg[k].value = x
    BY <2>4, YieldsFields
  <2>6. item.ok
    BY <1>2, <2>5
  <2>7. r.ok /\ ReadAs(bs, r.at, item.at, item.value)
    BY <2>2, <2>3, <2>6, ValueRead
  <2>8. QED
    BY <2>1, <2>3, <2>5, <2>6, <2>7
<1> DEFINE T == {j \in 0..n : arg[n - j].ok}
<1>3. 0 \in T
  OBVIOUS
<1>4. ASSUME NEW j \in 0..n - 1, j \in T PROVE j + 1 \in T
  <2>1. PICK k \in 1..n : k = n - j
    OBVIOUS
  <2>2. k - 1 = n - (j + 1) /\ j + 1 \in 0..n
    BY <2>1
  <2>3. arg[k].ok
    BY <1>4, <2>1
  <2>4. QED
    BY <1>2, <2>2, <2>3
<1>5. \A j \in 0..n : j \in T
  <2> HIDE DEF T
  <2> QED
    BY <1>3, <1>4, Induction
<1>6. ASSUME NEW k \in 0..n PROVE arg[k].ok
  <2>1. n - k \in 0..n /\ n - (n - k) = k
    OBVIOUS
  <2>2. n - k \in T
    BY <1>5, <2>1
  <2>3. QED
    BY <2>1, <2>2
<1>7. first.ok
  <2>1. arg[0] = Yields(first, <<>>)
    BY DEF ArgReaders
  <2>2. arg[0].ok = first.ok
    BY <2>1, YieldsFields
  <2>3. QED
    BY <1>6, <2>2
<1>8. ASSUME NEW k \in 1..n PROVE arg[k].ok
  BY <1>6
<1>9. QED
  BY <1>1, <1>2, <1>6, <1>7, <1>8

\* What is read as arguments was written as forms of them.
LEMMA ArgsRead ==
  ASSUME NEW bs \in Seq(Byte), NEW first, IsReader(bs, first),
         NEW n \in Nat, first.value = n, ReadArgs(bs, first).ok
  PROVE  \E args \in Seq(Wire), raws \in Seq(Written) :
           /\ first.ok /\ Len(args) = n /\ ReadArgs(bs, first).value = args
           /\ Len(raws) = n /\ \A i \in 1..n : raws[i] \in Forms(args[i])
           /\ Follows(bs, first.at, Body(raws))
           /\ ReadArgs(bs, first).at = first.at + Len(Body(raws))
<1>1. PICK arg \in [0..n -> ArgReader(bs)] :
        ArgReaders(arg, bs, first, n) /\ ReadArgs(bs, first) = arg[n]
  BY ArgsExist
<1>2. arg[n].ok
  BY <1>1
<1>3. /\ first.ok
      /\ \A k \in 0..n : arg[k].ok /\ IsReader(bs, arg[k]) /\ arg[k].value \in Seq(Wire)
      /\ \A k \in 1..n :
           /\ DecodeValue(bs, arg[k - 1]).ok
           /\ arg[k].at = DecodeValue(bs, arg[k - 1]).at
           /\ ReadAs(bs, arg[k - 1].at, arg[k].at, DecodeValue(bs, arg[k - 1]).value)
           /\ Append(arg[k - 1].value, DecodeValue(bs, arg[k - 1]).value) = arg[k].value
  BY <1>1, <1>2, ArgsSticky
<1>4. PICK items : items = [i \in 1..n |-> DecodeValue(bs, arg[i - 1]).value]
  OBVIOUS
<1>5. ASSUME NEW i \in 1..n PROVE items[i] \in Wire
  <2>1. i - 1 \in 0..n
    OBVIOUS
  <2>2. IsReader(bs, arg[i - 1])
    BY <1>3, <2>1
  <2>3. QED
    BY <1>4, <2>2, ReadWire
<1>6. items \in Seq(Wire) /\ Len(items) = n
  <2>1. items \in [1..n -> Wire]
    BY <1>4, <1>5
  <2>2. QED
    BY <2>1, SeqDef, LenProperties
<1>7. PICK raws \in Seq(Written) :
        /\ Len(raws) = n
        /\ \A i \in 1..n :
             /\ raws[i] \in Forms(items[i])
             /\ Follows(bs, arg[i - 1].at, EncodeValue(raws[i]))
             /\ arg[i].at = arg[i - 1].at + Len(EncodeValue(raws[i]))
  <2> DEFINE Good(i, raw) == /\ Follows(bs, arg[i - 1].at, EncodeValue(raw))
                             /\ arg[i].at = arg[i - 1].at + Len(EncodeValue(raw))
             Raws == [i \in 1..n |-> CHOOSE raw \in Forms(items[i]) : Good(i, raw)]
  <2>1. ASSUME NEW i \in 1..n PROVE \E raw \in Forms(items[i]) : Good(i, raw)
    BY <1>3, <1>4 DEF ReadAs
  <2> HIDE DEF Good
  <2>2. ASSUME NEW i \in 1..n PROVE Raws[i] \in Forms(items[i]) /\ Good(i, Raws[i])
    BY <2>1
  <2>3. ASSUME NEW i \in 1..n PROVE Raws[i] \in Written
    BY <1>5, <2>2, WrittenType
  <2>4. Raws \in [1..n -> Written]
    BY <2>3
  <2> HIDE DEF Raws
  <2>5. Raws \in Seq(Written) /\ Len(Raws) = n
    BY <2>4, SeqDef, LenProperties
  <2>6. QED
    BY <2>2, <2>5 DEF Good
<1>8. PICK p \in Nat : p = first.at
  BY LenProperties DEF IsReader
<1>9. PICK ss \in [1..n -> Seq(Byte)], flat \in [0..n -> Seq(Byte)] :
        /\ Pieces(flat, ss, n) /\ Body(raws) = flat[n]
        /\ \A i \in 1..n : ss[i] = EncodeValue(raws[i]) /\ Len(ss[i]) \in Nat \ {0}
  BY <1>7, WrittenPieces
<1> DEFINE T == {k \in 0..n :
                   /\ arg[k].at = p + Len(flat[k]) /\ Follows(bs, p, flat[k])
                   /\ Len(arg[k].value) = k /\ \A i \in 1..k : arg[k].value[i] = items[i]}
<1>10. 0 \in T
  <2>1. arg[0] = Yields(first, <<>>)
    BY <1>1 DEF ArgReaders
  <2>2. arg[0].at = p /\ arg[0].value = <<>>
    BY <1>8, <2>1, YieldsFields
  <2>3. flat[0] = <<>> /\ Len(flat[0]) = 0 /\ Len(arg[0].value) = 0
    BY <1>9, <2>2, EmptySeq DEF Pieces
  <2>4. 0 \in 0..n /\ p = p + 0 /\ 1..0 = {} /\ p <= Len(bs)
    BY <1>8 DEF IsReader
  <2>5. QED
    BY <2>2, <2>3, <2>4 DEF Follows
<1>11. ASSUME NEW k \in 0..n - 1, k \in T PROVE k + 1 \in T
  <2>1. PICK j \in 1..n : j = k + 1
    OBVIOUS
  <2>2. j - 1 = k /\ j \in 0..n /\ k \in 0..n
    BY <2>1
  <2>3. PICK v, r : v = items[j] /\ r = arg[k]
    OBVIOUS
  <2>4. v = DecodeValue(bs, r).value /\ r.value \in Seq(Wire) /\ v \in Wire
    BY <1>3, <1>4, <1>5, <2>2, <2>3
  <2>5. arg[j].value = Append(r.value, v)
    BY <1>3, <2>2, <2>3, <2>4
  <2>6. PICK s \in Seq(Byte), t \in Seq(Byte), l \in Nat, m \in Nat :
          s = flat[k] /\ t = ss[j] /\ l = Len(s) /\ m = Len(t)
    <3>1. flat[k] \in Seq(Byte) /\ ss[j] \in Seq(Byte)
      BY <2>2
    <3>2. QED
      BY <3>1, LenProperties
  <2>7. /\ r.at = p + l /\ Follows(bs, p, s) /\ Len(r.value) = k
        /\ \A i \in 1..k : r.value[i] = items[i]
    BY <1>11, <2>3, <2>6
  <2>8. t = EncodeValue(raws[j]) /\ flat[j] = s \o t
    BY <1>9, <2>2, <2>3, <2>6 DEF Pieces
  <2>9. Follows(bs, p + l, t) /\ arg[j].at = p + l + m
    BY <1>7, <2>2, <2>3, <2>6, <2>7, <2>8
  <2>10. Follows(bs, p, s \o t) /\ Len(s \o t) = l + m
    <3>1. Follows(bs, p + Len(s), t)
      BY <2>6, <2>9
    <3>2. Follows(bs, p, s \o t)
      BY <2>7, <3>1, FollowsConcat
    <3>3. QED
      BY <2>6, <3>2, ConcatProperties
  <2>11. PICK u \in Seq(Wire) : u = Append(r.value, v)
    BY <2>4, AppendProperties
  <2>12. Len(u) = j /\ \A i \in 1..j : u[i] = items[i]
    <3>1. /\ Len(u) = Len(r.value) + 1 /\ u[Len(r.value) + 1] = v
          /\ \A i \in 1..Len(r.value) : u[i] = r.value[i]
      BY <2>4, <2>11, AppendProperties
    <3>2. ASSUME NEW i \in 1..j PROVE u[i] = items[i]
      <4>1. CASE i = j
        BY <2>1, <2>3, <2>7, <3>1, <4>1
      <4>2. CASE i # j
        <5>1. i \in 1..k
          BY <2>1, <4>2
        <5>2. QED
          BY <2>7, <3>1, <5>1
      <4>3. QED
        BY <4>1, <4>2
    <3>3. QED
      BY <2>1, <2>7, <3>1, <3>2
  <2>13. arg[j].at = p + Len(flat[j])
    <3>1. p + l + m = p + (l + m)
      OBVIOUS
    <3>2. QED
      BY <2>8, <2>9, <2>10, <3>1
  <2>14. QED
    BY <2>1, <2>2, <2>5, <2>8, <2>10, <2>11, <2>12, <2>13
<1>12. \A k \in 0..n : k \in T
  <2> HIDE DEF T
  <2> QED
    BY <1>10, <1>11, Induction
<1>13. /\ arg[n].at = p + Len(flat[n]) /\ Follows(bs, p, flat[n])
       /\ Len(arg[n].value) = n /\ \A i \in 1..n : arg[n].value[i] = items[i]
  <2>1. n \in T
    <3>1. n \in 0..n
      OBVIOUS
    <3> HIDE DEF T
    <3>2. QED
      BY ONLY <1>12, <3>1
  <2>2. QED
    BY <2>1
<1>14. arg[n].value = items
  <2>1. arg[n].value \in Seq(Wire)
    BY <1>3
  <2>2. QED
    BY <1>6, <1>13, <2>1, SeqEqual
<1>15. /\ ReadArgs(bs, first).value = items
       /\ Follows(bs, first.at, Body(raws))
       /\ ReadArgs(bs, first).at = first.at + Len(Body(raws))
  BY <1>1, <1>8, <1>9, <1>13, <1>14
<1>16. \A i \in 1..n : raws[i] \in Forms(items[i])
  BY <1>7
<1>17. items \in Seq(Wire) /\ raws \in Seq(Written)
  BY <1>6, <1>7
<1>18. first.ok /\ Len(items) = n /\ Len(raws) = n
  BY <1>3, <1>6, <1>7
<1>19. QED
  BY ONLY <1>15, <1>16, <1>17, <1>18

\* Arguments read validly are the same in every frame that begins with this one.
LEMMA ArgsBegin ==
  ASSUME NEW bs \in Seq(Byte), NEW cs \in Seq(Byte), Begins(bs, cs), NEW first,
         IsReader(bs, first), NEW n \in Nat, first.value = n, ReadArgs(bs, first).ok
  PROVE  ReadArgs(cs, first) = ReadArgs(bs, first)
<1>1. PICK arg \in [0..n -> ArgReader(bs)] :
        ArgReaders(arg, bs, first, n) /\ ReadArgs(bs, first) = arg[n]
  BY ArgsExist
<1>2. /\ \A k \in 0..n : IsReader(bs, arg[k])
      /\ \A k \in 1..n : DecodeValue(bs, arg[k - 1]).ok
  <2>1. arg[n].ok
    BY <1>1
  <2>2. QED
    BY <1>1, <2>1, ArgsSticky
<1>3. IsReader(cs, first)
  BY LenProperties DEF Begins, IsReader
<1>4. PICK brg \in [0..n -> ArgReader(cs)] :
        ArgReaders(brg, cs, first, n) /\ ReadArgs(cs, first) = brg[n]
  BY <1>3, ArgsExist
<1> DEFINE T == {k \in 0..n : brg[k] = arg[k]}
<1>5. 0 \in T
  BY <1>1, <1>4 DEF ArgReaders
<1>6. ASSUME NEW k \in 0..n - 1, k \in T PROVE k + 1 \in T
  <2>1. PICK j \in 1..n : j = k + 1
    OBVIOUS
  <2>2. j - 1 = k /\ j \in 0..n /\ k \in 0..n
    BY <2>1
  <2>3. PICK r : r = arg[k] /\ r = brg[k]
    BY <1>6
  <2>4. IsReader(bs, r) /\ DecodeValue(bs, r).ok
    BY <1>2, <2>2, <2>3
  <2>5. DecodeValue(cs, r) = DecodeValue(bs, r)
    BY <2>4, ValueBegins
  <2>6. arg[j] = Yields(DecodeValue(bs, r), Append(r.value, DecodeValue(bs, r).value))
    BY <1>1, <2>2, <2>3 DEF ArgReaders
  <2>7. brg[j] = Yields(DecodeValue(cs, r), Append(r.value, DecodeValue(cs, r).value))
    BY <1>4, <2>2, <2>3 DEF ArgReaders
  <2>8. QED
    BY <2>1, <2>2, <2>5, <2>6, <2>7
<1>7. \A k \in 0..n : k \in T
  <2> HIDE DEF T
  <2> QED
    BY <1>5, <1>6, Induction
<1>8. QED
  BY <1>1, <1>4, <1>7

-----------------------------------------------------------------------------
(* Frames.                                                                  *)

\* The readers behind the parts of a frame.
Magic(bs) == ReadInteger(bs, Reader, W32)
VersionOf(bs) == ReadInteger(bs, Magic(bs), 1)
MethodOf(bs) == ReadInteger(bs, VersionOf(bs), W64)
CountOf(bs) == ReadInteger(bs, MethodOf(bs), W32)
TagOf(bs) == ReadInteger(bs, VersionOf(bs), 1)

\* try_decode_request in terms of its reads.
LEMMA RequestForm ==
  ASSUME NEW bs
  PROVE  TryDecodeRequest(bs) =
           IF \/ Magic(bs).value # RequestMagic \/ VersionOf(bs).value # Version
              \/ ~CountFits(bs, CountOf(bs)) \/ ~Complete(bs, ReadArgs(bs, CountOf(bs)))
           THEN Malformed
           ELSE [status |-> "ok", method |-> MethodOf(bs).value,
                 args |-> ReadArgs(bs, CountOf(bs)).value]
  BY DEF TryDecodeRequest, Magic, VersionOf, MethodOf, CountOf

\* try_decode_response in terms of its reads.
LEMMA ResponseForm ==
  ASSUME NEW bs
  PROVE  TryDecodeResponse(bs) =
           IF \/ Magic(bs).value # ResponseMagic \/ VersionOf(bs).value # Version
              \/ ~TagOf(bs).ok \/ TagOf(bs).value > 1
           THEN Malformed
           ELSE IF TagOf(bs).value = 1
           THEN IF Complete(bs, ReadRaw(bs, TagOf(bs)))
                THEN [status |-> "remote_error", error |-> ReadRaw(bs, TagOf(bs)).value]
                ELSE Malformed
           ELSE IF Complete(bs, DecodeValue(bs, TagOf(bs)))
           THEN [status |-> "ok", result |-> DecodeValue(bs, TagOf(bs)).value]
           ELSE Malformed
  BY DEF TryDecodeResponse, Magic, VersionOf, TagOf

\* Every read of a header leaves a reader of the frame.
LEMMA Readers ==
  ASSUME NEW bs \in Seq(Byte)
  PROVE  /\ IsReader(bs, Reader) /\ Reader.ok /\ Reader.at = 0
         /\ IsReader(bs, Magic(bs)) /\ IsReader(bs, VersionOf(bs)) /\ IsReader(bs, MethodOf(bs))
         /\ IsReader(bs, CountOf(bs)) /\ IsReader(bs, TagOf(bs))
<1>1. IsReader(bs, Reader) /\ Reader.ok /\ Reader.at = 0
  BY LenProperties DEF Reader, IsReader
<1>2. IsReader(bs, Magic(bs))
  BY <1>1, IntegerRead, WidthType DEF Magic
<1>3. IsReader(bs, VersionOf(bs))
  BY <1>2, IntegerRead DEF VersionOf
<1>4. IsReader(bs, MethodOf(bs))
  BY <1>3, IntegerRead, WidthType DEF MethodOf
<1>5. IsReader(bs, CountOf(bs))
  BY <1>4, IntegerRead, WidthType DEF CountOf
<1>6. IsReader(bs, TagOf(bs))
  BY <1>3, IntegerRead DEF TagOf
<1>7. QED
  BY <1>1, <1>2, <1>3, <1>4, <1>5, <1>6

\* The parts of a request's and of a response's header, with their positions.
RequestHead(bs, m, n) ==
  /\ Follows(bs, 0, WriteInteger(RequestMagic, W32)) /\ Follows(bs, W32, <<Version>>)
  /\ Follows(bs, W32 + 1, WriteInteger(m, W64))
  /\ Follows(bs, W32 + 1 + W64, WriteInteger(n, W32))
ResponseHead(bs, tag) ==
  /\ Follows(bs, 0, WriteInteger(ResponseMagic, W32)) /\ Follows(bs, W32, <<Version>>)
  /\ Follows(bs, W32 + 1, <<tag>>)

\* The magic numbers and the version fit their widths.
LEMMA MagicTypes ==
  /\ RequestMagic \in 0..Limit(W32) - 1 /\ ResponseMagic \in 0..Limit(W32) - 1
  /\ RequestMagic \in Nat /\ ResponseMagic \in Nat /\ Version \in Byte
  /\ RequestMagic # ResponseMagic
<1>1. RequestMagic \in 0..Limit(W32) - 1 /\ ResponseMagic \in 0..Limit(W32) - 1
  BY CodecAssumption
<1>2. Limit(W32) \in Nat
  BY LimitType, WidthType
<1>3. QED
  BY <1>1, <1>2, CodecAssumption

\* The header of a request is read as it was written.
LEMMA RequestHeadArrives ==
  ASSUME NEW bs \in Seq(Byte), NEW m \in 0..Limit(W64) - 1, NEW n \in 0..Limit(W32) - 1,
         RequestHead(bs, m, n)
  PROVE  /\ Magic(bs) = [at |-> W32, ok |-> TRUE, value |-> RequestMagic]
         /\ VersionOf(bs) = [at |-> W32 + 1, ok |-> TRUE, value |-> Version]
         /\ MethodOf(bs) = [at |-> W32 + 1 + W64, ok |-> TRUE, value |-> m]
         /\ CountOf(bs) = [at |-> W32 + 1 + W64 + W32, ok |-> TRUE, value |-> n]
<1>1. Magic(bs) = [at |-> W32, ok |-> TRUE, value |-> RequestMagic]
  <2>1. Follows(bs, Reader.at, WriteInteger(RequestMagic, W32))
    BY Readers DEF RequestHead
  <2>2. Magic(bs) = [at |-> Reader.at + W32, ok |-> TRUE, value |-> RequestMagic]
    BY <2>1, Readers, MagicTypes, WidthType, IntegerArrives DEF Magic
  <2>3. Reader.at + W32 = W32
    BY Readers, WidthType
  <2>4. QED
    BY <2>2, <2>3
<1>2. VersionOf(bs) = [at |-> W32 + 1, ok |-> TRUE, value |-> Version]
  <2>1. PICK r : r = Magic(bs)
    OBVIOUS
  <2>2. r.at = W32 /\ r.ok /\ IsReader(bs, r)
    <3>1. r.at = W32 /\ r.ok
      BY <1>1, <2>1
    <3>2. IsReader(bs, r)
      BY <2>1, Readers
    <3>3. QED
      BY <3>1, <3>2
  <2>3. Follows(bs, r.at, <<Version>>)
    BY <2>2 DEF RequestHead
  <2>4. ReadInteger(bs, r, 1) = [at |-> r.at + 1, ok |-> TRUE, value |-> Version]
    BY <2>2, <2>3, MagicTypes, ByteArrives
  <2>5. QED
    BY <2>1, <2>2, <2>4 DEF VersionOf
<1>3. MethodOf(bs) = [at |-> W32 + 1 + W64, ok |-> TRUE, value |-> m]
  <2>1. PICK r : r = VersionOf(bs)
    OBVIOUS
  <2>2. r.at = W32 + 1 /\ r.ok /\ IsReader(bs, r)
    <3>1. r.at = W32 + 1 /\ r.ok
      BY <1>2, <2>1
    <3>2. IsReader(bs, r)
      BY <2>1, Readers
    <3>3. QED
      BY <3>1, <3>2
  <2>3. Follows(bs, r.at, WriteInteger(m, W64))
    BY <2>2 DEF RequestHead
  <2>4. ReadInteger(bs, r, W64) = [at |-> r.at + W64, ok |-> TRUE, value |-> m]
    BY <2>2, <2>3, WidthType, IntegerArrives
  <2>5. QED
    BY <2>1, <2>2, <2>4 DEF MethodOf
<1>4. CountOf(bs) = [at |-> W32 + 1 + W64 + W32, ok |-> TRUE, value |-> n]
  <2>1. PICK r : r = MethodOf(bs)
    OBVIOUS
  <2>2. r.at = W32 + 1 + W64 /\ r.ok /\ IsReader(bs, r)
    <3>1. r.at = W32 + 1 + W64 /\ r.ok
      BY <1>3, <2>1
    <3>2. IsReader(bs, r)
      BY <2>1, Readers
    <3>3. QED
      BY <3>1, <3>2
  <2>3. Follows(bs, r.at, WriteInteger(n, W32))
    BY <2>2 DEF RequestHead
  <2>4. ReadInteger(bs, r, W32) = [at |-> r.at + W32, ok |-> TRUE, value |-> n]
    BY <2>2, <2>3, WidthType, IntegerArrives
  <2>5. QED
    BY <2>1, <2>2, <2>4 DEF CountOf
<1>5. QED
  BY <1>1, <1>2, <1>3, <1>4

\* The header of a response is read as it was written.
LEMMA ResponseHeadArrives ==
  ASSUME NEW bs \in Seq(Byte), NEW tag \in Byte, ResponseHead(bs, tag)
  PROVE  /\ Magic(bs) = [at |-> W32, ok |-> TRUE, value |-> ResponseMagic]
         /\ VersionOf(bs) = [at |-> W32 + 1, ok |-> TRUE, value |-> Version]
         /\ TagOf(bs) = [at |-> W32 + 1 + 1, ok |-> TRUE, value |-> tag]
<1>1. Magic(bs) = [at |-> W32, ok |-> TRUE, value |-> ResponseMagic]
  <2>1. Follows(bs, Reader.at, WriteInteger(ResponseMagic, W32))
    BY Readers DEF ResponseHead
  <2>2. Magic(bs) = [at |-> Reader.at + W32, ok |-> TRUE, value |-> ResponseMagic]
    BY <2>1, Readers, MagicTypes, WidthType, IntegerArrives DEF Magic
  <2>3. Reader.at + W32 = W32
    BY Readers, WidthType
  <2>4. QED
    BY <2>2, <2>3
<1>2. VersionOf(bs) = [at |-> W32 + 1, ok |-> TRUE, value |-> Version]
  <2>1. PICK r : r = Magic(bs)
    OBVIOUS
  <2>2. r.at = W32 /\ r.ok /\ IsReader(bs, r)
    <3>1. r.at = W32 /\ r.ok
      BY <1>1, <2>1
    <3>2. IsReader(bs, r)
      BY <2>1, Readers
    <3>3. QED
      BY <3>1, <3>2
  <2>3. Follows(bs, r.at, <<Version>>)
    BY <2>2 DEF ResponseHead
  <2>4. ReadInteger(bs, r, 1) = [at |-> r.at + 1, ok |-> TRUE, value |-> Version]
    BY <2>2, <2>3, MagicTypes, ByteArrives
  <2>5. QED
    BY <2>1, <2>2, <2>4 DEF VersionOf
<1>3. TagOf(bs) = [at |-> W32 + 1 + 1, ok |-> TRUE, value |-> tag]
  <2>1. PICK r : r = VersionOf(bs)
    OBVIOUS
  <2>2. r.at = W32 + 1 /\ r.ok /\ IsReader(bs, r)
    <3>1. r.at = W32 + 1 /\ r.ok
      BY <1>2, <2>1
    <3>2. IsReader(bs, r)
      BY <2>1, Readers
    <3>3. QED
      BY <3>1, <3>2
  <2>3. Follows(bs, r.at, <<tag>>)
    BY <2>2 DEF ResponseHead
  <2>4. ReadInteger(bs, r, 1) = [at |-> r.at + 1, ok |-> TRUE, value |-> tag]
    BY <2>2, <2>3, ByteArrives
  <2>5. QED
    BY <2>1, <2>2, <2>4 DEF TagOf
<1>4. QED
  BY <1>1, <1>2, <1>3

\* A concatenation of bytes is bytes.
LEMMA Joined ==
  ASSUME NEW s \in Seq(Byte), NEW t \in Seq(Byte)
  PROVE  \E u \in Seq(Byte) : u = s \o t /\ Len(u) = Len(s) + Len(t)
  BY ConcatProperties

\* The parts of a frame, one behind the other.
LEMMA WrittenParts ==
  ASSUME NEW m \in 0..Limit(W64) - 1, NEW args \in Seq(Written), Writable(Len(args))
  PROVE  /\ EncodeRequest(m, args) \in Seq(Byte) /\ Body(args) \in Seq(Byte)
         /\ Len(EncodeRequest(m, args)) = W32 + 1 + W64 + W32 + Len(Body(args))
         /\ Len(args) \in 0..Limit(W32) - 1
         /\ \A bs \in Seq(Byte) :
              Follows(bs, 0, EncodeRequest(m, args)) <=>
                RequestHead(bs, m, Len(args)) /\ Follows(bs, W32 + 1 + W64 + W32, Body(args))
<1>1. PICK n \in Nat : n = Len(args)
  BY LenProperties
<1>2. n \in 0..Limit(W32) - 1 /\ m \in Nat
  BY <1>1, LimitType, WidthType DEF Writable
<1>3. PICK s1 \in Seq(Byte) : s1 = WriteInteger(RequestMagic, W32) /\ Len(s1) = W32
  BY MagicTypes, WidthType, WriteType
<1>4. PICK s2 \in Seq(Byte) : s2 = <<Version>> /\ Len(s2) = 1
  BY MagicTypes, OneByte
<1>5. PICK s3 \in Seq(Byte) : s3 = WriteInteger(m, W64) /\ Len(s3) = W64
  BY <1>2, WidthType, WriteType
<1>6. PICK s4 \in Seq(Byte) : s4 = WriteInteger(n, W32) /\ Len(s4) = W32
  BY <1>2, WidthType, WriteType
<1>7. PICK s5 \in Seq(Byte) : s5 = Body(args)
  <2>1. PICK ss \in [1..n -> Seq(Byte)], flat \in [0..n -> Seq(Byte)] : Body(args) = flat[n]
    BY <1>1, WrittenPieces
  <2>2. QED
    BY <2>1
<1>8. PICK t2 \in Seq(Byte) : t2 = s1 \o s2 /\ Len(t2) = W32 + 1
  <2>1. PICK u \in Seq(Byte) : u = s1 \o s2 /\ Len(u) = Len(s1) + Len(s2)
    BY Joined
  <2>2. QED
    BY <1>3, <1>4, <2>1
<1>9. PICK t3 \in Seq(Byte) : t3 = t2 \o s3 /\ Len(t3) = W32 + 1 + W64
  <2>1. PICK u \in Seq(Byte) : u = t2 \o s3 /\ Len(u) = Len(t2) + Len(s3)
    BY Joined
  <2>2. QED
    BY <1>5, <1>8, <2>1
<1>10. PICK t4 \in Seq(Byte) : t4 = t3 \o s4 /\ Len(t4) = W32 + 1 + W64 + W32
  <2>1. PICK u \in Seq(Byte) : u = t3 \o s4 /\ Len(u) = Len(t3) + Len(s4)
    BY Joined
  <2>2. QED
    BY <1>6, <1>9, <2>1
<1>11. PICK t5 \in Seq(Byte) : t5 = t4 \o s5 /\ Len(t5) = W32 + 1 + W64 + W32 + Len(s5)
  <2>1. PICK u \in Seq(Byte) : u = t4 \o s5 /\ Len(u) = Len(t4) + Len(s5)
    BY Joined
  <2>2. QED
    BY <1>7, <1>10, <2>1
<1>12. EncodeRequest(m, args) = t5
  BY <1>1, <1>3, <1>4, <1>5, <1>6, <1>7, <1>8, <1>9, <1>10, <1>11 DEF EncodeRequest, Body
<1>13. ASSUME NEW bs \in Seq(Byte)
       PROVE  Follows(bs, 0, t5) <=> RequestHead(bs, m, n) /\ Follows(bs, W32 + 1 + W64 + W32, s5)
  <2>1. Follows(bs, 0, t2) <=> Follows(bs, 0, s1) /\ Follows(bs, W32, s2)
    <3>1. Follows(bs, 0, s1 \o s2) <=> Follows(bs, 0, s1) /\ Follows(bs, 0 + Len(s1), s2)
      BY FollowsConcat
    <3>2. 0 + Len(s1) = W32
      BY <1>3, WidthType
    <3>3. QED
      BY <1>8, <3>1, <3>2
  <2>2. Follows(bs, 0, t3) <=> Follows(bs, 0, t2) /\ Follows(bs, W32 + 1, s3)
    <3>1. Follows(bs, 0, t2 \o s3) <=> Follows(bs, 0, t2) /\ Follows(bs, 0 + Len(t2), s3)
      BY FollowsConcat
    <3>2. 0 + Len(t2) = W32 + 1
      BY <1>8, WidthType
    <3>3. QED
      BY <1>9, <3>1, <3>2
  <2>3. Follows(bs, 0, t4) <=> Follows(bs, 0, t3) /\ Follows(bs, W32 + 1 + W64, s4)
    <3>1. Follows(bs, 0, t3 \o s4) <=> Follows(bs, 0, t3) /\ Follows(bs, 0 + Len(t3), s4)
      BY FollowsConcat
    <3>2. 0 + Len(t3) = W32 + 1 + W64
      BY <1>9, WidthType
    <3>3. QED
      BY <1>10, <3>1, <3>2
  <2>4. Follows(bs, 0, t5) <=> Follows(bs, 0, t4) /\ Follows(bs, W32 + 1 + W64 + W32, s5)
    <3>1. Follows(bs, 0, t4 \o s5) <=> Follows(bs, 0, t4) /\ Follows(bs, 0 + Len(t4), s5)
      BY FollowsConcat
    <3>2. 0 + Len(t4) = W32 + 1 + W64 + W32
      BY <1>10, WidthType
    <3>3. QED
      BY <1>11, <3>1, <3>2
  <2>5. RequestHead(bs, m, n) <=>
          /\ Follows(bs, 0, s1) /\ Follows(bs, W32, s2) /\ Follows(bs, W32 + 1, s3)
          /\ Follows(bs, W32 + 1 + W64, s4)
    BY <1>3, <1>4, <1>5, <1>6 DEF RequestHead
  <2>6. QED
    BY <2>1, <2>2, <2>3, <2>4, <2>5
<1>14. QED
  BY <1>1, <1>2, <1>7, <1>11, <1>12, <1>13

\* The same of values.
LEMMA RequestParts ==
  ASSUME NEW m \in 0..Limit(W64) - 1, NEW args \in Seq(Wire), Writable(Len(args))
  PROVE  /\ EncodeRequest(m, args) \in Seq(Byte) /\ Body(args) \in Seq(Byte)
         /\ Len(EncodeRequest(m, args)) = W32 + 1 + W64 + W32 + Len(Body(args))
         /\ Len(args) \in 0..Limit(W32) - 1
         /\ \A bs \in Seq(Byte) :
              Follows(bs, 0, EncodeRequest(m, args)) <=>
                RequestHead(bs, m, Len(args)) /\ Follows(bs, W32 + 1 + W64 + W32, Body(args))
  BY WireWritten, WrittenParts

\* A frame follows at its own start.
LEMMA FollowsSelf ==
  ASSUME NEW bs \in Seq(Byte)
  PROVE  Follows(bs, 0, bs)
<1>1. Len(bs) \in Nat
  BY LenProperties
<1>2. \A i \in 1..Len(bs) : 0 + i = i
  BY <1>1
<1>3. QED
  BY <1>1, <1>2 DEF Follows

\* Bytes that follow at the start of a frame of their length are the frame.
LEMMA FollowsWhole ==
  ASSUME NEW bs \in Seq(Byte), NEW e \in Seq(Byte), Follows(bs, 0, e), Len(e) = Len(bs)
  PROVE  e = bs
<1>1. Len(bs) \in Nat
  BY LenProperties
<1>2. \A i \in 1..Len(e) : e[i] = bs[0 + i] /\ 0 + i = i
  BY <1>1 DEF Follows
<1>3. QED
  BY <1>2, SeqEqual

\* An intact request is decoded to what was encoded.
LEMMA RequestArrives ==
  ASSUME NEW m \in 0..Limit(W64) - 1, NEW args \in Seq(Wire), Writable(Len(args)),
         \A i \in 1..Len(args) : Writable(Len(args[i].text))
  PROVE  /\ TryDecodeRequest(EncodeRequest(m, args)) = [status |-> "ok", method |-> m, args |-> args]
         /\ Magic(EncodeRequest(m, args)).ok
         /\ Magic(EncodeRequest(m, args)).value = RequestMagic
<1>1. PICK bs \in Seq(Byte) : bs = EncodeRequest(m, args)
  BY RequestParts
<1>2. PICK n \in Nat, l \in Nat, p \in Nat :
        n = Len(args) /\ l = Len(Body(args)) /\ p = W32 + 1 + W64 + W32
  BY RequestParts, LenProperties, WidthType
<1>3. n \in 0..Limit(W32) - 1 /\ RequestHead(bs, m, n) /\ Follows(bs, p, Body(args)) /\ Len(bs) = p + l
  <2>1. Follows(bs, 0, EncodeRequest(m, args))
    BY <1>1, FollowsSelf
  <2>2. QED
    BY <1>1, <1>2, <2>1, RequestParts
<1>4. /\ Magic(bs) = [at |-> W32, ok |-> TRUE, value |-> RequestMagic]
      /\ VersionOf(bs) = [at |-> W32 + 1, ok |-> TRUE, value |-> Version]
      /\ MethodOf(bs) = [at |-> W32 + 1 + W64, ok |-> TRUE, value |-> m]
      /\ CountOf(bs) = [at |-> W32 + 1 + W64 + W32, ok |-> TRUE, value |-> n]
  BY <1>3, RequestHeadArrives
<1>5. PICK argc : argc = CountOf(bs)
  OBVIOUS
<1>6. argc.at = p /\ argc.ok /\ argc.value = n
  BY <1>2, <1>4, <1>5
<1>7. IsReader(bs, argc)
  BY <1>5, Readers
<1>8. ReadArgs(bs, argc) = [at |-> p + l, ok |-> TRUE, value |-> args] /\ n <= l
  BY <1>2, <1>3, <1>6, <1>7, ArgsArrive
<1>9. CountFits(bs, argc)
  BY <1>3, <1>6, <1>8 DEF CountFits, Remaining
<1>10. Complete(bs, ReadArgs(bs, argc)) /\ ReadArgs(bs, argc).value = args
  <2>1. PICK last : last = ReadArgs(bs, argc)
    OBVIOUS
  <2>2. last.at = p + l /\ last.ok /\ last.value = args
    BY <1>8, <2>1
  <2>3. Complete(bs, last)
    BY <1>3, <2>2 DEF Complete, Remaining
  <2>4. QED
    BY <2>1, <2>2, <2>3
<1>11. Magic(bs).value = RequestMagic /\ Magic(bs).ok /\ VersionOf(bs).value = Version /\ MethodOf(bs).value = m
  BY <1>4
<1>12. TryDecodeRequest(bs) = [status |-> "ok", method |-> m, args |-> args]
  BY <1>5, <1>9, <1>10, <1>11, RequestForm
<1>13. QED
  BY <1>1, <1>11, <1>12

\* What the reader of the argument count says of the header.
LEMMA RequestHeadRead ==
  ASSUME NEW bs \in Seq(Byte), CountOf(bs).ok,
         Magic(bs).value = RequestMagic, VersionOf(bs).value = Version
  PROVE  /\ Magic(bs).ok /\ VersionOf(bs).ok /\ MethodOf(bs).ok
         /\ RequestHead(bs, MethodOf(bs).value, CountOf(bs).value)
         /\ MethodOf(bs).value \in 0..Limit(W64) - 1 /\ CountOf(bs).value \in 0..Limit(W32) - 1
         /\ CountOf(bs).at = W32 + 1 + W64 + W32
<1>1. PICK magic, version, method, argc :
        magic = Magic(bs) /\ version = VersionOf(bs) /\ method = MethodOf(bs) /\ argc = CountOf(bs)
  OBVIOUS
<1>2. /\ IsReader(bs, magic) /\ IsReader(bs, version) /\ IsReader(bs, method) /\ IsReader(bs, argc)
      /\ magic = ReadInteger(bs, Reader, W32) /\ version = ReadInteger(bs, magic, 1)
      /\ method = ReadInteger(bs, version, W64) /\ argc = ReadInteger(bs, method, W32)
  BY <1>1, Readers DEF Magic, VersionOf, MethodOf, CountOf
<1>3. /\ method.ok /\ argc.at = method.at + W32 /\ argc.value \in 0..Limit(W32) - 1
      /\ Follows(bs, method.at, WriteInteger(argc.value, W32))
  BY <1>1, <1>2, IntegerRead, WidthType
<1>4. /\ version.ok /\ method.at = version.at + W64 /\ method.value \in 0..Limit(W64) - 1
      /\ Follows(bs, version.at, WriteInteger(method.value, W64))
  BY <1>2, <1>3, IntegerRead, WidthType
<1>5. magic.ok /\ version.at = magic.at + 1 /\ Follows(bs, magic.at, <<Version>>)
  <2>1. PICK k \in Byte :
          /\ magic.ok /\ Follows(bs, magic.at, <<k>>)
          /\ version = [at |-> magic.at + 1, ok |-> TRUE, value |-> k]
    BY <1>2, <1>4, ByteRead
  <2>2. QED
    BY <1>1, <2>1
<1>6. magic.at = W32 /\ Follows(bs, 0, WriteInteger(RequestMagic, W32))
  <2>1. magic.at = Reader.at + W32 /\ Follows(bs, Reader.at, WriteInteger(magic.value, W32))
    BY <1>2, <1>5, Readers, IntegerRead, WidthType
  <2>2. Reader.at = 0 /\ 0 + W32 = W32
    BY Readers, WidthType
  <2>3. QED
    BY <1>1, <2>1, <2>2
<1>7. version.at = W32 + 1 /\ method.at = W32 + 1 + W64 /\ argc.at = W32 + 1 + W64 + W32
  BY <1>3, <1>4, <1>5, <1>6
<1>8. RequestHead(bs, method.value, argc.value)
  BY <1>3, <1>4, <1>5, <1>6, <1>7 DEF RequestHead
<1>9. QED
  BY <1>1, <1>3, <1>4, <1>5, <1>7, <1>8

\* The bytes of a request are the encoding of what it is decoded to, in one of its forms.
LEMMA RequestRead ==
  ASSUME NEW bs \in Seq(Byte), TryDecodeRequest(bs).status = "ok"
  PROVE  /\ Magic(bs).ok /\ Magic(bs).value = RequestMagic
         /\ CountFits(bs, CountOf(bs)) /\ VersionOf(bs).value = Version
         /\ Complete(bs, ReadArgs(bs, CountOf(bs)))
         /\ \E m \in 0..Limit(W64) - 1, args \in Seq(Wire), raws \in Seq(Written) :
              /\ TryDecodeRequest(bs) = [status |-> "ok", method |-> m, args |-> args]
              /\ Len(raws) = Len(args) /\ \A i \in 1..Len(args) : raws[i] \in Forms(args[i])
              /\ EncodeRequest(m, raws) = bs
<1>1. Malformed.status # "ok"
  BY DEF Malformed
<1>2. /\ Magic(bs).value = RequestMagic /\ VersionOf(bs).value = Version
      /\ CountFits(bs, CountOf(bs)) /\ Complete(bs, ReadArgs(bs, CountOf(bs)))
      /\ TryDecodeRequest(bs) = [status |-> "ok", method |-> MethodOf(bs).value,
                                 args |-> ReadArgs(bs, CountOf(bs)).value]
  BY <1>1, RequestForm
<1>3. PICK argc, last, m : argc = CountOf(bs) /\ last = ReadArgs(bs, argc) /\ m = MethodOf(bs).value
  OBVIOUS
<1>4. argc.ok /\ IsReader(bs, argc)
  BY <1>2, <1>3, Readers DEF CountFits
<1>5. /\ Magic(bs).ok /\ RequestHead(bs, m, argc.value) /\ m \in 0..Limit(W64) - 1
      /\ argc.value \in 0..Limit(W32) - 1 /\ argc.at = W32 + 1 + W64 + W32
  BY <1>2, <1>3, <1>4, RequestHeadRead
<1>6. PICK n \in Nat : n = argc.value /\ n < Limit(W32)
  <2>1. Limit(W32) \in Nat
    BY LimitType, WidthType
  <2>2. QED
    BY <1>5, <2>1
<1>7. last.ok /\ Len(bs) - last.at = 0
  BY <1>2, <1>3 DEF Complete, Remaining
<1>8. PICK args \in Seq(Wire), raws \in Seq(Written) :
        /\ Len(args) = n /\ last.value = args
        /\ Len(raws) = n /\ \A i \in 1..n : raws[i] \in Forms(args[i])
        /\ Follows(bs, argc.at, Body(raws))
        /\ last.at = argc.at + Len(Body(raws))
  BY <1>3, <1>4, <1>6, <1>7, ArgsRead
<1>9. Writable(Len(raws))
  BY <1>6, <1>8 DEF Writable
<1>10. PICK e \in Seq(Byte) : e = EncodeRequest(m, raws)
  BY <1>5, <1>9, WrittenParts
<1>11. Follows(bs, 0, e) /\ Len(e) = last.at
  BY <1>5, <1>6, <1>8, <1>9, <1>10, WrittenParts
<1>12. e = bs
  <2>1. Len(bs) \in Nat /\ Len(e) \in Nat
    BY LenProperties
  <2>2. Len(e) = Len(bs)
    BY <1>7, <1>11, <2>1
  <2>3. QED
    BY <1>11, <2>2, FollowsWhole
<1>13. TryDecodeRequest(bs) = [status |-> "ok", method |-> m, args |-> args]
  BY <1>2, <1>3, <1>8
<1>14. QED
  BY <1>2, <1>5, <1>8, <1>10, <1>12, <1>13

\* A magic number that was read is the same in every frame that begins with this one.
LEMMA MagicBegins ==
  ASSUME NEW bs \in Seq(Byte), NEW cs \in Seq(Byte), Begins(bs, cs), Magic(bs).ok
  PROVE  Magic(cs) = Magic(bs)
  BY Readers, IntegerBegins, WidthType DEF Magic

\* A request with further bytes behind it is no request.
LEMMA RequestBegins ==
  ASSUME NEW bs \in Seq(Byte), NEW cs \in Seq(Byte), Begins(bs, cs), Len(bs) # Len(cs),
         TryDecodeRequest(bs).status = "ok"
  PROVE  TryDecodeRequest(cs) = Malformed
<1>1. /\ Magic(bs).ok /\ Magic(bs).value = RequestMagic
      /\ CountFits(bs, CountOf(bs)) /\ VersionOf(bs).value = Version
      /\ Complete(bs, ReadArgs(bs, CountOf(bs)))
  BY RequestRead
<1>2. CountOf(bs).ok
  BY <1>1 DEF CountFits
<1>3. VersionOf(bs).ok /\ MethodOf(bs).ok /\ CountOf(bs).value \in 0..Limit(W32) - 1
  BY <1>1, <1>2, RequestHeadRead
<1>4. Magic(cs) = Magic(bs)
  BY <1>1, MagicBegins
<1>5. VersionOf(cs) = VersionOf(bs)
  BY <1>3, <1>4, Readers, IntegerBegins DEF VersionOf
<1>6. MethodOf(cs) = MethodOf(bs)
  BY <1>3, <1>5, Readers, IntegerBegins, WidthType DEF MethodOf
<1>7. CountOf(cs) = CountOf(bs)
  BY <1>2, <1>6, Readers, IntegerBegins, WidthType DEF CountOf
<1>8. PICK argc, last : argc = CountOf(bs) /\ last = ReadArgs(bs, argc)
  OBVIOUS
<1>9. PICK n \in Nat : n = argc.value
  <2>1. Limit(W32) \in Nat
    BY LimitType, WidthType
  <2>2. argc.value \in Nat
    BY <1>3, <1>8, <2>1
  <2>3. QED
    BY <2>2
<1>10. last.ok /\ Len(bs) - last.at = 0
  BY <1>1, <1>8 DEF Complete, Remaining
<1>11. ReadArgs(cs, argc) = last
  BY <1>8, <1>9, <1>10, Readers, ArgsBegin
<1>12. ~Complete(cs, last)
  <2>1. IsReader(bs, argc)
    BY <1>8, Readers
  <2>2. PICK arg \in [0..n -> ArgReader(bs)] : last = arg[n]
    BY <1>8, <1>9, <2>1, ArgsExist
  <2>3. last.at \in 0..Len(bs)
    <3>1. last \in ArgReader(bs)
      BY <2>2
    <3>2. QED
      BY <3>1 DEF ArgReader
  <2>4. Len(bs) \in Nat /\ Len(cs) \in Nat
    BY LenProperties
  <2>5. Len(cs) - last.at # 0
    BY <1>10, <2>3, <2>4
  <2>6. QED
    BY <2>5 DEF Complete, Remaining
<1>13. QED
  BY <1>7, <1>8, <1>11, <1>12, RequestForm

\* The parts of a response.
LEMMA ResponseParts ==
  ASSUME NEW tag \in Byte, NEW s \in Seq(Byte), NEW e,
         e = WriteInteger(ResponseMagic, W32) \o <<Version, tag>> \o s
  PROVE  /\ e \in Seq(Byte) /\ Len(e) = W32 + 1 + 1 + Len(s)
         /\ \A bs \in Seq(Byte) :
              Follows(bs, 0, e) <=> ResponseHead(bs, tag) /\ Follows(bs, W32 + 1 + 1, s)
<1>1. PICK s1 \in Seq(Byte) : s1 = WriteInteger(ResponseMagic, W32) /\ Len(s1) = W32
  BY MagicTypes, WidthType, WriteType
<1>2. PICK s2 \in Seq(Byte), s3 \in Seq(Byte) :
        s2 = <<Version>> /\ Len(s2) = 1 /\ s3 = <<tag>> /\ Len(s3) = 1 /\ s2[1] = Version /\ s3[1] = tag
  BY MagicTypes, OneByte
<1>3. PICK both \in Seq(Byte) : both = s2 \o s3 /\ Len(both) = 1 + 1
  <2>1. PICK u \in Seq(Byte) : u = s2 \o s3 /\ Len(u) = Len(s2) + Len(s3)
    BY Joined
  <2>2. QED
    BY <1>2, <2>1
<1>4. both = <<Version, tag>>
  <2>1. PICK pair : pair = <<Version, tag>>
    OBVIOUS
  <2>2. pair \in Seq(Byte) /\ Len(pair) = 2 /\ pair[1] = Version /\ pair[2] = tag
    BY <2>1, MagicTypes
  <2>3. \A i \in 1..Len(s2) + Len(s3) : both[i] = IF i <= Len(s2) THEN s2[i] ELSE s3[i - Len(s2)]
    BY <1>3, ConcatProperties
  <2>4. both[1] = Version /\ both[2] = tag
    <3>1. 1 \in 1..1 + 1 /\ 2 \in 1..1 + 1 /\ 1 <= 1 /\ ~(2 <= 1) /\ 2 - 1 = 1
      OBVIOUS
    <3>2. QED
      BY <1>2, <2>3, <3>1
  <2>5. \A i \in 1..Len(both) : both[i] = pair[i]
    BY <1>3, <2>2, <2>4, SMTT(20)
  <2>6. Len(both) = Len(pair)
    BY <1>3, <2>2
  <2>7. both = pair
    BY ONLY <2>2, <2>5, <2>6, both \in Seq(Byte), SeqEqual
  <2>8. QED
    BY <2>1, <2>7
<1>5. PICK t2 \in Seq(Byte) : t2 = s1 \o both /\ Len(t2) = W32 + 1 + 1
  <2>1. PICK u \in Seq(Byte) : u = s1 \o both /\ Len(u) = Len(s1) + Len(both)
    BY Joined
  <2>2. W32 + (1 + 1) = W32 + 1 + 1
    BY WidthType
  <2>3. QED
    BY <1>1, <1>3, <2>1, <2>2
<1>6. e = t2 \o s /\ e \in Seq(Byte) /\ Len(e) = W32 + 1 + 1 + Len(s)
  <2>1. PICK u \in Seq(Byte) : u = t2 \o s /\ Len(u) = Len(t2) + Len(s)
    BY Joined
  <2>2. QED
    BY <1>1, <1>4, <1>5, <2>1
<1>7. ASSUME NEW bs \in Seq(Byte)
      PROVE  /\ Follows(bs, 0, t2) <=> ResponseHead(bs, tag)
             /\ Follows(bs, 0, e) <=> Follows(bs, 0, t2) /\ Follows(bs, W32 + 1 + 1, s)
  <2>1. PICK p \in Nat : p = W32
    BY WidthType
  <2>2. Follows(bs, 0, t2) <=> Follows(bs, 0, s1) /\ Follows(bs, p, both)
    <3>1. Follows(bs, 0, s1 \o both) <=> Follows(bs, 0, s1) /\ Follows(bs, 0 + Len(s1), both)
      BY FollowsConcat
    <3>2. 0 + Len(s1) = p
      BY <1>1, <2>1
    <3>3. QED
      BY <1>5, <3>1, <3>2
  <2>3. Follows(bs, p, both) <=> Follows(bs, p, s2) /\ Follows(bs, p + 1, s3)
    BY <1>2, <1>3, FollowsConcat
  <2>4. Follows(bs, 0, e) <=> Follows(bs, 0, t2) /\ Follows(bs, W32 + 1 + 1, s)
    <3>1. Follows(bs, 0, t2 \o s) <=> Follows(bs, 0, t2) /\ Follows(bs, 0 + Len(t2), s)
      BY FollowsConcat
    <3>2. 0 + Len(t2) = W32 + 1 + 1
      BY <1>5, WidthType
    <3>3. QED
      BY <1>6, <3>1, <3>2
  <2>5. QED
    BY <1>1, <1>2, <2>1, <2>2, <2>3, <2>4 DEF ResponseHead
<1>8. QED
  BY <1>6, <1>7

\* What is read as the header of a response follows.
LEMMA ResponseHeadRead ==
  ASSUME NEW bs \in Seq(Byte), TagOf(bs).ok,
         Magic(bs).value = ResponseMagic, VersionOf(bs).value = Version
  PROVE  /\ Magic(bs).ok /\ VersionOf(bs).ok /\ TagOf(bs).value \in Byte
         /\ ResponseHead(bs, TagOf(bs).value) /\ TagOf(bs).at = W32 + 1 + 1
<1>1. PICK magic, version, tag : magic = Magic(bs) /\ version = VersionOf(bs) /\ tag = TagOf(bs)
  OBVIOUS
<1>2. /\ IsReader(bs, magic) /\ IsReader(bs, version) /\ IsReader(bs, tag)
      /\ magic = ReadInteger(bs, Reader, W32) /\ version = ReadInteger(bs, magic, 1)
      /\ tag = ReadInteger(bs, version, 1)
  BY <1>1, Readers DEF Magic, VersionOf, TagOf
<1>3. /\ version.ok /\ tag.at = version.at + 1 /\ tag.value \in Byte
      /\ Follows(bs, version.at, <<tag.value>>)
  <2>1. PICK k \in Byte :
          /\ version.ok /\ Follows(bs, version.at, <<k>>)
          /\ tag = [at |-> version.at + 1, ok |-> TRUE, value |-> k]
    BY <1>1, <1>2, ByteRead
  <2>2. QED
    BY <2>1
<1>4. magic.ok /\ version.at = magic.at + 1 /\ Follows(bs, magic.at, <<Version>>)
  <2>1. PICK k \in Byte :
          /\ magic.ok /\ Follows(bs, magic.at, <<k>>)
          /\ version = [at |-> magic.at + 1, ok |-> TRUE, value |-> k]
    BY <1>2, <1>3, ByteRead
  <2>2. QED
    BY <1>1, <2>1
<1>5. magic.at = W32 /\ Follows(bs, 0, WriteInteger(ResponseMagic, W32))
  <2>1. magic.at = Reader.at + W32 /\ Follows(bs, Reader.at, WriteInteger(magic.value, W32))
    BY <1>2, <1>4, Readers, IntegerRead, WidthType
  <2>2. Reader.at = 0 /\ 0 + W32 = W32
    BY Readers, WidthType
  <2>3. QED
    BY <1>1, <2>1, <2>2
<1>6. version.at = W32 + 1 /\ tag.at = W32 + 1 + 1
  BY <1>3, <1>4, <1>5
<1>7. ResponseHead(bs, tag.value)
  BY <1>3, <1>4, <1>5, <1>6 DEF ResponseHead
<1>8. QED
  BY <1>1, <1>3, <1>4, <1>6, <1>7

\* A result arrives.
LEMMA ResponseArrives ==
  ASSUME NEW v, IsValue(v), Writable(Len(v.text))
  PROVE  /\ EncodeResponse(v) \in Seq(Byte)
         /\ TryDecodeResponse(EncodeResponse(v)) = [status |-> "ok", result |-> v]
         /\ Magic(EncodeResponse(v)).ok /\ Magic(EncodeResponse(v)).value = ResponseMagic
<1>1. PICK s \in Seq(Byte) : s = EncodeValue(v)
  BY EncodeType
<1>2. PICK bs : bs = EncodeResponse(v)
  OBVIOUS
<1>3. 0 \in Byte /\ bs = WriteInteger(ResponseMagic, W32) \o <<Version, 0>> \o s
  BY <1>1, <1>2, KindsAreBytes DEF EncodeResponse
<1>4. bs \in Seq(Byte) /\ Len(bs) = W32 + 1 + 1 + Len(s)
  BY <1>3, ResponseParts
<1>5. ResponseHead(bs, 0) /\ Follows(bs, W32 + 1 + 1, s)
  BY <1>3, <1>4, ResponseParts, FollowsSelf
<1>6. /\ Magic(bs) = [at |-> W32, ok |-> TRUE, value |-> ResponseMagic]
      /\ VersionOf(bs) = [at |-> W32 + 1, ok |-> TRUE, value |-> Version]
      /\ TagOf(bs) = [at |-> W32 + 1 + 1, ok |-> TRUE, value |-> 0]
  BY <1>3, <1>4, <1>5, ResponseHeadArrives
<1>7. PICK tag, result : tag = TagOf(bs) /\ result = DecodeValue(bs, tag)
  OBVIOUS
<1>8. tag.at = W32 + 1 + 1 /\ tag.ok /\ tag.value = 0
  BY <1>6, <1>7
<1>9. IsReader(bs, tag)
  BY <1>4, <1>7, Readers
<1>10. Follows(bs, tag.at, EncodeValue(v))
  BY <1>1, <1>5, <1>8
<1>11. result = [at |-> tag.at + Len(EncodeValue(v)), ok |-> TRUE, value |-> v]
  BY <1>4, <1>7, <1>8, <1>9, <1>10, ValueArrives
<1>12. result.at = Len(bs) /\ result.ok /\ result.value = v
  BY <1>1, <1>4, <1>8, <1>11
<1>13. Complete(bs, result)
  <2>1. Len(bs) \in Nat
    BY <1>4, LenProperties
  <2>2. QED
    BY <1>12, <2>1 DEF Complete, Remaining
<1>14. Magic(bs).value = ResponseMagic /\ Magic(bs).ok /\ VersionOf(bs).value = Version
  BY <1>6
<1>15. TryDecodeResponse(bs) = [status |-> "ok", result |-> v]
  BY <1>7, <1>8, <1>12, <1>13, <1>14, ResponseForm
<1>16. QED
  BY <1>2, <1>4, <1>14, <1>15

\* An error arrives.
LEMMA ErrorArrives ==
  ASSUME NEW t \in Seq(Byte), Writable(Len(t))
  PROVE  /\ EncodeError(t) \in Seq(Byte)
         /\ TryDecodeResponse(EncodeError(t)) = [status |-> "remote_error", error |-> t]
         /\ Magic(EncodeError(t)).ok /\ Magic(EncodeError(t)).value = ResponseMagic
<1>1. PICK s \in Seq(Byte) : s = WriteRaw(t) /\ Len(s) = W32 + Len(t)
  BY RawType
<1>2. PICK bs : bs = EncodeError(t)
  OBVIOUS
<1>3. 1 \in Byte /\ bs = WriteInteger(ResponseMagic, W32) \o <<Version, 1>> \o s
  BY <1>1, <1>2, KindsAreBytes DEF EncodeError
<1>4. bs \in Seq(Byte) /\ Len(bs) = W32 + 1 + 1 + Len(s)
  BY <1>3, ResponseParts
<1>5. ResponseHead(bs, 1) /\ Follows(bs, W32 + 1 + 1, s)
  BY <1>3, <1>4, ResponseParts, FollowsSelf
<1>6. /\ Magic(bs) = [at |-> W32, ok |-> TRUE, value |-> ResponseMagic]
      /\ VersionOf(bs) = [at |-> W32 + 1, ok |-> TRUE, value |-> Version]
      /\ TagOf(bs) = [at |-> W32 + 1 + 1, ok |-> TRUE, value |-> 1]
  BY <1>3, <1>4, <1>5, ResponseHeadArrives
<1>7. PICK tag, message : tag = TagOf(bs) /\ message = ReadRaw(bs, tag)
  OBVIOUS
<1>8. tag.at = W32 + 1 + 1 /\ tag.ok /\ tag.value = 1
  BY <1>6, <1>7
<1>9. IsReader(bs, tag)
  BY <1>4, <1>7, Readers
<1>10. Follows(bs, tag.at, WriteRaw(t))
  BY <1>1, <1>5, <1>8
<1>11. message = [at |-> tag.at + W32 + Len(t), ok |-> TRUE, value |-> t]
  BY <1>4, <1>7, <1>8, <1>9, <1>10, RawArrives
<1>12. message.at = Len(bs) /\ message.ok /\ message.value = t
  <2>1. message.at = tag.at + W32 + Len(t) /\ message.ok /\ message.value = t
    BY <1>11
  <2>2. Len(t) \in Nat
    BY LenProperties
  <2>3. QED
    BY <1>1, <1>4, <1>8, <2>1, <2>2, WidthType
<1>13. Complete(bs, message)
  <2>1. Len(bs) \in Nat
    BY <1>4, LenProperties
  <2>2. QED
    BY <1>12, <2>1 DEF Complete, Remaining
<1>14. Magic(bs).value = ResponseMagic /\ Magic(bs).ok /\ VersionOf(bs).value = Version
  BY <1>6
<1>15. TryDecodeResponse(bs) = [status |-> "remote_error", error |-> t]
  BY <1>7, <1>8, <1>12, <1>13, <1>14, ResponseForm
<1>16. QED
  BY <1>2, <1>4, <1>14, <1>15

\* A malformed frame is neither ok nor an error.
LEMMA MalformedStatus ==
  /\ Malformed.status = "malformed"
  /\ \A x : [status |-> "ok", result |-> x].status = "ok"
  /\ \A x : [status |-> "remote_error", error |-> x].status = "remote_error"
  BY DEF Malformed

\* What the response decoder accepts.
LEMMA ResponseAccepted ==
  ASSUME NEW bs, TryDecodeResponse(bs) # Malformed
  PROVE  /\ Magic(bs).value = ResponseMagic /\ VersionOf(bs).value = Version /\ TagOf(bs).ok
         /\ ~(TagOf(bs).value > 1)
         /\ TagOf(bs).value = 1 =>
              /\ Complete(bs, ReadRaw(bs, TagOf(bs)))
              /\ TryDecodeResponse(bs) =
                   [status |-> "remote_error", error |-> ReadRaw(bs, TagOf(bs)).value]
         /\ TagOf(bs).value # 1 =>
              /\ Complete(bs, DecodeValue(bs, TagOf(bs)))
              /\ TryDecodeResponse(bs) =
                   [status |-> "ok", result |-> DecodeValue(bs, TagOf(bs)).value]
  BY ResponseForm

\* The bytes of a response are the encoding of what it is decoded to, in one of its forms.
LEMMA ResponseRead ==
  ASSUME NEW bs \in Seq(Byte), TryDecodeResponse(bs) # Malformed
  PROVE  /\ Magic(bs).ok /\ Magic(bs).value = ResponseMagic
         /\ \/ \E v \in Wire :
                 /\ TryDecodeResponse(bs) = [status |-> "ok", result |-> v]
                 /\ \E raw \in Forms(v) : EncodeResponse(raw) = bs
            \/ \E t \in Seq(Byte) :
                 /\ TryDecodeResponse(bs) = [status |-> "remote_error", error |-> t]
                 /\ EncodeError(t) = bs
<1>1. PICK tag : tag = TagOf(bs)
  OBVIOUS
<1>2. /\ Magic(bs).value = ResponseMagic /\ VersionOf(bs).value = Version /\ tag.ok
      /\ ~(tag.value > 1)
  BY <1>1, ResponseAccepted
<1>3. IsReader(bs, tag)
  BY <1>1, Readers
<1>4. Magic(bs).ok /\ tag.value \in Byte /\ ResponseHead(bs, tag.value) /\ tag.at = W32 + 1 + 1
  BY <1>1, <1>2, ResponseHeadRead
<1>5. PICK p \in Nat, n \in Nat : p = W32 + 1 + 1 /\ n = Len(bs)
  BY WidthType, LenProperties
<1>6. CASE tag.value = 1
  <2>1. PICK message : message = ReadRaw(bs, tag)
    OBVIOUS
  <2>2. /\ Complete(bs, message)
        /\ TryDecodeResponse(bs) = [status |-> "remote_error", error |-> message.value]
    BY <1>1, <1>6, <2>1, ResponseAccepted
  <2>3. message.ok /\ n - message.at = 0
    BY <1>5, <2>2 DEF Complete, Remaining
  <2>4. PICK t \in Seq(Byte) :
          /\ Follows(bs, tag.at, WriteRaw(t))
          /\ message = [at |-> tag.at + W32 + Len(t), ok |-> TRUE, value |-> t]
    BY <1>3, <2>1, <2>3, RawRead
  <2>5. PICK s \in Seq(Byte) : s = WriteRaw(t) /\ Len(s) = W32 + Len(t)
    BY RawType
  <2>6. PICK e : e = EncodeError(t)
    OBVIOUS
  <2>7. e = WriteInteger(ResponseMagic, W32) \o <<Version, 1>> \o s /\ 1 \in Byte
    BY <2>5, <2>6, KindsAreBytes DEF EncodeError
  <2>8. e \in Seq(Byte) /\ Len(e) = p + Len(s) /\ Follows(bs, 0, e)
    <3>1. ResponseHead(bs, 1) /\ Follows(bs, W32 + 1 + 1, s)
      BY <1>4, <1>6, <2>4, <2>5
    <3>2. /\ e \in Seq(Byte) /\ Len(e) = W32 + 1 + 1 + Len(s)
          /\ Follows(bs, 0, e) <=> ResponseHead(bs, 1) /\ Follows(bs, W32 + 1 + 1, s)
      BY ONLY <2>7, s \in Seq(Byte), bs \in Seq(Byte), ResponseParts
    <3>3. QED
      BY ONLY <1>5, <3>1, <3>2
  <2>9. Len(e) = n
    <3>1. message.at = p + W32 + Len(t) /\ message.value = t
      BY <1>4, <1>5, <2>4
    <3>2. Len(t) \in Nat
      BY LenProperties
    <3>3. QED
      BY <2>3, <2>5, <2>8, <3>1, <3>2, WidthType
  <2>10. e = bs
    BY <1>5, <2>8, <2>9, FollowsWhole
  <2>11. message.value = t
    BY <2>4
  <2>12. QED
    BY <1>2, <1>4, <2>2, <2>6, <2>10, <2>11
<1>7. CASE tag.value # 1
  <2>1. PICK result : result = DecodeValue(bs, tag)
    OBVIOUS
  <2>2. /\ Complete(bs, result)
        /\ TryDecodeResponse(bs) = [status |-> "ok", result |-> result.value]
    BY <1>1, <1>7, <2>1, ResponseAccepted
  <2>3. result.ok /\ n - result.at = 0
    BY <1>5, <2>2 DEF Complete, Remaining
  <2>4. PICK v : v = result.value
    OBVIOUS
  <2>5. ReadAs(bs, tag.at, result.at, v)
    BY <1>3, <2>1, <2>3, <2>4, ValueRead
  <2>6. PICK raw \in Forms(v) :
          /\ v \in Wire /\ Follows(bs, tag.at, EncodeValue(raw))
          /\ result.at = tag.at + Len(EncodeValue(raw))
    BY <2>5, WireValue DEF ReadAs
  <2>7. PICK s \in Seq(Byte), l \in Nat : s = EncodeValue(raw) /\ l = Len(s)
    <3>1. PICK s \in Seq(Byte) : s = EncodeValue(raw)
      BY <2>6, WrittenType
    <3>2. Len(s) \in Nat
      BY LenProperties
    <3>3. QED
      BY <3>1, <3>2
  <2>8. tag.value = 0 /\ 0 \in Byte
    BY <1>2, <1>4, <1>7, WidthType DEF Byte
  <2>9. PICK e : e = EncodeResponse(raw)
    OBVIOUS
  <2>10. e = WriteInteger(ResponseMagic, W32) \o <<Version, 0>> \o s
    BY <2>7, <2>9 DEF EncodeResponse
  <2>11. e \in Seq(Byte) /\ Len(e) = p + l /\ Follows(bs, 0, e)
    <3>1. ResponseHead(bs, 0) /\ Follows(bs, W32 + 1 + 1, s)
      BY <1>4, <2>6, <2>7, <2>8
    <3>2. /\ e \in Seq(Byte) /\ Len(e) = W32 + 1 + 1 + Len(s)
          /\ Follows(bs, 0, e) <=> ResponseHead(bs, 0) /\ Follows(bs, W32 + 1 + 1, s)
      BY ONLY <2>8, <2>10, s \in Seq(Byte), bs \in Seq(Byte), ResponseParts
    <3>3. QED
      BY ONLY <1>5, <2>7, <3>1, <3>2
  <2>12. Len(e) = n
    BY <1>4, <1>5, <2>3, <2>6, <2>7, <2>11
  <2>13. e = bs
    BY <1>5, <2>11, <2>12, FollowsWhole
  <2>14. QED
    BY <1>2, <1>4, <2>2, <2>4, <2>6, <2>9, <2>13
<1>8. QED
  BY <1>6, <1>7

\* A response with further bytes behind it is no response.
LEMMA ResponseBegins ==
  ASSUME NEW bs \in Seq(Byte), NEW cs \in Seq(Byte), Begins(bs, cs), Len(bs) # Len(cs),
         TryDecodeResponse(bs) # Malformed
  PROVE  TryDecodeResponse(cs) = Malformed
<1>1. PICK tag : tag = TagOf(bs)
  OBVIOUS
<1>2. /\ Magic(bs).value = ResponseMagic /\ VersionOf(bs).value = Version /\ tag.ok
      /\ ~(tag.value > 1)
  BY <1>1, ResponseAccepted
<1>3. IsReader(bs, tag) /\ Len(bs) \in Nat /\ Len(cs) \in Nat
  BY <1>1, Readers, LenProperties
<1>4. Magic(bs).ok /\ VersionOf(bs).ok
  BY <1>1, <1>2, ResponseHeadRead
<1>5. VersionOf(cs) = VersionOf(bs)
  BY <1>4, MagicBegins, Readers, IntegerBegins DEF VersionOf
<1>6. TagOf(cs) = tag
  BY <1>1, <1>2, <1>5, Readers, IntegerBegins DEF TagOf
<1>7. SUFFICES ASSUME TryDecodeResponse(cs) # Malformed PROVE FALSE
  OBVIOUS
<1>8. CASE tag.value = 1
  <2>1. PICK r : r = ReadRaw(bs, tag)
    OBVIOUS
  <2>2. r.ok /\ Len(bs) - r.at = 0
    BY <1>1, <1>8, <2>1, ResponseAccepted DEF Complete, Remaining
  <2>3. ReadRaw(cs, tag) = r
    BY <1>3, <2>1, <2>2, RawBegins
  <2>4. Len(cs) - r.at = 0
    BY <1>6, <1>7, <1>8, <2>3, ResponseAccepted DEF Complete, Remaining
  <2>5. r.at \in 0..Len(bs)
    BY <1>3, <2>1, RawRead DEF IsReader
  <2>6. QED
    BY <1>3, <2>2, <2>4, <2>5
<1>9. CASE tag.value # 1
  <2>1. PICK r : r = DecodeValue(bs, tag)
    OBVIOUS
  <2>2. r.ok /\ Len(bs) - r.at = 0
    BY <1>1, <1>9, <2>1, ResponseAccepted DEF Complete, Remaining
  <2>3. DecodeValue(cs, tag) = r
    BY <1>3, <2>1, <2>2, ValueBegins
  <2>4. Len(cs) - r.at = 0
    BY <1>6, <1>7, <1>9, <2>3, ResponseAccepted DEF Complete, Remaining
  <2>5. r.at \in 0..Len(bs)
    BY <1>3, <2>1, ValueRead DEF IsReader
  <2>6. QED
    BY <1>3, <2>2, <2>4, <2>5
<1>10. QED
  BY <1>8, <1>9

-----------------------------------------------------------------------------
(* The link.  Its instance has the codec's definitions under names of its own. *)

\* The codec of the link is the codec.
LEMMA SameCodec ==
  /\ Link!Byte = Byte /\ Link!Malformed = Malformed
  /\ \A n : Link!Writable(n) <=> Writable(n)
  /\ \A m, args : Link!EncodeRequest(m, args) = EncodeRequest(m, args)
  /\ \A v : Link!EncodeResponse(v) = EncodeResponse(v)
  /\ \A t : Link!EncodeError(t) = EncodeError(t)
  /\ \A v : Link!Forms(v) = Forms(v)
  /\ \A bs \in Seq(Byte) : Link!TryDecodeRequest(bs) = TryDecodeRequest(bs)
  /\ \A bs : Link!TryDecodeResponse(bs) = TryDecodeResponse(bs)
<1>1. Link!Byte = Byte /\ Link!Malformed = Malformed
  BY DEF Link!Byte, Byte, Link!Malformed, Malformed
<1>2. \A n : Link!Writable(n) <=> Writable(n)
  BY DEF Link!Writable, Writable, Link!Limit, Limit, Link!Power, Power
<1>3. \A number, w : Link!WriteInteger(number, w) = WriteInteger(number, w)
  BY Zenon DEF Link!WriteInteger, WriteInteger, Link!Power, Power
<1>4. \A v : Link!EncodeValue(v) = EncodeValue(v)
  BY <1>3, Zenon DEF Link!EncodeValue, EncodeValue, Link!WriteRaw, WriteRaw, Link!Numbers, Numbers,
       Link!string, string, Link!boolean, boolean,
    Link!signed_integer, signed_integer, Link!unsigned_integer, unsigned_integer, Link!real, real
<1>5. \A t : Link!EncodeError(t) = EncodeError(t)
  BY <1>3, Zenon DEF Link!EncodeError, EncodeError, Link!WriteRaw, WriteRaw
<1>6. \A v : Link!EncodeResponse(v) = EncodeResponse(v)
  BY <1>3, <1>4, Zenon DEF Link!EncodeResponse, EncodeResponse
<1>7. \A ss : Link!FlattenSeq(ss) = FlattenSeq(ss)
  BY Zenon DEF Link!FlattenSeq, FlattenSeq
<1>8. \A m, args : Link!EncodeRequest(m, args) = EncodeRequest(m, args)
  BY <1>3, <1>4, <1>7 DEF Link!EncodeRequest, EncodeRequest
<1>9. \A bs, at, w : Link!Assemble(bs, at, w) = Assemble(bs, at, w)
  BY Zenon DEF Link!Assemble, Assemble, Link!Power, Power
<1>10. \A bs, r, w : Link!ReadInteger(bs, r, w) = ReadInteger(bs, r, w)
  BY <1>9, Zenon DEF Link!ReadInteger, ReadInteger, Link!Require, Require, Link!Remaining, Remaining
<1>11. \A bs, r : Link!ReadRaw(bs, r) = ReadRaw(bs, r)
  BY <1>10, Zenon DEF Link!ReadRaw, ReadRaw, Link!Require, Require, Link!Remaining, Remaining
<1>12. /\ \A r, v : Link!Yields(r, v) = Yields(r, v)
       /\ \A r : Link!UnknownKind(r) = UnknownKind(r)
       /\ \A v : Link!Boolean(v) = Boolean(v)
       /\ \A v : Link!String(v) = String(v)
       /\ \A k, v : Link!Number(k, v) = Number(k, v)
       /\ Link!Undefined = Undefined
  BY Zenon DEF Link!Yields, Yields, Link!UnknownKind, UnknownKind, Link!Boolean, Boolean, Link!String,
       String, Link!Number, Number, Link!Undefined, Undefined, Link!string, string, Link!undefined,
       undefined, Link!boolean, boolean
<1>13. ASSUME NEW bs, NEW r PROVE Link!DecodeValue(bs, r) = DecodeValue(bs, r)
  <2>1. PICK kind, bits, flag, text :
          /\ kind = ReadInteger(bs, r, 1) /\ bits = ReadInteger(bs, kind, W64)
          /\ flag = ReadInteger(bs, kind, 1) /\ text = ReadRaw(bs, kind)
    OBVIOUS
  <2>2. /\ kind = Link!ReadInteger(bs, r, 1) /\ bits = Link!ReadInteger(bs, kind, W64)
        /\ flag = Link!ReadInteger(bs, kind, 1) /\ text = Link!ReadRaw(bs, kind)
    BY <1>10, <1>11, <2>1
  <2>3. QED
    BY <1>12, <2>1, <2>2 DEF Link!DecodeValue, DecodeValue, Link!Numbers, Numbers, Link!string,
       string, Link!boolean, boolean, Link!undefined, undefined, Link!signed_integer, signed_integer,
       Link!unsigned_integer, unsigned_integer, Link!real, real
<1>14. ASSUME NEW bs \in Seq(Byte), NEW first, IsReader(bs, first), first.value \in Nat
       PROVE  Link!ReadArgs(bs, first) = ReadArgs(bs, first)
  <2>1. PICK n \in Nat : n = first.value
    BY <1>14
  <2>2. PICK arg \in [0..n -> ArgReader(bs)] :
          ArgReaders(arg, bs, first, n) /\ ReadArgs(bs, first) = arg[n]
    BY <1>14, <2>1, ArgsExist
  <2> DEFINE step(r) == Link!Yields(Link!DecodeValue(bs, r), Append(r.value, Link!DecodeValue(bs, r).value))
  <2>3. arg[0] = Link!Yields(first, <<>>) /\ \A i \in 1..n : arg[i] = step(arg[i - 1])
    BY <2>2, <1>12, <1>13 DEF ArgReaders
  <2>4. PICK z : z = Link!Yields(first, <<>>)
    OBVIOUS
  <2> DEFINE chosen == CHOOSE fn : fn = [i \in 0..n |-> IF i = 0 THEN z ELSE step(fn[i - 1])]
  <2>5. Link!ReadArgs(bs, first) = chosen[n]
    BY <2>1, <2>4 DEF Link!ReadArgs
  <2> HIDE DEF step
  <2>6. arg = [i \in 0..n |-> IF i = 0 THEN z ELSE step(arg[i - 1])]
    BY <2>3, <2>4
  <2>7. chosen = [i \in 0..n |-> IF i = 0 THEN z ELSE step(chosen[i - 1])]
    BY <2>6
  <2> HIDE DEF chosen
  <2> DEFINE T == {k \in 0..n : chosen[k] = arg[k]}
  <2>8. 0 \in T
    BY <2>3, <2>4, <2>7
  <2>9. ASSUME NEW k \in 0..n - 1, k \in T PROVE k + 1 \in T
    <3>1. PICK i \in 1..n : i = k + 1
      OBVIOUS
    <3>2. i - 1 = k /\ i \in 0..n /\ i # 0
      BY <3>1
    <3>3. chosen[i] = step(chosen[i - 1]) /\ arg[i] = step(arg[i - 1])
      BY <2>3, <2>7, <3>2
    <3>4. QED
      BY <2>9, <3>1, <3>2, <3>3
  <2>10. \A k \in 0..n : k \in T
    <3> HIDE DEF T
    <3> QED
      BY <2>8, <2>9, Induction
  <2>11. chosen[n] = arg[n]
    BY <2>10
  <2>12. QED
    BY <2>2, <2>5, <2>11
<1>15. ASSUME NEW bs \in Seq(Byte) PROVE Link!TryDecodeRequest(bs) = TryDecodeRequest(bs)
  <2>1. PICK magic, version, method, argc :
          /\ magic = ReadInteger(bs, Reader, W32) /\ version = ReadInteger(bs, magic, 1)
          /\ method = ReadInteger(bs, version, W64) /\ argc = ReadInteger(bs, method, W32)
    OBVIOUS
  <2>2. /\ magic = Link!ReadInteger(bs, Link!Reader, W32)
        /\ version = Link!ReadInteger(bs, magic, 1)
        /\ method = Link!ReadInteger(bs, version, W64)
        /\ argc = Link!ReadInteger(bs, method, W32)
    BY <1>10, <2>1 DEF Link!Reader, Reader
  <2>3. argc = CountOf(bs) /\ IsReader(bs, argc) /\ argc.value \in Nat
    <3>1. argc = CountOf(bs) /\ method = MethodOf(bs)
      BY <2>1 DEF CountOf, MethodOf, VersionOf, Magic
    <3>2. IsReader(bs, argc) /\ IsReader(bs, method)
      BY <3>1, Readers
    <3>3. Limit(W32) \in Nat
      BY LimitType, WidthType
    <3>4. CASE argc.ok
      <4>1. argc.value \in 0..Limit(W32) - 1
        BY <2>1, <3>2, <3>4, IntegerRead, WidthType
      <4>2. QED
        BY <3>1, <3>2, <3>3, <4>1
    <3>5. CASE ~argc.ok
      <4>1. argc = [at |-> method.at, ok |-> FALSE, value |-> 0]
        BY <2>1, <3>2, <3>5, IntegerRead, WidthType
      <4>2. QED
        BY <3>1, <3>2, <4>1
    <3>6. QED
      BY <3>4, <3>5
  <2>4. Link!ReadArgs(bs, argc) = ReadArgs(bs, argc)
    BY <1>14, <2>3
  <2>5. QED
    BY <1>1, <2>1, <2>2, <2>4 DEF Link!TryDecodeRequest, TryDecodeRequest, Link!Complete, Complete,
       Link!Remaining, Remaining, Link!CountFits, CountFits, Link!Reader, Reader
<1>16. \A bs : Link!TryDecodeResponse(bs) = TryDecodeResponse(bs)
  BY <1>1, <1>10, <1>11, <1>13, ZenonT(40) DEF Link!TryDecodeResponse, TryDecodeResponse, Link!Complete,
       Complete, Link!Remaining, Remaining, Link!Reader, Reader
<1>17. \A v : Link!Forms(v) = Forms(v)
  BY <1>12 DEF Link!Forms, Forms, Link!boolean, boolean
<1>18. QED
  BY <1>1, <1>2, <1>5, <1>6, <1>8, <1>15, <1>16, <1>17

\* A frame is not taken for one of the other type.
LEMMA NotCrossed ==
  ASSUME NEW bs
  PROVE  /\ Magic(bs).value = RequestMagic => TryDecodeResponse(bs) = Malformed
         /\ Magic(bs).value = ResponseMagic => TryDecodeRequest(bs) = Malformed
         /\ TryDecodeRequest(bs).status \in {"ok", "malformed"}
         /\ TryDecodeRequest(bs).status # "ok" => TryDecodeRequest(bs) = Malformed
         /\ TryDecodeResponse(bs).status \in {"ok", "malformed", "remote_error"}
<1>1. Magic(bs).value = RequestMagic => TryDecodeResponse(bs) = Malformed
  BY ResponseForm, MagicTypes
<1>2. Magic(bs).value = ResponseMagic => TryDecodeRequest(bs) = Malformed
  BY RequestForm, MagicTypes
<1>3. \A m, args : [status |-> "ok", method |-> m, args |-> args].status = "ok"
  OBVIOUS
<1>4. \/ TryDecodeRequest(bs) = Malformed
      \/ \E m, args : TryDecodeRequest(bs) = [status |-> "ok", method |-> m, args |-> args]
  BY RequestForm
<1>5. TryDecodeResponse(bs).status \in {"ok", "malformed", "remote_error"}
  <2>1. \/ TryDecodeResponse(bs) = Malformed
        \/ \E x : TryDecodeResponse(bs) = [status |-> "ok", result |-> x]
        \/ \E x : TryDecodeResponse(bs) = [status |-> "remote_error", error |-> x]
    BY ResponseForm
  <2>2. QED
    BY <2>1, MalformedStatus
<1>6. QED
  BY <1>1, <1>2, <1>3, <1>4, <1>5, MalformedStatus

\* Payloads are wire values.
LEMMA PayloadTypes ==
  ASSUME NEW v \in Payloads
  PROVE  IsValue(v) /\ v \in Wire /\ v.text \in Seq(Byte)
<1>1. IsValue(v) /\ v \in Wire
  BY LinkAssumption, WireValue
<1>2. v.text \in Seq(Byte)
  <2>1. <<>> \in Seq(Byte) /\ \A k, n : Number(k, n).text = <<>>
    BY EmptySeq DEF Number
  <2>2. CASE v \in {Undefined, Boolean(0), Boolean(1)}
    BY <2>1, <2>2 DEF Undefined, Boolean
  <2>3. CASE \E kind \in Numbers : v = Number(kind, v.bits) /\ v.bits \in 0..Limit(W64) - 1
    BY <2>1, <2>3
  <2>4. CASE v = String(v.text) /\ v.text \in Seq(Byte)
    BY <2>4
  <2>5. QED
    BY <1>1, <2>2, <2>3, <2>4 DEF IsValue
<1>3. QED
  BY <1>1, <1>2

\* What becomes of an intact message.
Decodes(m, e) ==
  \/ /\ m.type = "request"
     /\ TryDecodeRequest(e) = [status |-> "ok", method |-> m.method, args |-> m.args]
     /\ Magic(e).ok /\ Magic(e).value = RequestMagic
  \/ /\ m.type = "response"
     /\ TryDecodeResponse(e) = [status |-> "ok", result |-> m.result]
     /\ Magic(e).ok /\ Magic(e).value = ResponseMagic
  \/ /\ m.type = "error"
     /\ TryDecodeResponse(e) = [status |-> "remote_error", error |-> m.message]
     /\ Magic(e).ok /\ Magic(e).value = ResponseMagic

\* Every message that can be encoded decodes to itself.
LEMMA MessageDecodes ==
  ASSUME NEW m \in Link!Messages, Link!Encodable(m)
  PROVE  Link!Encoded(m) \in Seq(Byte) /\ Decodes(m, Link!Encoded(m))
<1>1. CASE m \in [type : {"request"}, method : Methods, args : Link!Args]
  <2>1. m.type = "request" /\ m.method \in Methods /\ m.args \in Link!Args
    BY <1>1
  <2>2. PICK id \in 0..Limit(W64) - 1 : id = m.method
    BY <2>1, LinkAssumption
  <2>3. PICK n \in 0..MaxArgs : m.args \in [1..n -> Payloads]
    BY <2>1 DEF Link!Args
  <2>4. PICK args \in Seq(Wire) : args = m.args /\ DOMAIN args = 1..Len(args)
    <3>1. \A i \in 1..n : m.args[i] \in Wire
      BY <2>3, PayloadTypes
    <3>2. n \in Nat
      BY LinkAssumption
    <3>3. m.args \in [1..n -> Wire]
      BY <2>3, <3>1
    <3>4. m.args \in Seq(Wire)
      BY <3>2, <3>3, SeqDef
    <3>5. DOMAIN m.args = 1..Len(m.args)
      BY <3>4, LenProperties
    <3>6. QED
      BY <3>4, <3>5
  <2>5. Writable(Len(args)) /\ \A i \in 1..Len(args) : Writable(Len(args[i].text))
    BY <2>1, <2>4, SameCodec DEF Link!Encodable
  <2>6. Link!Encoded(m) = EncodeRequest(id, args)
    BY <2>1, <2>2, <2>4, SameCodec DEF Link!Encoded
  <2>7. EncodeRequest(id, args) \in Seq(Byte)
    BY <2>5, RequestParts
  <2>8. /\ TryDecodeRequest(EncodeRequest(id, args)) = [status |-> "ok", method |-> id, args |-> args]
        /\ Magic(EncodeRequest(id, args)).ok /\ Magic(EncodeRequest(id, args)).value = RequestMagic
    BY <2>5, RequestArrives
  <2>9. QED
    BY <2>1, <2>2, <2>4, <2>6, <2>7, <2>8 DEF Decodes
<1>2. CASE m \in [type : {"response"}, result : Payloads]
  <2>1. m.type = "response" /\ m.result \in Payloads
    BY <1>2
  <2>2. PICK v : v = m.result
    OBVIOUS
  <2>3. Writable(Len(v.text)) /\ IsValue(v)
    BY <2>1, <2>2, PayloadTypes, SameCodec DEF Link!Encodable
  <2>4. Link!Encoded(m) = EncodeResponse(v)
    BY <2>1, <2>2, SameCodec DEF Link!Encoded
  <2>5. QED
    BY <2>1, <2>2, <2>3, <2>4, ResponseArrives DEF Decodes
<1>3. CASE m \in [type : {"error"}, message : {p.text : p \in Payloads}]
  <2>1. m.type = "error" /\ m.message \in {p.text : p \in Payloads}
    BY <1>3
  <2>2. PICK t \in Seq(Byte) : t = m.message
    BY <2>1, PayloadTypes
  <2>3. Writable(Len(t))
    BY <2>1, <2>2, SameCodec DEF Link!Encodable
  <2>4. Link!Encoded(m) = EncodeError(t)
    BY <2>1, <2>2, SameCodec DEF Link!Encoded
  <2>5. QED
    BY <2>1, <2>2, <2>3, <2>4, ErrorArrives DEF Decodes
<1>4. QED
  BY <1>1, <1>2, <1>3 DEF Link!Messages

\* Where a frame that no byte was changed in stands to the frame that was sent.
Changed(bs, e) ==
  /\ cut => extra = 0 /\ Begins(bs, e) /\ Len(bs) # Len(e)
  /\ extra > 0 => ~cut /\ Begins(e, bs) /\ Len(bs) # Len(e)
  /\ ~cut /\ extra = 0 => bs = e

\* The inductive invariant of the link.
LinkInv ==
  /\ sent \in Link!Messages /\ Link!Encodable(sent)
  /\ bytes \in Seq(Byte) /\ extra \in Nat /\ flips \in Nat
  /\ flips = 0 => Changed(bytes, Link!Encoded(sent))
  /\ \/ asRequest = Link!None /\ asResponse = Link!None
     \/ asRequest = TryDecodeRequest(bytes) /\ asResponse = TryDecodeResponse(bytes)

\* LinkInv while the frame is under way.
LEMMA UnderWay ==
  ASSUME LinkInv, Link!InTransit
  PROVE  asRequest = Link!None /\ asResponse = Link!None
<1>1. Link!None.status = "none"
  BY DEF Link!None
<1>2. TryDecodeRequest(bytes).status # "none"
  BY NotCrossed
<1>3. QED
  BY <1>1, <1>2 DEF LinkInv, Link!InTransit

\* A sequence without its last element.
LEMMA FrontOf ==
  ASSUME NEW X, NEW s \in Seq(X), s # <<>>
  PROVE  /\ Front(s) \in Seq(X) /\ Len(s) > 0 /\ Len(Front(s)) = Len(s) - 1
         /\ \A i \in 1..Len(s) - 1 : Front(s)[i] = s[i]
<1>1. PICK n \in Nat : n = Len(s) /\ n > 0
  BY LenProperties, EmptySeq
<1>2. s \in [1..n -> X]
  BY <1>1, LenProperties
<1>3. Front(s) = SubSeq(s, 1, n - 1)
  BY <1>1 DEF Front
<1>4. PICK u : u = SubSeq(s, 1, n - 1)
  OBVIOUS
<1>5. u \in Seq(X) /\ Len(u) = n - 1 /\ \A i \in 1..n - 1 : u[i] = s[i]
  <2>1. \A i \in 1..n - 1 : s[i] \in X
    BY <1>2
  <2>2. u = [i \in 1..n - 1 |-> s[i]]
    BY <1>1, <1>4
  <2>3. QED
    BY <1>1, <2>1, <2>2
<1>6. QED
  BY <1>1, <1>3, <1>4, <1>5

\* A message that was just sent is intact.
LEMMA LinkInit == ASSUME Link!Init PROVE LinkInv
<1>1. /\ sent \in Link!Messages /\ Link!Encodable(sent) /\ bytes = Link!Encoded(sent)
      /\ cut = FALSE /\ extra = 0 /\ flips = 0 /\ asRequest = Link!None /\ asResponse = Link!None
  BY DEF Link!Init
<1>2. bytes \in Seq(Byte)
  BY <1>1, MessageDecodes
<1>3. QED
  BY <1>1, <1>2 DEF LinkInv, Changed

\* The transport changes the frame in the ways that Changed names, and no other.
LEMMA LinkNext == ASSUME LinkInv, [Link!Next]_linkVars PROVE LinkInv'
<1>1. PICK e \in Seq(Byte) : e = Link!Encoded(sent)
  BY MessageDecodes DEF LinkInv
<1>2. PICK bs \in Seq(Byte), n \in Nat, l \in Nat : bs = bytes /\ n = Len(bs) /\ l = Len(e)
  BY LenProperties DEF LinkInv
<1>3. CASE Link!Cut
  <2>1. PICK cs : cs = bytes'
    OBVIOUS
  <2>2. /\ Link!InTransit /\ bs # <<>> /\ extra = 0 /\ cs = Front(bs) /\ cut' = TRUE
        /\ UNCHANGED <<sent, extra, flips, asRequest, asResponse>>
    BY <1>2, <1>3, <2>1 DEF Link!Cut, Link!Front, Front
  <2>3. cs \in Seq(Byte) /\ n > 0 /\ Len(cs) = n - 1 /\ \A i \in 1..n - 1 : cs[i] = bs[i]
    BY <1>2, <2>2, FrontOf
  <2>4. ASSUME flips = 0 PROVE Begins(cs, e) /\ Len(cs) # Len(e)
    <3>1. Begins(bs, e) \/ bs = e
      BY <1>1, <1>2, <2>2, <2>4 DEF LinkInv, Changed
    <3>2. n <= l /\ \A i \in 1..n : bs[i] = e[i]
      BY <1>2, <3>1 DEF Begins
    <3>3. QED
      BY <1>2, <2>3, <3>2, SMTT(20) DEF Begins
  <2>5. QED
    BY <1>1, <2>1, <2>2, <2>3, <2>4, UnderWay DEF LinkInv, Changed
<1>4. ASSUME NEW x \in Byte, Link!Extend(x) PROVE LinkInv'
  <2>1. PICK cs : cs = bytes'
    OBVIOUS
  <2>2. /\ Link!InTransit /\ ~cut /\ cs = Append(bs, x) /\ extra' = extra + 1
        /\ UNCHANGED <<sent, cut, flips, asRequest, asResponse>>
    BY <1>2, <1>4, <2>1 DEF Link!Extend
  <2>3. cs \in Seq(Byte) /\ Len(cs) = n + 1 /\ \A i \in 1..n : cs[i] = bs[i]
    BY <1>2, <2>2, AppendProperties
  <2>4. ASSUME flips = 0 PROVE Begins(e, cs) /\ Len(cs) # Len(e)
    <3>1. extra \in Nat
      BY DEF LinkInv
    <3>2. Begins(e, bs) \/ bs = e
      BY <1>1, <1>2, <2>2, <2>4, <3>1 DEF LinkInv, Changed
    <3>3. l <= n /\ \A i \in 1..l : bs[i] = e[i]
      BY <1>2, <3>2 DEF Begins
    <3>4. QED
      BY <1>2, <2>3, <3>3 DEF Begins
  <2>5. extra \in Nat /\ extra' \in Nat /\ extra' > 0 /\ ~(extra' = 0)
    BY <2>2 DEF LinkInv
  <2>6. QED
    BY <1>1, <2>1, <2>2, <2>3, <2>4, <2>5, UnderWay DEF LinkInv, Changed
<1>5. ASSUME NEW i \in DOMAIN bytes, NEW x \in Byte, Link!Flip(i, x) PROVE LinkInv'
  <2>1. PICK cs : cs = bytes'
    OBVIOUS
  <2>2. /\ Link!InTransit /\ cs = [bs EXCEPT ![i] = x] /\ flips' = flips + 1
        /\ UNCHANGED <<sent, cut, extra, asRequest, asResponse>>
    BY <1>2, <1>5, <2>1 DEF Link!Flip
  <2>3. cs \in Seq(Byte)
    <3>1. cs \in [1..n -> Byte]
      <4>1. bs \in [1..n -> Byte]
        BY <1>2, LenProperties
      <4>2. QED
        BY <2>2, <4>1
    <3>2. QED
      BY <3>1, SeqDef
  <2>4. flips' \in Nat /\ flips' # 0
    BY <2>2 DEF LinkInv
  <2>5. QED
    BY <1>1, <2>1, <2>2, <2>3, <2>4, UnderWay DEF LinkInv
<1>6. CASE Link!Receive
  <2>1. /\ asRequest' = Link!TryDecodeRequest(bytes) /\ asResponse' = Link!TryDecodeResponse(bytes)
        /\ UNCHANGED <<sent, bytes, cut, extra, flips>>
    BY <1>6 DEF Link!Receive
  <2>2. /\ asRequest' = TryDecodeRequest(bytes) /\ asResponse' = TryDecodeResponse(bytes)
    BY <1>2, <2>1, SameCodec
  <2>3. QED
    BY <1>2, <2>1, <2>2 DEF LinkInv, Changed
<1>7. CASE UNCHANGED linkVars
  BY <1>7 DEF LinkInv, Changed, linkVars
<1>8. CASE Link!Done
  BY <1>7, <1>8 DEF Link!Done, Link!vars, linkVars
<1>9. QED
  BY <1>3, <1>4, <1>5, <1>6, <1>7, <1>8, SameCodec DEF Link!Next

\* What the decoders accept encodes to the frame.
LEMMA LinkInverts == ASSUME LinkInv PROVE DecodingInverts
<1>1. PICK bs \in Seq(Byte), n \in Nat : bs = bytes /\ n = Len(bs)
  BY LenProperties DEF LinkInv
<1>2. CASE asRequest = Link!None /\ asResponse = Link!None
  BY <1>2 DEF DecodingInverts, Link!DecodingInverts, Link!None
<1>3. CASE asRequest = TryDecodeRequest(bs) /\ asResponse = TryDecodeResponse(bs)
  <2>1. ASSUME asRequest.status = "ok"
        PROVE  \E raw \in Link!ArgForms(asRequest.args) :
                 Link!EncodeRequest(asRequest.method, raw) = bytes
    <3>1. PICK m \in 0..Limit(W64) - 1, args \in Seq(Wire), raws \in Seq(Written) :
            /\ asRequest = [status |-> "ok", method |-> m, args |-> args]
            /\ Len(raws) = Len(args) /\ \A i \in 1..Len(args) : raws[i] \in Forms(args[i])
            /\ EncodeRequest(m, raws) = bs
      BY <1>3, <2>1, RequestRead
    <3>2. asRequest.method = m /\ asRequest.args = args
      BY <3>1
    <3>3. DOMAIN args = 1..Len(args) /\ DOMAIN raws = 1..Len(args) /\ raws = [i \in DOMAIN raws |-> raws[i]]
      BY <3>1, LenProperties
    <3>4. raws \in Link!ArgForms(args)
      BY <3>1, <3>3, SameCodec DEF Link!ArgForms
    <3>5. QED
      BY <1>1, <3>1, <3>2, <3>4, SameCodec
  <2>2. ASSUME asResponse.status = "ok"
        PROVE  \E raw \in Link!Forms(asResponse.result) : Link!EncodeResponse(raw) = bytes
    <3>1. asResponse # Malformed
      BY <2>2, MalformedStatus
    <3>2. PICK v \in Wire :
            /\ asResponse = [status |-> "ok", result |-> v]
            /\ \E raw \in Forms(v) : EncodeResponse(raw) = bs
      BY <1>3, <2>2, <3>1, ResponseRead, MalformedStatus
    <3>3. asResponse.result = v
      BY <3>2
    <3>4. QED
      BY <1>1, <3>2, <3>3, SameCodec
  <2>3. ASSUME asResponse.status = "remote_error"
        PROVE  Link!EncodeError(asResponse.error) = bytes
    <3>1. asResponse # Malformed
      BY <2>3, MalformedStatus
    <3>2. PICK t \in Seq(Byte) :
            asResponse = [status |-> "remote_error", error |-> t] /\ EncodeError(t) = bs
      BY <1>3, <2>3, <3>1, ResponseRead, MalformedStatus
    <3>3. asResponse.error = t
      BY <3>2
    <3>4. QED
      BY <1>1, <3>2, <3>3, SameCodec
  <2>4. QED
    BY <2>1, <2>2, <2>3 DEF DecodingInverts, Link!DecodingInverts
<1>4. QED
  BY <1>1, <1>2, <1>3 DEF LinkInv

\* What arrives of a frame that no byte was changed in.
LEMMA LinkArrives == ASSUME LinkInv PROVE IntactArrives
<1>1. SUFFICES ASSUME ~Link!InTransit, flips = 0
               PROVE  IF cut \/ extra > 0
                      THEN asRequest.status = "malformed" /\ asResponse = Malformed
                      ELSE IF sent.type = "request"
                      THEN /\ asRequest.status = "ok"
                           /\ asRequest.method = sent.method /\ asRequest.args = sent.args
                           /\ asResponse = Malformed
                      ELSE /\ asRequest.status = "malformed"
                           /\ IF sent.type = "response"
                              THEN asResponse = [status |-> "ok", result |-> sent.result]
                              ELSE asResponse = [status |-> "remote_error", error |-> sent.message]
  BY SameCodec DEF IntactArrives, Link!IntactArrives
<1>2. PICK e \in Seq(Byte) : e = Link!Encoded(sent) /\ Decodes(sent, e)
  BY MessageDecodes DEF LinkInv
<1>3. PICK bs \in Seq(Byte) : bs = bytes
  BY DEF LinkInv
<1>4. /\ asRequest = TryDecodeRequest(bs) /\ asResponse = TryDecodeResponse(bs)
      /\ Changed(bs, e) /\ extra \in Nat
  BY <1>1, <1>2, <1>3 DEF LinkInv, Link!InTransit
<1>5. \A m, args : LET r == [status |-> "ok", method |-> m, args |-> args] IN
                     r.status = "ok" /\ r.method = m /\ r.args = args
  OBVIOUS
<1>6. CASE cut
  <2>1. Begins(bs, e) /\ Len(bs) # Len(e)
    BY <1>4, <1>6 DEF Changed
  <2>2. ASSUME TryDecodeRequest(bs).status = "ok" PROVE FALSE
    <3>1. Magic(bs).ok /\ Magic(bs).value = RequestMagic
      BY <2>2, RequestRead
    <3>2. Magic(e).value = RequestMagic
      BY <2>1, <3>1, MagicBegins
    <3>3. sent.type = "request" /\ TryDecodeRequest(e) # Malformed
      BY <1>2, <1>5, <3>2, MagicTypes, MalformedStatus DEF Decodes
    <3>4. QED
      BY <2>1, <2>2, <3>3, RequestBegins
  <2>3. ASSUME TryDecodeResponse(bs) # Malformed PROVE FALSE
    <3>1. Magic(bs).ok /\ Magic(bs).value = ResponseMagic
      BY <2>3, ResponseRead
    <3>2. Magic(e).value = ResponseMagic
      BY <2>1, <3>1, MagicBegins
    <3>3. TryDecodeResponse(e) # Malformed
      BY <1>2, <3>2, MagicTypes, MalformedStatus DEF Decodes
    <3>4. QED
      BY <2>1, <2>3, <3>3, ResponseBegins
  <2>4. QED
    BY <1>4, <1>6, <2>2, <2>3, NotCrossed, MalformedStatus
<1>7. CASE extra > 0
  <2>1. Begins(e, bs) /\ Len(e) # Len(bs)
    BY <1>4, <1>7 DEF Changed
  <2>2. Magic(bs) = Magic(e)
    BY <1>2, <2>1, MagicBegins DEF Decodes
  <2>3. TryDecodeRequest(bs) = Malformed
    <3>1. CASE sent.type = "request"
      <4>1. TryDecodeRequest(e).status = "ok"
        BY <1>2, <1>5, <3>1 DEF Decodes
      <4>2. QED
        BY <2>1, <4>1, RequestBegins
    <3>2. CASE sent.type # "request"
      BY <1>2, <2>2, <3>2, NotCrossed DEF Decodes
    <3>3. QED
      BY <3>1, <3>2
  <2>4. TryDecodeResponse(bs) = Malformed
    <3>1. CASE sent.type = "request"
      BY <1>2, <2>2, <3>1, NotCrossed DEF Decodes
    <3>2. CASE sent.type # "request"
      <4>1. TryDecodeResponse(e) # Malformed
        BY <1>2, <3>2, MalformedStatus DEF Decodes
      <4>2. QED
        BY <2>1, <4>1, ResponseBegins
    <3>3. QED
      BY <3>1, <3>2
  <2>5. QED
    BY <1>4, <1>7, <2>3, <2>4, MalformedStatus
<1>8. CASE ~cut /\ ~(extra > 0)
  <2>1. bs = e
    BY <1>4, <1>8 DEF Changed
  <2>2. CASE sent.type = "request"
    <3>1. TryDecodeResponse(bs) = Malformed
      BY <1>2, <2>1, <2>2, NotCrossed DEF Decodes
    <3>2. asRequest.status = "ok" /\ asRequest.method = sent.method /\ asRequest.args = sent.args
      BY <1>2, <1>4, <1>5, <2>1, <2>2 DEF Decodes
    <3>3. QED
      BY <1>4, <1>8, <2>2, <3>1, <3>2
  <2>3. CASE sent.type # "request"
    <3>1. TryDecodeRequest(bs) = Malformed
      BY <1>2, <2>1, <2>3, NotCrossed DEF Decodes
    <3>2. IF sent.type = "response"
          THEN asResponse = [status |-> "ok", result |-> sent.result]
          ELSE asResponse = [status |-> "remote_error", error |-> sent.message]
      BY <1>2, <1>4, <2>1, <2>3 DEF Decodes
    <3>3. QED
      BY <1>4, <1>8, <2>3, <3>1, <3>2, MalformedStatus
  <2>4. QED
    BY <2>2, <2>3
<1>9. QED
  BY <1>6, <1>7, <1>8

\* The invariant of the link.
LEMMA LinkInvariant == Link!Spec => []LinkInv
<1>1. Link!Init => LinkInv
  BY LinkInit
<1>2. LinkInv /\ [Link!Next]_linkVars => LinkInv'
  BY LinkNext
<1>3. LinkInv /\ [Link!Next]_(Link!vars) => LinkInv'
  BY <1>2 DEF linkVars, Link!vars
<1>4. QED
  BY <1>1, <1>3, PTL DEF Link!Spec

\* rpc.h: whatever reaches a decoder, cut, extended or with bytes changed, what it
\* accepts encodes to exactly the bytes that arrived, a true Boolean in the form it
\* arrived in.
THEOREM DecodersInvert == Link!Spec => []DecodingInverts
<1>1. LinkInv => DecodingInverts
  BY LinkInverts
<1>2. QED
  BY <1>1, LinkInvariant, PTL

\* rpc.h: a frame is decoded to the message that was encoded, by the decoder of its
\* type only; a part of a frame, or a frame with bytes behind it, is malformed.
THEOREM FramesArrive == Link!Spec => []IntactArrives
<1>1. LinkInv => IntactArrives
  BY LinkArrives
<1>2. QED
  BY <1>1, LinkInvariant, PTL

-----------------------------------------------------------------------------
(* The routes.                                                              *)

Routes ==
  [id : 0..Limit(W64) - 1, name : Names \cup {Null}, state : Binders \cup {Null}]

\* A memory of the slots 0..n.
IsMemory(m, n) ==
  /\ m = [at |-> m.at, deleted |-> m.deleted]
  /\ m.at \in [0..n -> Routes] /\ m.deleted \in [Binders -> Nat]

\* A route that was moved from keeps its id and its name.
LEMMA EmptiedType ==
  ASSUME NEW r \in Routes
  PROVE  /\ Emptied(r) \in Routes /\ Emptied(r).state = Null
         /\ Emptied(r).id = r.id /\ Emptied(r).name = r.name
         /\ r.state = Null => Emptied(r) = r
  BY DEF Routes, Emptied

\* A memory from its parts.
LEMMA MemoryOf ==
  ASSUME NEW n, NEW at \in [0..n -> Routes], NEW del \in [Binders -> Nat]
  PROVE  /\ IsMemory([at |-> at, deleted |-> del], n)
         /\ [at |-> at, deleted |-> del].at = at /\ [at |-> at, deleted |-> del].deleted = del
  BY DEF IsMemory

\* The number of routes.
LEMMA SizeOf ==
  ASSUME NEW n \in Nat, NEW X, NEW at \in [0..n -> X]
  PROVE  Size(at) = n
<1>1. DOMAIN at = 0..n
  OBVIOUS
<1>2. Cardinality(0..n) = n - 0 + 1
  BY FS_Interval
<1>3. QED
  BY <1>1, <1>2 DEF Size

\* What reset() does to every slot and every count of deletions.
LEMMA ResetForm ==
  ASSUME NEW n \in Nat, NEW m, IsMemory(m, n), NEW i \in 0..n
  PROVE  /\ IsMemory(Reset(m, i), n)
         /\ \A j \in 0..n : Reset(m, i).at[j] = IF j = i THEN Emptied(m.at[i]) ELSE m.at[j]
         /\ \A x \in Binders :
              Reset(m, i).deleted[x] = IF x = m.at[i].state THEN m.deleted[x] + 1 ELSE m.deleted[x]
         /\ m.at[i].state = Null => Reset(m, i) = m
<1>1. PICK at \in [0..n -> Routes], del \in [Binders -> Nat] :
        m = [at |-> at, deleted |-> del] /\ at = m.at /\ del = m.deleted
  BY DEF IsMemory
<1>2. at[i] \in Routes /\ at[i].state \in Binders \cup {Null}
  BY <1>1 DEF Routes
<1>3. PICK u : u = [j \in 0..n |-> IF j = i THEN Emptied(at[i]) ELSE at[j]]
  OBVIOUS
<1>4. PICK v : v = [x \in Binders |-> IF x = at[i].state THEN del[x] + 1 ELSE del[x]]
  OBVIOUS
<1>5. Reset(m, i) = [at |-> u, deleted |-> v]
  <2>1. CASE at[i].state = Null
    <3>1. Reset(m, i) = m
      BY <1>1, <2>1 DEF Reset
    <3>2. Emptied(at[i]) = at[i]
      BY <1>2, <2>1, EmptiedType
    <3>3. u = at
      BY <1>3, <3>2
    <3>4. v = del
      BY <1>4, <2>1, RouterAssumption
    <3>5. QED
      BY <1>1, <3>1, <3>3, <3>4
  <2>2. CASE at[i].state # Null
    <3>1. u = [at EXCEPT ![i] = Emptied(at[i])]
      BY <1>3
    <3>2. v = [del EXCEPT ![at[i].state] = del[at[i].state] + 1]
      BY <1>2, <1>4, <2>2
    <3>3. QED
      BY <1>1, <1>2, <2>2, <3>1, <3>2 DEF Reset, Emptied
  <2>3. QED
    BY <2>1, <2>2
<1>6. u \in [0..n -> Routes]
  BY <1>3, EmptiedType
<1>7. v \in [Binders -> Nat]
  BY <1>4
<1>8. IsMemory(Reset(m, i), n) /\ Reset(m, i).at = u /\ Reset(m, i).deleted = v
  BY ONLY <1>5, <1>6, <1>7, MemoryOf
<1>9. m.at = at /\ m.deleted = del
  BY <1>1
<1>10. m.at[i].state = Null => Reset(m, i) = m
  BY DEF Reset
<1>11. QED
  BY ONLY <1>3, <1>4, <1>8, <1>9, <1>10

\* What a move construction behind the end does to every slot.
LEMMA MoveConstructForm ==
  ASSUME NEW n \in Nat, NEW m, IsMemory(m, n), NEW i \in 0..n
  PROVE  /\ IsMemory(MoveConstruct(m, n + 1, i), n + 1)
         /\ \A j \in 0..n + 1 :
              MoveConstruct(m, n + 1, i).at[j] =
                IF j = n + 1 THEN m.at[i] ELSE IF j = i THEN Emptied(m.at[i]) ELSE m.at[j]
         /\ MoveConstruct(m, n + 1, i).deleted = m.deleted
<1>1. PICK at \in [0..n -> Routes], del \in [Binders -> Nat] :
        m = [at |-> at, deleted |-> del] /\ at = m.at /\ del = m.deleted
  BY DEF IsMemory
<1>2. PICK k \in Nat : k = n + 1 /\ k \notin 0..n
  OBVIOUS
<1>3. {k} \cup (0..n) = 0..k /\ DOMAIN at = 0..n
  BY <1>2
<1>4. PICK u : u = [j \in 0..k |-> IF j = k THEN at[i] ELSE IF j = i THEN Emptied(at[i]) ELSE at[j]]
  OBVIOUS
<1>5. MoveConstruct(m, k, i) = [at |-> u, deleted |-> del]
  <2>1. {k} \cup DOMAIN m.at = 0..k
    BY <1>1, <1>3
  <2>2. MoveConstruct(m, k, i) =
          [m EXCEPT !.at = [j \in 0..k |-> IF j = k THEN m.at[i]
                                           ELSE IF j = i THEN Emptied(m.at[i]) ELSE m.at[j]]]
    BY <2>1 DEF MoveConstruct
  <2>3. MoveConstruct(m, k, i) = [m EXCEPT !.at = u]
    BY <1>1, <1>4, <2>2
  <2>4. QED
    BY <1>1, <2>3
<1>6. u \in [0..k -> Routes]
  <2>1. at[i] \in Routes /\ Emptied(at[i]) \in Routes
    BY EmptiedType
  <2>2. \A j \in 0..k : j # k => j \in 0..n
    BY <1>2
  <2>3. QED
    BY <1>4, <2>1, <2>2
<1>7. /\ IsMemory(MoveConstruct(m, k, i), k) /\ MoveConstruct(m, k, i).at = u
      /\ MoveConstruct(m, k, i).deleted = del
  BY ONLY <1>5, <1>6, del \in [Binders -> Nat], MemoryOf
<1>8. m.at = at /\ m.deleted = del
  BY <1>1
<1>9. QED
  BY ONLY <1>2, <1>4, <1>7, <1>8

\* What a move assignment does to every slot.
LEMMA MoveAssignForm ==
  ASSUME NEW n \in Nat, NEW m, IsMemory(m, n), NEW to \in 0..n, NEW from \in 0..n, to # from
  PROVE  /\ IsMemory(MoveAssign(m, to, from), n)
         /\ \A j \in 0..n :
              MoveAssign(m, to, from).at[j] =
                IF j = to THEN m.at[from] ELSE IF j = from THEN Emptied(m.at[from]) ELSE m.at[j]
         /\ MoveAssign(m, to, from).deleted = Reset(m, to).deleted
<1>1. PICK at \in [0..n -> Routes] : at = m.at
  BY DEF IsMemory
<1>2. PICK x : x = Reset(m, to)
  OBVIOUS
<1>3. IsMemory(x, n) /\ \A j \in 0..n : x.at[j] = IF j = to THEN Emptied(at[to]) ELSE at[j]
  <2>1. IsMemory(x, n)
    BY ONLY <1>2, n \in Nat, IsMemory(m, n), to \in 0..n, ResetForm
  <2>2. \A j \in 0..n : x.at[j] = IF j = to THEN Emptied(m.at[to]) ELSE m.at[j]
    BY ONLY <1>2, n \in Nat, IsMemory(m, n), to \in 0..n, ResetForm
  <2>3. QED
    BY <1>1, <2>1, <2>2
<1>4. PICK xt \in [0..n -> Routes], del \in [Binders -> Nat] :
        x = [at |-> xt, deleted |-> del] /\ xt = x.at /\ del = x.deleted
  BY <1>3 DEF IsMemory
<1>5. PICK t : t = [xt EXCEPT ![to] = at[from]]
  OBVIOUS
<1>6. PICK u : u = [t EXCEPT ![from].state = Null]
  OBVIOUS
<1>7. MoveAssign(m, to, from) = [at |-> u, deleted |-> del]
  <2>1. MoveAssign(m, to, from) = [x EXCEPT !.at[to] = at[from], !.at[from].state = Null]
    BY <1>1, <1>2 DEF MoveAssign
  <2>2. QED
    BY <1>4, <1>5, <1>6, <2>1
<1>8. t \in [0..n -> Routes] /\ t[to] = at[from] /\ t[from] = at[from]
          /\ \A j \in 0..n : j # to => t[j] = at[j]
  BY <1>3, <1>4, <1>5
<1>9. u = [t EXCEPT ![from] = Emptied(t[from])]
  BY <1>6, <1>8 DEF Emptied
<1>10. u = [j \in 0..n |-> IF j = to THEN at[from] ELSE IF j = from THEN Emptied(at[from]) ELSE at[j]]
  BY <1>8, <1>9
<1>11. u \in [0..n -> Routes]
  BY <1>8, <1>9, EmptiedType
<1>12. /\ IsMemory(MoveAssign(m, to, from), n) /\ MoveAssign(m, to, from).at = u
       /\ MoveAssign(m, to, from).deleted = del
  BY ONLY <1>7, <1>11, del \in [Binders -> Nat], MemoryOf
<1>13. m.at = at /\ Reset(m, to).deleted = del
  BY <1>1, <1>2, <1>4
<1>14. QED
  BY ONLY <1>10, <1>12, <1>13

\* Memories with the same slots and counts are equal.
LEMMA MemoryEqual ==
  ASSUME NEW n, NEW m, NEW q, IsMemory(m, n), IsMemory(q, n),
         \A j \in 0..n : m.at[j] = q.at[j], \A x \in Binders : m.deleted[x] = q.deleted[x]
  PROVE  m = q
<1>1. m.at = q.at
  <2>1. PICK u \in [0..n -> Routes], v \in [0..n -> Routes] : u = m.at /\ v = q.at
    BY DEF IsMemory
  <2>2. \A j \in 0..n : u[j] = v[j]
    BY <2>1
  <2>3. u = v
    <3>1. u = [j \in 0..n |-> u[j]] /\ v = [j \in 0..n |-> v[j]]
      OBVIOUS
    <3>2. [j \in 0..n |-> u[j]] = [j \in 0..n |-> v[j]]
      BY ONLY <2>2
    <3>3. QED
      BY ONLY <3>1, <3>2
  <2>4. QED
    BY <2>1, <2>3
<1>2. m.deleted = q.deleted
  <2>1. m.deleted \in [Binders -> Nat] /\ q.deleted \in [Binders -> Nat]
    BY DEF IsMemory
  <2>2. QED
    BY <2>1
<1>3. QED
  BY <1>1, <1>2 DEF IsMemory

\* The slots while a hole is moved down from the end: the hole is at i.
Hole(at, i, n) ==
  [j \in 0..n + 1 |-> IF j < i THEN at[j] ELSE IF j = i THEN Emptied(at[i]) ELSE at[j - 1]]
WithHole(m, i, n) == [at |-> Hole(m.at, i, n), deleted |-> m.deleted]

\* A memory with a hole is a memory.
LEMMA HoleType ==
  ASSUME NEW n \in Nat, NEW m, IsMemory(m, n), NEW i \in 1..n
  PROVE  /\ IsMemory(WithHole(m, i, n), n + 1)
         /\ WithHole(m, i, n).deleted = m.deleted
         /\ \A j \in 0..n + 1 :
              WithHole(m, i, n).at[j] =
                IF j < i THEN m.at[j] ELSE IF j = i THEN Emptied(m.at[i]) ELSE m.at[j - 1]
<1>1. PICK at \in [0..n -> Routes], del \in [Binders -> Nat] : at = m.at /\ del = m.deleted
  BY DEF IsMemory
<1>2. PICK u : u = Hole(at, i, n)
  OBVIOUS
<1>3. \A j \in 0..n + 1 :
        u[j] = IF j < i THEN at[j] ELSE IF j = i THEN Emptied(at[i]) ELSE at[j - 1]
  BY <1>2 DEF Hole
<1>4. u \in [0..n + 1 -> Routes]
  <2>1. i \in 0..n /\ Emptied(at[i]) \in Routes
    BY EmptiedType
  <2>2. ASSUME NEW j \in 0..n + 1 PROVE u[j] \in Routes
    <3>1. CASE j < i
      <4>1. j \in 0..n
        BY <3>1
      <4>2. QED
        BY <1>3, <3>1, <4>1
    <3>2. CASE j = i
      BY <1>3, <2>1, <3>2
    <3>3. CASE ~(j < i) /\ j # i
      <4>1. j - 1 \in 0..n
        BY <3>3
      <4>2. u[j] = at[j - 1]
        BY <1>3, <3>3
      <4>3. QED
        BY <4>1, <4>2
    <3>4. QED
      BY <3>1, <3>2, <3>3
  <2>3. DOMAIN u = 0..n + 1 /\ u = [j \in 0..n + 1 |-> u[j]]
    BY <1>2 DEF Hole
  <2>4. QED
    BY <2>2, <2>3
<1>5. WithHole(m, i, n) = [at |-> u, deleted |-> del]
  BY <1>1, <1>2 DEF WithHole
<1>6. IsMemory(WithHole(m, i, n), n + 1) /\ WithHole(m, i, n).at = u /\ WithHole(m, i, n).deleted = del
  BY <1>4, <1>5, MemoryOf
<1>7. QED
  BY <1>1, <1>3, <1>6

\* The first move of an insertion, of the last route behind the end, opens the hole.
LEMMA HoleFirst ==
  ASSUME NEW n \in Nat \ {0}, NEW m, IsMemory(m, n)
  PROVE  WithHole(m, n, n) = MoveConstruct(m, n + 1, n)
<1>1. PICK x, y, k : x = WithHole(m, n, n) /\ y = MoveConstruct(m, n + 1, n) /\ k = n + 1
  OBVIOUS
<1>2. n \in 1..n /\ n \in 0..n /\ n \in Nat
  OBVIOUS
<1>3. IsMemory(x, k) /\ x.deleted = m.deleted
      /\ \A j \in 0..k :
           x.at[j] = IF j < n THEN m.at[j] ELSE IF j = n THEN Emptied(m.at[n]) ELSE m.at[j - 1]
  <2>1. IsMemory(x, n + 1)
    BY ONLY <1>1, <1>2, n \in Nat, IsMemory(m, n), HoleType
  <2>2. x.deleted = m.deleted
    BY ONLY <1>1, <1>2, n \in Nat, IsMemory(m, n), HoleType
  <2>3. \A j \in 0..n + 1 :
          x.at[j] = IF j < n THEN m.at[j] ELSE IF j = n THEN Emptied(m.at[n]) ELSE m.at[j - 1]
    BY ONLY <1>1, <1>2, n \in Nat, IsMemory(m, n), HoleType
  <2>4. QED
    BY ONLY <1>1, <2>1, <2>2, <2>3
<1>4. IsMemory(y, k) /\ y.deleted = m.deleted
      /\ \A j \in 0..k :
           y.at[j] = IF j = k THEN m.at[n] ELSE IF j = n THEN Emptied(m.at[n]) ELSE m.at[j]
  <2>1. IsMemory(y, n + 1)
    BY ONLY <1>1, <1>2, IsMemory(m, n), MoveConstructForm
  <2>2. y.deleted = m.deleted
    BY ONLY <1>1, <1>2, IsMemory(m, n), MoveConstructForm
  <2>3. \A j \in 0..n + 1 :
          y.at[j] = IF j = n + 1 THEN m.at[n] ELSE IF j = n THEN Emptied(m.at[n]) ELSE m.at[j]
    BY ONLY <1>1, <1>2, IsMemory(m, n), MoveConstructForm
  <2>4. QED
    BY ONLY <1>1, <2>1, <2>2, <2>3
<1>5. ASSUME NEW j \in 0..k PROVE x.at[j] = y.at[j]
  <2>1. j = k => j - 1 = n /\ ~(j < n) /\ j # n
    BY <1>1
  <2>2. j # k => j < n \/ j = n
    BY <1>1
  <2>3. j < n => j # k /\ j # n
    BY <1>1
  <2>4. QED
    BY <1>3, <1>4, <2>1, <2>2, <2>3
<1>6. x = y
  BY <1>3, <1>4, <1>5, MemoryEqual
<1>7. QED
  BY <1>1, <1>6

\* Each further move takes the hole one slot down.
LEMMA HoleMoves ==
  ASSUME NEW n \in Nat, NEW m, IsMemory(m, n), NEW i \in 1..n - 1
  PROVE  WithHole(m, i, n) = MoveAssign(WithHole(m, i + 1, n), i + 1, i)
<1>1. PICK k, l : k = n + 1 /\ l = i + 1
  OBVIOUS
<1>2. k \in Nat /\ l \in 1..n /\ i \in 1..n /\ i \in 0..k /\ l \in 0..k /\ l # i
  BY <1>1
<1>3. PICK x, w, y : x = WithHole(m, i, n) /\ w = WithHole(m, l, n) /\ y = MoveAssign(w, l, i)
  OBVIOUS
<1>4. IsMemory(x, k) /\ x.deleted = m.deleted
      /\ \A j \in 0..k :
           x.at[j] = IF j < i THEN m.at[j] ELSE IF j = i THEN Emptied(m.at[i]) ELSE m.at[j - 1]
  <2>1. IsMemory(x, n + 1)
    BY ONLY <1>2, <1>3, n \in Nat, IsMemory(m, n), HoleType
  <2>2. x.deleted = m.deleted
    BY ONLY <1>2, <1>3, n \in Nat, IsMemory(m, n), HoleType
  <2>3. \A j \in 0..n + 1 :
          x.at[j] = IF j < i THEN m.at[j] ELSE IF j = i THEN Emptied(m.at[i]) ELSE m.at[j - 1]
    BY ONLY <1>2, <1>3, n \in Nat, IsMemory(m, n), HoleType
  <2>4. QED
    BY ONLY <1>1, <2>1, <2>2, <2>3
<1>5. IsMemory(w, k) /\ w.deleted = m.deleted
      /\ \A j \in 0..k :
           w.at[j] = IF j < l THEN m.at[j] ELSE IF j = l THEN Emptied(m.at[l]) ELSE m.at[j - 1]
  <2>1. IsMemory(w, n + 1)
    BY ONLY <1>2, <1>3, n \in Nat, IsMemory(m, n), HoleType
  <2>2. w.deleted = m.deleted
    BY ONLY <1>2, <1>3, n \in Nat, IsMemory(m, n), HoleType
  <2>3. \A j \in 0..n + 1 :
          w.at[j] = IF j < l THEN m.at[j] ELSE IF j = l THEN Emptied(m.at[l]) ELSE m.at[j - 1]
    BY ONLY <1>2, <1>3, n \in Nat, IsMemory(m, n), HoleType
  <2>4. QED
    BY ONLY <1>1, <2>1, <2>2, <2>3
<1>6. IsMemory(w, k)
  BY <1>5
<1>7. IsMemory(y, k) /\ y.deleted = Reset(w, l).deleted
      /\ \A j \in 0..k : y.at[j] = IF j = l THEN w.at[i] ELSE IF j = i THEN Emptied(w.at[i]) ELSE w.at[j]
  <2>1. IsMemory(y, k)
    BY ONLY <1>2, <1>3, <1>6, MoveAssignForm
  <2>2. y.deleted = Reset(w, l).deleted
    BY ONLY <1>2, <1>3, <1>6, MoveAssignForm
  <2>3. \A j \in 0..k :
          MoveAssign(w, l, i).at[j] = IF j = l THEN w.at[i] ELSE IF j = i THEN Emptied(w.at[i]) ELSE w.at[j]
    BY ONLY <1>2, <1>6, MoveAssignForm
  <2>4. QED
    BY ONLY <1>3, <2>1, <2>2, <2>3
<1>8. w.at[l].state = Null /\ w.at[i] = m.at[i]
  <2>1. ~(l < l) /\ i < l
    BY <1>1, <1>2
  <2>2. w.at[l] = Emptied(m.at[l]) /\ w.at[i] = m.at[i]
    BY <1>2, <1>5, <2>1
  <2>3. m.at[l] \in Routes
    <3>1. m.at \in [0..n -> Routes] /\ l \in 0..n
      BY <1>2 DEF IsMemory
    <3>2. QED
      BY <3>1
  <2>4. QED
    BY <2>2, <2>3, EmptiedType
<1>9. y.deleted = m.deleted
  BY <1>2, <1>5, <1>7, <1>8, ResetForm
<1>10. ASSUME NEW j \in 0..k PROVE x.at[j] = y.at[j]
  <2>1. CASE j < i
    <3>1. j # l /\ j # i /\ j < l
      BY <1>1, <2>1
    <3>2. QED
      BY <1>4, <1>5, <1>7, <2>1, <3>1
  <2>2. CASE j = i
    BY <1>2, <1>4, <1>7, <1>8, <2>2
  <2>3. CASE j = l
    <3>1. j - 1 = i /\ ~(j < i) /\ j # i
      BY <1>1, <2>3
    <3>2. QED
      BY <1>2, <1>4, <1>7, <1>8, <2>3, <3>1
  <2>4. CASE ~(j < i) /\ j # i /\ j # l
    <3>1. ~(j < l)
      BY <1>1, <2>4
    <3>2. QED
      BY <1>4, <1>5, <1>7, <2>4, <3>1
  <2>5. QED
    BY <2>1, <2>2, <2>3, <2>4
<1>11. x = y
  BY <1>4, <1>7, <1>9, <1>10, MemoryEqual
<1>12. QED
  BY <1>1, <1>3, <1>11

\* Insert puts the temporary in its place and moves the routes behind it up; nothing
\* is deleted.
LEMMA InsertForm ==
  ASSUME NEW n \in Nat, NEW m, IsMemory(m, n), NEW place \in 1..n + 1
  PROVE  /\ IsMemory(Insert(m, place), n + 1)
         /\ Insert(m, place).deleted = m.deleted
         /\ \A j \in 0..n + 1 :
              Insert(m, place).at[j] =
                IF j = 0 THEN Emptied(m.at[0]) ELSE IF j < place THEN m.at[j]
                ELSE IF j = place THEN m.at[0] ELSE m.at[j - 1]
<1>1. Size(m.at) = n
  BY SizeOf DEF IsMemory
<1>2. PICK k \in Nat : k = n + 1
  OBVIOUS
<1>3. CASE place = k
  <2>1. PICK y : y = MoveConstruct(m, n + 1, 0)
    OBVIOUS
  <2>2. Insert(m, place) = y
    BY <1>1, <1>2, <1>3, <2>1 DEF Insert
  <2>3. 0 \in 0..n
    OBVIOUS
  <2>4. /\ IsMemory(y, k) /\ y.deleted = m.deleted
        /\ \A j \in 0..k : y.at[j] = IF j = k THEN m.at[0] ELSE IF j = 0 THEN Emptied(m.at[0]) ELSE m.at[j]
    BY <1>2, <2>1, <2>3, MoveConstructForm
  <2>5. ASSUME NEW j \in 0..k
        PROVE  y.at[j] = IF j = 0 THEN Emptied(m.at[0]) ELSE IF j < place THEN m.at[j]
                         ELSE IF j = place THEN m.at[0] ELSE m.at[j - 1]
    <3>1. k # 0 /\ (j # k <=> j < k)
      BY <1>2
    <3>2. QED
      BY <1>3, <2>4, <3>1
  <2>6. QED
    BY <1>2, <2>2, <2>4, <2>5
<1>4. CASE place # k
  <2>1. place \in 1..n /\ n \in Nat \ {0}
    BY <1>2, <1>4
  <2>2. PICK c0 : c0 = MoveConstruct(m, n + 1, n)
    OBVIOUS
  <2> DEFINE chosen == CHOOSE fn : fn = [i \in place..n |-> IF i = n THEN c0
                                                           ELSE MoveAssign(fn[i + 1], i + 1, i)]
  <2>3. Insert(m, place) = MoveAssign(chosen[place], place, 0)
    BY <1>1, <1>2, <1>4, <2>2 DEF Insert
  <2>4. PICK w : w = [i \in place..n |-> WithHole(m, i, n)]
    OBVIOUS
  <2>5. w = [i \in place..n |-> IF i = n THEN c0 ELSE MoveAssign(w[i + 1], i + 1, i)]
    <3>1. ASSUME NEW i \in place..n
          PROVE  WithHole(m, i, n) = IF i = n THEN c0 ELSE MoveAssign(w[i + 1], i + 1, i)
      <4>1. CASE i = n
        BY <2>1, <2>2, <4>1, HoleFirst
      <4>2. CASE i # n
        <5>1. i \in 1..n - 1 /\ i + 1 \in place..n
          BY <2>1, <4>2
        <5>2. w[i + 1] = WithHole(m, i + 1, n)
          BY <2>4, <5>1
        <5>3. WithHole(m, i, n) = MoveAssign(WithHole(m, i + 1, n), i + 1, i)
          BY <5>1, HoleMoves
        <5>4. QED
          BY <4>2, <5>2, <5>3
      <4>3. QED
        BY <4>1, <4>2
    <3>2. QED
      BY ONLY <2>4, <3>1
  <2>6. chosen = [i \in place..n |-> IF i = n THEN c0 ELSE MoveAssign(chosen[i + 1], i + 1, i)]
    BY <2>5
  <2> HIDE DEF chosen
  <2>7. PICK l \in Nat : l = n - place
    BY <2>1
  <2> DEFINE T == {q \in 0..l : chosen[n - q] = w[n - q]}
  <2>8. 0 \in T
    <3>1. n - 0 = n /\ n \in place..n
      BY <2>1
    <3>2. chosen[n] = c0 /\ w[n] = c0
      BY <2>5, <2>6, <3>1
    <3>3. QED
      BY <2>7, <3>1, <3>2
  <2>9. ASSUME NEW q \in 0..l - 1, q \in T PROVE q + 1 \in T
    <3>1. PICK i \in place..n : i = n - (q + 1)
      BY <2>1, <2>7
    <3>2. i # n /\ i + 1 = n - q /\ q + 1 \in 0..l
      BY <2>1, <2>7, <3>1
    <3>3. chosen[i] = MoveAssign(chosen[i + 1], i + 1, i) /\ w[i] = MoveAssign(w[i + 1], i + 1, i)
      BY <2>5, <2>6, <3>2
    <3>4. chosen[i + 1] = w[i + 1]
      BY <2>9, <3>2
    <3>5. QED
      BY <3>1, <3>2, <3>3, <3>4
  <2>10. \A q \in 0..l : q \in T
    <3> HIDE DEF T
    <3> QED
      BY <2>8, <2>9, Induction
  <2>11. chosen[place] = WithHole(m, place, n)
    <3>1. n - l = place /\ l \in 0..l /\ place \in place..n
      BY <2>1, <2>7
    <3>2. QED
      BY <2>4, <2>10, <3>1
  <2>12. PICK x, y : x = WithHole(m, place, n) /\ y = MoveAssign(x, place, 0)
    OBVIOUS
  <2>13. Insert(m, place) = y
    BY <2>3, <2>11, <2>12
  <2>14. /\ IsMemory(x, k) /\ x.deleted = m.deleted
         /\ \A j \in 0..k : x.at[j] = IF j < place THEN m.at[j] ELSE IF j = place THEN Emptied(m.at[place])
                                      ELSE m.at[j - 1]
    BY <1>2, <2>1, <2>12, HoleType
  <2>15. IsMemory(x, k) /\ place \in 0..k /\ 0 \in 0..k /\ place # 0 /\ 0 < place /\ ~(place < place)
    BY <1>2, <2>14
  <2>16. /\ IsMemory(y, k) /\ y.deleted = Reset(x, place).deleted
         /\ \A j \in 0..k : y.at[j] = IF j = place THEN x.at[0] ELSE IF j = 0 THEN Emptied(x.at[0]) ELSE x.at[j]
    <3>1. IsMemory(MoveAssign(x, place, 0), k)
      BY ONLY <2>15, k \in Nat, MoveAssignForm
    <3>2. MoveAssign(x, place, 0).deleted = Reset(x, place).deleted
      BY ONLY <2>15, k \in Nat, MoveAssignForm
    <3>3. \A j \in 0..k : y.at[j] = IF j = place THEN x.at[0] ELSE IF j = 0 THEN Emptied(x.at[0]) ELSE x.at[j]
      BY ONLY <2>12, <2>15, k \in Nat, MoveAssignForm, SMTT(20)
    <3>4. QED
      BY <2>12, <3>1, <3>2, <3>3
  <2>17. x.at[0] = m.at[0] /\ x.at[place] = Emptied(m.at[place])
    BY <2>14, <2>15
  <2>18. x.at[place].state = Null
    <3>1. m.at \in [0..n -> Routes] /\ place \in 0..n
      BY <2>1 DEF IsMemory
    <3>2. m.at[place] \in Routes
      BY <3>1
    <3>3. QED
      BY <2>17, <3>2, EmptiedType
  <2>19. y.deleted = m.deleted
    <3>1. Reset(x, place) = x
      BY ONLY <2>15, <2>18, k \in Nat, ResetForm
    <3>2. QED
      BY <2>14, <2>16, <3>1
  <2>20. ASSUME NEW j \in 0..k
         PROVE  y.at[j] = IF j = 0 THEN Emptied(m.at[0]) ELSE IF j < place THEN m.at[j]
                          ELSE IF j = place THEN m.at[0] ELSE m.at[j - 1]
    BY <2>14, <2>15, <2>16, <2>17
  <2>21. QED
    BY <1>2, <2>13, <2>16, <2>19, <2>20
<1>5. QED
  BY <1>3, <1>4

\* The ids increase from slot 1 to slot n.
Sorted(at, n) == \A i, j \in 1..n : i < j => at[i].id < at[j].id

\* i bounds id from below in the slots first..end - 1.
Bound(at, id, first, end, i) ==
  /\ i \in first..end
  /\ \A j \in first..end - 1 : at[j].id < id <=> j < i

\* Ids are numbers.
LEMMA RouteIds ==
  ASSUME NEW n \in Nat, NEW at \in [0..n -> Routes], NEW i \in 0..n
  PROVE  at[i].id \in Nat
<1>1. Limit(W64) \in Nat
  BY LimitType, WidthType
<1>2. at[i].id \in 0..Limit(W64) - 1
  BY DEF Routes
<1>3. QED
  BY <1>1, <1>2

\* In a sorted table every range has one bound.
LEMMA BoundExists ==
  ASSUME NEW n \in Nat, NEW at \in [0..n -> Routes], Sorted(at, n), NEW id \in Nat,
         NEW first \in 1..n + 1, NEW end \in first..n + 1
  PROVE  \E i \in Nat : Bound(at, id, first, end, i)
<1> DEFINE T == {i \in first..end : i = end \/ ~(at[i].id < id)}
<1>1. T \subseteq Nat /\ end \in T
  OBVIOUS
<1>2. PICK i \in T : \A y \in T : i <= y
  BY <1>1, Least
<1>3. i \in first..end /\ i \in Nat
  OBVIOUS
<1>4. ASSUME NEW j \in first..end - 1 PROVE at[j].id < id <=> j < i
  <2>1. CASE j < i
    <3>1. j \in first..end /\ j # end /\ ~(i <= j)
      BY <1>3, <2>1
    <3>2. j \notin T
      BY <1>2, <3>1
    <3>3. QED
      BY <2>1, <3>1, <3>2
  <2>2. CASE ~(j < i)
    <3>1. i # end /\ j \in 1..n /\ i \in 1..n /\ j \in 0..n /\ i \in 0..n
      BY <1>3, <2>2
    <3>2. ~(at[i].id < id)
      BY <3>1
    <3>3. i = j \/ at[i].id < at[j].id
      <4>1. i = j \/ i < j
        BY <1>3, <2>2
      <4>2. QED
        BY <3>1, <4>1 DEF Sorted
    <3>4. at[i].id \in Nat /\ at[j].id \in Nat
      BY <3>1, RouteIds
    <3>5. QED
      BY <2>2, <3>2, <3>3, <3>4
  <2>3. QED
    BY <2>1, <2>2
<1>5. QED
  BY <1>3, <1>4 DEF Bound

\* There is only one bound.
LEMMA BoundUnique ==
  ASSUME NEW at, NEW id, NEW first \in Nat, NEW end \in Nat, NEW i, NEW k,
         Bound(at, id, first, end, i), Bound(at, id, first, end, k)
  PROVE  i = k
<1>1. i \in first..end /\ k \in first..end
  BY DEF Bound
<1>2. ASSUME i < k PROVE FALSE
  <2>1. i \in first..end - 1
    BY <1>1, <1>2
  <2>2. at[i].id < id <=> i < i
    BY <2>1 DEF Bound
  <2>3. at[i].id < id <=> i < k
    BY <2>1 DEF Bound
  <2>4. QED
    BY <1>1, <1>2, <2>2, <2>3
<1>3. ASSUME k < i PROVE FALSE
  <2>1. k \in first..end - 1
    BY <1>1, <1>3
  <2>2. at[k].id < id <=> k < i
    BY <2>1 DEF Bound
  <2>3. at[k].id < id <=> k < k
    BY <2>1 DEF Bound
  <2>4. QED
    BY <1>1, <1>3, <2>2, <2>3
<1>4. QED
  BY <1>1, <1>2, <1>3

\* One step of the search halves the range and keeps the bound.
LEMMA BoundHalves ==
  ASSUME NEW n \in Nat, NEW at \in [0..n -> Routes], Sorted(at, n), NEW id \in Nat,
         NEW first \in 1..n + 1, NEW count \in 1..n, first + count <= n + 1,
         NEW half \in Nat, half < count, NEW mid \in Nat, mid = first + half,
         NEW i, Bound(at, id, first, first + count, i)
  PROVE  /\ at[mid].id < id => Bound(at, id, mid + 1, first + count, i)
         /\ ~(at[mid].id < id) => Bound(at, id, first, first + half, i)
<1>1. PICK end \in Nat : end = first + count
  OBVIOUS
<1>2. /\ mid \in first..end - 1 /\ mid \in 1..n
  BY <1>1
<1>3. i \in first..end /\ (at[mid].id < id <=> mid < i)
  BY <1>1, <1>2 DEF Bound
<1>4. \A j \in first..end - 1 : at[j].id < id <=> j < i
  BY <1>1 DEF Bound
<1>5. ASSUME at[mid].id < id PROVE Bound(at, id, mid + 1, end, i)
  <2>1. i \in mid + 1..end
    BY <1>1, <1>2, <1>3, <1>5
  <2>2. \A j \in mid + 1..end - 1 : j \in first..end - 1
    BY <1>1, <1>2
  <2>3. QED
    BY <1>4, <2>1, <2>2 DEF Bound
<1>6. ASSUME ~(at[mid].id < id) PROVE Bound(at, id, first, mid, i)
  <2>1. i \in first..mid
    BY <1>1, <1>2, <1>3, <1>6
  <2>2. \A j \in first..mid - 1 : j \in first..end - 1
    BY <1>1, <1>2
  <2>3. QED
    BY <1>4, <2>1, <2>2 DEF Bound
<1>7. QED
  BY <1>1, <1>5, <1>6

\* Half of a range is a smaller one.
LEMMA Halving ==
  ASSUME NEW k \in Nat \ {0}
  PROVE  k \div 2 \in Nat /\ k \div 2 < k
  OBVIOUS

\* What lower_bound finds in a sorted table.
LEMMA LowerBoundForm ==
  ASSUME NEW n \in Nat, NEW at \in [0..n -> Routes], Sorted(at, n), NEW id \in Nat
  PROVE  Bound(at, id, 1, n + 1, LowerBound(at, id))
<1>1. Size(at) = n
  BY SizeOf
<1> DEFINE R == {q \in (1..n + 1) \X (0..n) : q[1] + q[2] <= n + 1}
<1> DEFINE next(fn, r) == IF r[2] = 0 THEN r[1]
                          ELSE IF at[r[1] + r[2] \div 2].id < id
                          THEN fn[<<r[1] + r[2] \div 2 + 1, r[2] - r[2] \div 2 - 1>>]
                          ELSE fn[<<r[1], r[2] \div 2>>]
<1> DEFINE chosen == CHOOSE fn : fn = [r \in R |-> next(fn, r)]
<1>2. LowerBound(at, id) = chosen[<<1, n>>]
  BY <1>1 DEF LowerBound
<1>3. PICK w : w = [r \in R |-> CHOOSE i \in Nat : Bound(at, id, r[1], r[1] + r[2], i)]
  OBVIOUS
<1>4. ASSUME NEW first \in 1..n + 1, NEW count \in 0..n, first + count <= n + 1
      PROVE  <<first, count>> \in R /\ Bound(at, id, first, first + count, w[<<first, count>>])
  <2>1. <<first, count>> \in R
    BY <1>4
  <2>2. first + count \in first..n + 1
    BY <1>4
  <2>3. \E i \in Nat : Bound(at, id, first, first + count, i)
    BY <2>2, BoundExists
  <2>4. w[<<first, count>>] = CHOOSE i \in Nat : Bound(at, id, first, first + count, i)
    BY <1>3, <2>1
  <2>5. QED
    BY <2>1, <2>3, <2>4
<1> DEFINE Halves(first, count) ==
       \E half, mid, up, rest \in Nat :
         /\ half = count \div 2 /\ mid = first + half /\ up = mid + 1 /\ rest = count - half - 1
         /\ <<up, rest>> \in R /\ <<first, half>> \in R
         /\ rest \in 0..count - 1 /\ half \in 0..count - 1
         /\ at[mid].id < id => w[<<first, count>>] = w[<<up, rest>>]
         /\ ~(at[mid].id < id) => w[<<first, count>>] = w[<<first, half>>]
<1>5. ASSUME NEW first \in 1..n + 1, NEW count \in 1..n, first + count <= n + 1
      PROVE  Halves(first, count)
  <2>1. PICK half \in Nat : half = count \div 2 /\ half < count
    BY <1>5, Halving
  <2>2. PICK mid \in Nat, up \in Nat, rest \in Nat :
          mid = first + half /\ up = mid + 1 /\ rest = count - half - 1
    BY <2>1
  <2>3. half < count
    BY <2>1
  <2>4. /\ up \in 1..n + 1 /\ rest \in 0..n /\ up + rest = first + count
        /\ half \in 0..n /\ first + half <= n + 1 /\ count \in 0..n
        /\ rest \in 0..count - 1 /\ half \in 0..count - 1
    BY <1>5, <2>1, <2>2
  <2>5. <<up, rest>> \in R /\ Bound(at, id, up, first + count, w[<<up, rest>>])
    <3>1. <<up, rest>> \in R /\ Bound(at, id, up, up + rest, w[<<up, rest>>])
      <4>1. up + rest <= n + 1
        BY <1>5, <2>4
      <4>2. QED
        BY <1>4, <2>4, <4>1
    <3>2. QED
      BY <2>4, <3>1
  <2>6. <<first, half>> \in R /\ Bound(at, id, first, first + half, w[<<first, half>>])
    BY <1>4, <2>4
  <2>7. Bound(at, id, first, first + count, w[<<first, count>>])
    BY <1>4, <1>5, <2>4
  <2>8. PICK i : i = w[<<first, count>>]
    OBVIOUS
  <2>9. /\ at[mid].id < id => Bound(at, id, up, first + count, i)
        /\ ~(at[mid].id < id) => Bound(at, id, first, first + half, i)
    <3>1. Bound(at, id, first, first + count, i) /\ first + count <= n + 1 /\ mid = first + half
      BY <1>5, <2>2, <2>7, <2>8
    <3>2. /\ at[mid].id < id => Bound(at, id, mid + 1, first + count, i)
          /\ ~(at[mid].id < id) => Bound(at, id, first, first + half, i)
      BY ONLY <3>1, <2>3, n \in Nat, at \in [0..n -> Routes], Sorted(at, n), id \in Nat,
         first \in 1..n + 1, count \in 1..n, half \in Nat, mid \in Nat, BoundHalves
    <3>3. QED
      BY <2>2, <3>2
  <2>10. /\ up \in Nat /\ first + count \in Nat /\ first \in Nat /\ first + half \in Nat
    BY <1>5, <2>2
  <2>11. i = IF at[mid].id < id THEN w[<<up, rest>>] ELSE w[<<first, half>>]
    BY <2>5, <2>6, <2>9, <2>10, BoundUnique
  <2>12. QED
    BY <2>1, <2>2, <2>4, <2>5, <2>6, <2>8, <2>11, ZenonT(30)
<1> HIDE DEF Halves
<1>6. ASSUME NEW r \in R
      PROVE  \E first \in 1..n + 1, count \in 0..n : r = <<first, count>> /\ first + count <= n + 1
                                                    /\ r[1] = first /\ r[2] = count
  OBVIOUS
<1>7. w = [r \in R |-> next(w, r)]
  <2>1. ASSUME NEW r \in R PROVE w[r] = next(w, r)
    <3>1. PICK first \in 1..n + 1, count \in 0..n :
            r = <<first, count>> /\ first + count <= n + 1 /\ r[1] = first /\ r[2] = count
      BY <1>6
    <3>2. first + count <= n + 1
      BY <3>1
    <3>3. CASE count = 0
      <4>1. Bound(at, id, first, first + count, w[<<first, count>>])
        BY <1>4, <3>1
      <4>2. w[<<first, count>>] \in first..first
        BY <3>1, <3>3, <4>1 DEF Bound
      <4>3. w[<<first, count>>] = first
        BY <4>2
      <4>4. QED
        BY <3>1, <3>3, <4>3
    <3>4. CASE count # 0
      <4>1. count \in 1..n
        BY <3>4
      <4>2. PICK half, mid, up, rest \in Nat :
              /\ half = count \div 2 /\ mid = first + half /\ up = mid + 1 /\ rest = count - half - 1
              /\ at[mid].id < id => w[<<first, count>>] = w[<<up, rest>>]
              /\ ~(at[mid].id < id) => w[<<first, count>>] = w[<<first, half>>]
        <5>1. Halves(first, count)
          BY <1>5, <3>2, <4>1
        <5> HIDE DEF R, next
        <5>2. QED
          BY ONLY <5>1 DEF Halves
      <4>3. next(w, r) = IF at[mid].id < id THEN w[<<up, rest>>] ELSE w[<<first, half>>]
        BY <3>1, <3>4, <4>2
      <4>4. QED
        BY <3>1, <4>2, <4>3
    <3>5. QED
      BY <3>3, <3>4
  <2> HIDE DEF R, next
  <2>2. w = [r \in R |-> w[r]]
    BY <1>3 DEF R
  <2>3. QED
    BY <2>1, <2>2
<1>8. chosen = [r \in R |-> next(chosen, r)]
  BY <1>7
<1> HIDE DEF chosen
<1> DEFINE T == {k \in Nat : \A r \in R : r[2] = k => chosen[r] = w[r]}
<1>9. ASSUME NEW k \in Nat, \A y \in Nat : y < k => y \in T PROVE k \in T
  <2>1. ASSUME NEW r \in R, r[2] = k PROVE chosen[r] = w[r]
    <3>1. PICK first \in 1..n + 1, count \in 0..n :
            r = <<first, count>> /\ first + count <= n + 1 /\ r[1] = first /\ r[2] = count
      BY <1>6
    <3>2. chosen[r] = next(chosen, r) /\ w[r] = next(w, r)
      BY <1>7, <1>8
    <3>3. CASE count = 0
      BY <3>1, <3>2, <3>3
    <3>4. CASE count # 0
      <4>1. count \in 1..n /\ first + count <= n + 1
        BY <3>1, <3>4
      <4>2. PICK half, mid, up, rest \in Nat :
              /\ half = count \div 2 /\ mid = first + half /\ up = mid + 1 /\ rest = count - half - 1
              /\ <<up, rest>> \in R /\ <<first, half>> \in R
              /\ rest \in 0..count - 1 /\ half \in 0..count - 1
        <5>1. Halves(first, count)
          BY <1>5, <4>1
        <5> HIDE DEF R, next, T
        <5>2. QED
          BY ONLY <5>1 DEF Halves
      <4>3. PICK s, t : s = <<up, rest>> /\ t = <<first, half>>
        OBVIOUS
      <4>4. /\ s \in R /\ t \in R /\ rest \in 0..count - 1 /\ half \in 0..count - 1
            /\ s[2] = rest /\ t[2] = half
        BY <4>2, <4>3
      <4>5. count = k
        BY <2>1, <3>1
      <4>6. s[2] \in T /\ t[2] \in T
        <5>1. /\ s[2] \in Nat /\ s[2] < k /\ t[2] \in Nat /\ t[2] < k
          BY <4>4, <4>5
        <5>2. QED
          BY <1>9, <5>1
      <4>7. chosen[s] = w[s] /\ chosen[t] = w[t]
        BY <4>4, <4>6
      <4>8. \A fn : next(fn, r) = IF at[mid].id < id THEN fn[s] ELSE fn[t]
        BY <3>1, <3>4, <4>2, <4>3
      <4>9. QED
        <5> HIDE DEF next, T, R
        <5> QED
          BY <3>2, <4>7, <4>8
    <3>5. QED
      BY <3>3, <3>4
  <2>2. QED
    BY <2>1
<1>10. \A k \in Nat : k \in T
  <2> HIDE DEF T
  <2> QED
    BY <1>9, StrongInduction
<1>11. /\ <<1, n>> \in R /\ Bound(at, id, 1, 1 + n, w[<<1, n>>])
  <2>1. 1 \in 1..n + 1 /\ n \in 0..n /\ 1 + n <= n + 1
    OBVIOUS
  <2>2. QED
    BY <1>4, <2>1
<1>12. chosen[<<1, n>>] = w[<<1, n>>]
  <2>1. PICK r : r = <<1, n>>
    OBVIOUS
  <2>2. r \in R /\ r[2] = n
    BY <1>11, <2>1
  <2>3. QED
    BY <1>10, <2>1, <2>2
<1>13. 1 + n = n + 1
  OBVIOUS
<1>14. QED
  BY <1>2, <1>11, <1>12, <1>13

\* No two slots own the same binder.
Distinct(at, n) == \A i, j \in 0..n : at[i].state = at[j].state /\ at[i].state # Null => i = j

\* The memory when the slots 1..k were cleared.
ClearedTo(m, k, n) ==
  [at |-> [j \in 0..n |-> IF j \in 1..k THEN Emptied(m.at[j]) ELSE m.at[j]],
   deleted |-> [x \in Binders |->
                  IF \E j \in 1..k : m.at[j].state = x THEN m.deleted[x] + 1 ELSE m.deleted[x]]]

\* A memory whose first k routes are cleared is a memory.
LEMMA ClearedToType ==
  ASSUME NEW n \in Nat, NEW m, IsMemory(m, n), NEW k \in 0..n
  PROVE  /\ IsMemory(ClearedTo(m, k, n), n)
         /\ \A j \in 0..n : ClearedTo(m, k, n).at[j] = IF j \in 1..k THEN Emptied(m.at[j]) ELSE m.at[j]
         /\ \A x \in Binders :
              ClearedTo(m, k, n).deleted[x] =
                IF \E j \in 1..k : m.at[j].state = x THEN m.deleted[x] + 1 ELSE m.deleted[x]
<1>1. PICK at \in [0..n -> Routes], del \in [Binders -> Nat] : at = m.at /\ del = m.deleted
  BY DEF IsMemory
<1>2. PICK u : u = [j \in 0..n |-> IF j \in 1..k THEN Emptied(at[j]) ELSE at[j]]
  OBVIOUS
<1>3. PICK v : v = [x \in Binders |-> IF \E j \in 1..k : at[j].state = x THEN del[x] + 1 ELSE del[x]]
  OBVIOUS
<1>4. u \in [0..n -> Routes]
  BY <1>2, EmptiedType
<1>5. v \in [Binders -> Nat]
  BY <1>3
<1>6. ClearedTo(m, k, n) = [at |-> u, deleted |-> v]
  BY <1>1, <1>2, <1>3 DEF ClearedTo
<1>7. IsMemory(ClearedTo(m, k, n), n) /\ ClearedTo(m, k, n).at = u /\ ClearedTo(m, k, n).deleted = v
  BY <1>4, <1>5, <1>6, MemoryOf
<1>8. \A j \in 0..n : u[j] = IF j \in 1..k THEN Emptied(m.at[j]) ELSE m.at[j]
  BY <1>1, <1>2
<1>9. \A x \in Binders : v[x] = IF \E j \in 1..k : m.at[j].state = x THEN m.deleted[x] + 1 ELSE m.deleted[x]
  BY <1>1, <1>3
<1>10. QED
  BY ONLY <1>7, <1>8, <1>9

\* Clearing one more.
LEMMA ClearsNext ==
  ASSUME NEW n \in Nat, NEW m, IsMemory(m, n), Distinct(m.at, n), NEW k \in 1..n
  PROVE  ClearedTo(m, k, n) = Reset(ClearedTo(m, k - 1, n), k)
<1>1. PICK p \in 0..n : p = k - 1
  OBVIOUS
<1>2. PICK x, w, y : x = ClearedTo(m, k, n) /\ w = ClearedTo(m, p, n) /\ y = Reset(w, k)
  OBVIOUS
<1>3. k \in 0..n /\ k \notin 1..p /\ k \in 1..k
  BY <1>1
<1>4. IsMemory(x, n) /\ IsMemory(w, n)
  BY <1>2, <1>3, ClearedToType
<1>5. /\ \A j \in 0..n : x.at[j] = IF j \in 1..k THEN Emptied(m.at[j]) ELSE m.at[j]
      /\ \A j \in 0..n : w.at[j] = IF j \in 1..p THEN Emptied(m.at[j]) ELSE m.at[j]
  BY <1>2, <1>3, ClearedToType
<1>6. /\ \A b0 \in Binders : x.deleted[b0] = IF \E j \in 1..k : m.at[j].state = b0 THEN m.deleted[b0] + 1 ELSE m.deleted[b0]
      /\ \A b0 \in Binders : w.deleted[b0] = IF \E j \in 1..p : m.at[j].state = b0 THEN m.deleted[b0] + 1 ELSE m.deleted[b0]
  <2>1. \A b0 \in Binders : ClearedTo(m, k, n).deleted[b0] =
          IF \E j \in 1..k : m.at[j].state = b0 THEN m.deleted[b0] + 1 ELSE m.deleted[b0]
    <3>1. k \in 0..n
      BY <1>3
    <3>2. QED
      BY ONLY <3>1, n \in Nat, IsMemory(m, n), ClearedToType
  <2>2. \A b0 \in Binders : ClearedTo(m, p, n).deleted[b0] =
          IF \E j \in 1..p : m.at[j].state = b0 THEN m.deleted[b0] + 1 ELSE m.deleted[b0]
    BY ClearedToType
  <2>3. QED
    BY ONLY <1>2, <2>1, <2>2
<1>7. /\ IsMemory(y, n)
      /\ \A j \in 0..n : y.at[j] = IF j = k THEN Emptied(w.at[k]) ELSE w.at[j]
      /\ \A b0 \in Binders : y.deleted[b0] = IF b0 = w.at[k].state THEN w.deleted[b0] + 1 ELSE w.deleted[b0]
  <2>1. IsMemory(w, n) /\ k \in 0..n
    BY <1>3, <1>4
  <2>2. IsMemory(Reset(w, k), n)
    BY ONLY <2>1, n \in Nat, ResetForm
  <2>3. \A j \in 0..n : Reset(w, k).at[j] = IF j = k THEN Emptied(w.at[k]) ELSE w.at[j]
    BY ONLY <2>1, n \in Nat, ResetForm
  <2>4. \A b0 \in Binders :
          Reset(w, k).deleted[b0] = IF b0 = w.at[k].state THEN w.deleted[b0] + 1 ELSE w.deleted[b0]
    BY ONLY <2>1, n \in Nat, ResetForm
  <2>5. QED
    BY ONLY <1>2, <2>2, <2>3, <2>4
<1>8. w.at[k] = m.at[k]
  BY <1>3, <1>5
<1>9. ASSUME NEW j \in 0..n PROVE x.at[j] = y.at[j]
  <2>1. j \in 1..k <=> j = k \/ j \in 1..p
    BY <1>1
  <2>2. QED
    BY <1>3, <1>5, <1>7, <1>8, <2>1
<1>10. ASSUME NEW b0 \in Binders PROVE x.deleted[b0] = y.deleted[b0]
  <2>1. \A j \in 1..k : j = k \/ j \in 1..p
    BY <1>1
  <2>2. \A j \in 1..p : j \in 1..k /\ j \in 0..n /\ j # k
    BY <1>1
  <2>3. b0 # Null
    BY RouterAssumption
  <2>4. CASE b0 = m.at[k].state
    <3>1. ~\E j \in 1..p : m.at[j].state = b0
      BY <1>3, <2>2, <2>3, <2>4 DEF Distinct
    <3>2. \E j \in 1..k : m.at[j].state = b0
      BY <1>3, <2>4
    <3>3. QED
      BY <1>6, <1>7, <1>8, <2>4, <3>1, <3>2
  <2>5. CASE b0 # m.at[k].state
    <3>1. (\E j \in 1..p : m.at[j].state = b0) <=> (\E j \in 1..k : m.at[j].state = b0)
      BY <2>1, <2>2, <2>5
    <3>2. QED
      BY <1>6, <1>7, <1>8, <2>5, <3>1
  <2>6. QED
    BY <2>4, <2>5
<1>11. x = y
  BY <1>4, <1>7, <1>9, <1>10, MemoryEqual
<1>12. QED
  BY <1>1, <1>2, <1>11

\* The destructors delete what the routes own.
LEMMA ClearedForm ==
  ASSUME NEW n \in Nat, NEW m, IsMemory(m, n), Distinct(m.at, n)
  PROVE  Cleared(m) = ClearedTo(m, n, n)
<1>1. Size(m.at) = n
  BY SizeOf DEF IsMemory
<1> DEFINE chosen == CHOOSE fn : fn = [i \in 0..n |-> IF i = 0 THEN m ELSE Reset(fn[i - 1], i)]
<1>2. Cleared(m) = chosen[n]
  BY <1>1 DEF Cleared
<1>3. PICK w : w = [i \in 0..n |-> ClearedTo(m, i, n)]
  OBVIOUS
<1>4. ClearedTo(m, 0, n) = m
  <2>1. PICK x : x = ClearedTo(m, 0, n)
    OBVIOUS
  <2>2. 0 \in 0..n /\ \A j : j \notin 1..0
    OBVIOUS
  <2>3. /\ IsMemory(x, n) /\ \A j \in 0..n : x.at[j] = m.at[j]
    BY <2>1, <2>2, ClearedToType
  <2>4. \A b0 \in Binders : x.deleted[b0] = m.deleted[b0]
    BY <2>1, <2>2, ClearedToType
  <2>5. QED
    BY <2>1, <2>3, <2>4, MemoryEqual
<1>5. w = [i \in 0..n |-> IF i = 0 THEN m ELSE Reset(w[i - 1], i)]
  <2>1. ASSUME NEW i \in 0..n PROVE ClearedTo(m, i, n) = IF i = 0 THEN m ELSE Reset(w[i - 1], i)
    <3>1. CASE i = 0
      BY <1>4, <3>1
    <3>2. CASE i # 0
      <4>1. i \in 1..n /\ i - 1 \in 0..n
        BY <3>2
      <4>2. w[i - 1] = ClearedTo(m, i - 1, n)
        BY <1>3, <4>1
      <4>3. QED
        BY <3>2, <4>1, <4>2, ClearsNext
    <3>3. QED
      BY <3>1, <3>2
  <2>2. QED
    BY ONLY <1>3, <2>1
<1>6. chosen = [i \in 0..n |-> IF i = 0 THEN m ELSE Reset(chosen[i - 1], i)]
  BY <1>5
<1> HIDE DEF chosen
<1> DEFINE T == {k \in 0..n : chosen[k] = w[k]}
<1>7. 0 \in T
  BY <1>5, <1>6
<1>8. ASSUME NEW k \in 0..n - 1, k \in T PROVE k + 1 \in T
  <2>1. PICK i \in 0..n : i = k + 1
    OBVIOUS
  <2>2. i # 0 /\ i - 1 = k
    BY <2>1
  <2>3. chosen[i] = Reset(chosen[i - 1], i) /\ w[i] = Reset(w[i - 1], i)
    BY <1>5, <1>6, <2>2
  <2>4. QED
    BY <1>8, <2>1, <2>2, <2>3
<1>9. \A k \in 0..n : k \in T
  <2> HIDE DEF T
  <2> QED
    BY <1>7, <1>8, Induction
<1>10. chosen[n] = w[n] /\ n \in 0..n
  BY <1>9
<1>11. QED
  BY <1>2, <1>3, <1>10

\* Every binder of bs has one owner or was deleted once, the others neither.
Owned(m, n, bs) ==
  /\ IsMemory(m, n) /\ Distinct(m.at, n)
  /\ \A i \in 0..n : m.at[i].state \in bs \cup {Null}
  /\ \A x \in Binders :
       m.deleted[x] = IF x \in bs /\ (\A i \in 0..n : m.at[i].state # x) THEN 1 ELSE 0

\* Each route has the id of its name.
Named(at, n) == \A i \in 1..n : at[i].name \in Names /\ at[i].id = Id[at[i].name]

\* The inductive invariant of the table.
TableInv(n) ==
  /\ made \subseteq Binders /\ accepted \in [Names -> Binders \cup {Null}]
  /\ Owned(Memory, n, made)
  /\ Named(routes, n) /\ Sorted(routes, n)
  /\ routes[0].state = Null
  /\ phase # "destroyed" =>
       \A i \in 1..n : routes[i].state # Null /\ routes[i].state = accepted[routes[i].name]
  /\ \A x \in Names : accepted[x] # Null => \E i \in 1..n : routes[i].name = x

\* The response to the call in progress.
Reply(binder, reply, bs) ==
  \/ \E message \in {Thrown, UnknownFailure} : bs = EncodeError(message) /\ reply = message
  \/ Signature[binder].result = "void" /\ bs = EncodeResponse(Undefined)
  \/ /\ Signature[binder].result \in DOMAIN Returns
     /\ Holdable(Signature[binder].result, reply)
     /\ LET v == To(Signature[binder].result, reply) IN
        bs = IF Writable(Len(v.text)) THEN EncodeResponse(v) ELSE EncodeError(Unsendable)

Refused ==
  /\ ran.binder = Null /\ frame = EncodeError(ran.reply)
  /\ \/ damaged /\ ran.reply = InvalidFrame
     \/ ran.reply = UnknownMethod /\ accepted[call.name] = Null
     \/ /\ ran.reply = Mismatched
        /\ accepted[call.name] # Null => ~Matches(accepted[call.name], call.args)

Served ==
  /\ ran.binder \in Binders
  /\ accepted[call.name] # Null => ran.binder = accepted[call.name]
  /\ Matches(ran.binder, call.args)
  /\ ran.args = [i \in DOMAIN call.args |-> From(Signature[ran.binder].args[i], call.args[i])]
  /\ Reply(ran.binder, ran.reply, frame)

Sent == EncodeRequest(Id[call.name], call.args)

\* The inductive invariant of the call.
CallInv ==
  /\ stage \in {"idle", "request", "response", "done"}
  /\ stage # "idle" =>
       /\ phase = "serve" /\ call.name \in Names
       /\ \E import \in Imports : call.args = import.args /\ call.result = import.result
  /\ stage = "idle" => ~damaged
  /\ stage \in {"idle", "request"} => ran = Null
  /\ stage # "done" => outcome = Null
  /\ stage = "request" =>
       IF damaged THEN frame \in Seq(Byte) /\ Begins(frame, Sent) /\ Len(frame) # Len(Sent)
       ELSE frame = Sent
  /\ stage \in {"response", "done"} => Refused \/ Served
  /\ stage = "done" => outcome = Outcome(TryDecodeResponse(frame))

\* What ownership says of each slot and each binder.
LEMMA OwnedFacts ==
  ASSUME NEW n \in Nat, NEW m, NEW bs, Owned(m, n, bs)
  PROVE  /\ IsMemory(m, n) /\ m.at \in [0..n -> Routes] /\ m.deleted \in [Binders -> Nat]
         /\ \A i \in 0..n : m.at[i] \in Routes /\ m.at[i].state \in Binders \cup {Null}
         /\ \A i \in 0..n : m.at[i].state \in bs \cup {Null}
         /\ \A i, j \in 0..n : m.at[i].state = m.at[j].state /\ m.at[i].state # Null => i = j
         /\ \A x \in Binders :
              m.deleted[x] = IF x \in bs /\ (\A i \in 0..n : m.at[i].state # x) THEN 1 ELSE 0
         /\ Null \notin Binders
<1>1. IsMemory(m, n) /\ m.at \in [0..n -> Routes] /\ m.deleted \in [Binders -> Nat]
  BY DEF Owned, IsMemory
<1>2. \A i \in 0..n : m.at[i] \in Routes
  BY <1>1
<1>3. QED
  BY <1>1, <1>2, RouterAssumption DEF Owned, Distinct, Routes

\* The temporary that define() makes.
Temporary(m, name, binder) == [m EXCEPT !.at[0] = Make(name, binder)]

\* The temporary owns the new binder.
LEMMA TemporaryOwned ==
  ASSUME NEW n \in Nat, NEW m, NEW bs, Owned(m, n, bs), m.at[0].state = Null,
         NEW name \in Names, NEW binder \in Binders, binder \notin bs,
         NEW t, t = Temporary(m, name, binder)
  PROVE  Owned(t, n, bs \cup {binder})
<1>1. PICK at \in [0..n -> Routes], del \in [Binders -> Nat] :
        m = [at |-> at, deleted |-> del] /\ at = m.at /\ del = m.deleted
  BY OwnedFacts DEF IsMemory
<1>2. PICK r : r = Make(name, binder)
  OBVIOUS
<1>3. r \in Routes /\ r.state = binder
  <2>1. Id[name] \in 0..Limit(W64) - 1
    BY RouterAssumption
  <2>2. QED
    BY <1>2, <2>1 DEF Make, Routes
<1>4. PICK u : u = [at EXCEPT ![0] = r]
  OBVIOUS
<1>5. 0 \in 0..n /\ u \in [0..n -> Routes] /\ u[0] = r /\ \A j \in 0..n : j # 0 => u[j] = at[j]
  BY <1>3, <1>4
<1>6. t = [at |-> u, deleted |-> del]
  BY <1>1, <1>2, <1>4 DEF Temporary
<1>7. IsMemory(t, n) /\ t.at = u /\ t.deleted = del
  <2>1. u \in [0..n -> Routes]
    BY <1>5
  <2>2. QED
    BY ONLY <1>6, <2>1, del \in [Binders -> Nat], MemoryOf
<1>8. \A i \in 0..n : u[i].state = IF i = 0 THEN binder ELSE at[i].state
  BY <1>3, <1>5
<1>9. /\ at[0].state = Null /\ \A i \in 0..n : at[i].state # binder
  <2>1. \A i \in 0..n : at[i].state \in bs \cup {Null}
    BY <1>1, OwnedFacts
  <2>2. QED
    BY <1>1, <2>1, RouterAssumption
<1>10. Distinct(t.at, n)
  <2>1. \A i, j \in 0..n : at[i].state = at[j].state /\ at[i].state # Null => i = j
    BY <1>1, OwnedFacts
  <2>2. \A i, j \in 0..n : u[i].state = u[j].state /\ u[i].state # Null => i = j
    BY <1>8, <1>9, <2>1
  <2>3. QED
    BY <1>7, <2>2 DEF Distinct
<1>11. \A i \in 0..n : t.at[i].state \in bs \cup {binder} \cup {Null}
  <2>1. \A i \in 0..n : at[i].state \in bs \cup {Null}
    BY <1>1, OwnedFacts
  <2>2. QED
    BY <1>7, <1>8, <2>1
<1>12. ASSUME NEW x \in Binders
       PROVE  t.deleted[x] =
                IF x \in bs \cup {binder} /\ (\A i \in 0..n : t.at[i].state # x) THEN 1 ELSE 0
  <2>1. del[x] = IF x \in bs /\ (\A i \in 0..n : at[i].state # x) THEN 1 ELSE 0
    BY <1>1, OwnedFacts
  <2>2. CASE x = binder
    <3>1. u[0].state = x
      BY <1>5, <1>8, <2>2
    <3>2. ~(\A i \in 0..n : u[i].state # x)
      BY <1>5, <3>1
    <3>3. QED
      BY <1>7, <2>1, <2>2, <3>2
  <2>3. CASE x # binder
    <3>1. x # Null
      BY RouterAssumption
    <3>2. \A i \in 0..n : u[i].state = x <=> at[i].state = x
      BY <1>8, <1>9, <2>3, <3>1
    <3>3. QED
      BY <1>7, <2>1, <2>3, <3>2
  <2>4. QED
    BY <2>2, <2>3
<1>13. QED
  BY <1>7, <1>10, <1>11, <1>12 DEF Owned

\* reset() keeps the owners: the binder it deletes loses its only one.
LEMMA ResetOwned ==
  ASSUME NEW n \in Nat, NEW m, NEW bs, Owned(m, n, bs), NEW k \in 0..n
  PROVE  Owned(Reset(m, k), n, bs)
<1>1. PICK y : y = Reset(m, k)
  OBVIOUS
<1>2. IsMemory(m, n)
  BY OwnedFacts
<1>3. IsMemory(y, n)
  BY <1>1, <1>2, ResetForm
<1>4. \A j \in 0..n : y.at[j] = IF j = k THEN Emptied(m.at[k]) ELSE m.at[j]
  BY <1>1, <1>2, ResetForm
<1>5. \A x \in Binders : y.deleted[x] = IF x = m.at[k].state THEN m.deleted[x] + 1 ELSE m.deleted[x]
  BY <1>1, <1>2, ResetForm
<1>6. \A j \in 0..n : y.at[j].state = IF j = k THEN Null ELSE m.at[j].state
  BY <1>4, OwnedFacts, EmptiedType
<1>7. Distinct(y.at, n) /\ \A i \in 0..n : y.at[i].state \in bs \cup {Null}
  <2>1. /\ \A i \in 0..n : m.at[i].state \in bs \cup {Null}
        /\ \A i, j \in 0..n : m.at[i].state = m.at[j].state /\ m.at[i].state # Null => i = j
    BY OwnedFacts
  <2>2. \A i \in 0..n : y.at[i].state \in bs \cup {Null}
    BY <1>6, <2>1
  <2>3. \A i, j \in 0..n : y.at[i].state = y.at[j].state /\ y.at[i].state # Null => i = j
    BY ONLY <1>6, <2>1
  <2>4. QED
    BY <2>2, <2>3 DEF Distinct
<1>8. ASSUME NEW x \in Binders
      PROVE  y.deleted[x] = IF x \in bs /\ (\A i \in 0..n : y.at[i].state # x) THEN 1 ELSE 0
  <2>1. m.deleted[x] = IF x \in bs /\ (\A i \in 0..n : m.at[i].state # x) THEN 1 ELSE 0
    BY OwnedFacts
  <2>2. x # Null
    BY RouterAssumption
  <2>3. CASE x = m.at[k].state
    <3>1. \A i \in 0..n : y.at[i].state # x
      BY <1>6, <2>2, <2>3, OwnedFacts
    <3>2. x \in bs
      BY <2>2, <2>3, OwnedFacts
    <3>3. m.deleted[x] = 0
      BY <2>1, <2>3
    <3>4. QED
      BY <1>5, <2>3, <3>1, <3>2, <3>3
  <2>4. CASE x # m.at[k].state
    <3>1. \A i \in 0..n : y.at[i].state = x <=> m.at[i].state = x
      BY <1>6, <2>2, <2>4
    <3>2. QED
      BY <1>5, <2>1, <2>4, <3>1
  <2>5. QED
    BY <2>3, <2>4
<1>9. QED
  BY <1>1, <1>3, <1>7, <1>8 DEF Owned

\* So does a move assignment: the binder moves, the one it overwrites is deleted.
LEMMA MoveAssignOwned ==
  ASSUME NEW n \in Nat, NEW m, NEW bs, Owned(m, n, bs), NEW to \in 0..n, NEW from \in 0..n, to # from
  PROVE  Owned(MoveAssign(m, to, from), n, bs)
<1>1. PICK y : y = MoveAssign(m, to, from)
  OBVIOUS
<1>2. IsMemory(m, n)
  BY OwnedFacts
<1>3. IsMemory(y, n)
  BY <1>1, <1>2, MoveAssignForm
<1>4. \A j \in 0..n : y.at[j] = IF j = to THEN m.at[from] ELSE IF j = from THEN Emptied(m.at[from]) ELSE m.at[j]
  BY <1>1, <1>2, MoveAssignForm
<1>5. \A x \in Binders : y.deleted[x] = IF x = m.at[to].state THEN m.deleted[x] + 1 ELSE m.deleted[x]
  <2>1. MoveAssign(m, to, from).deleted = Reset(m, to).deleted
    BY <1>2, MoveAssignForm
  <2>2. \A x \in Binders : Reset(m, to).deleted[x] = IF x = m.at[to].state THEN m.deleted[x] + 1 ELSE m.deleted[x]
    BY <1>2, ResetForm
  <2>3. QED
    BY <1>1, <2>1, <2>2
<1>6. Emptied(m.at[from]).state = Null
  <2>1. m.at[from] \in Routes
    BY OwnedFacts
  <2>2. QED
    BY <2>1, EmptiedType
<1>7. \A j \in 0..n : y.at[j].state = IF j = to THEN m.at[from].state ELSE IF j = from THEN Null ELSE m.at[j].state
  BY <1>4, <1>6
<1>8. /\ \A i \in 0..n : m.at[i].state \in bs \cup {Null}
      /\ \A i, j \in 0..n : m.at[i].state = m.at[j].state /\ m.at[i].state # Null => i = j
  BY OwnedFacts
<1>9. \A i \in 0..n : y.at[i].state \in bs \cup {Null}
  BY <1>7, <1>8
<1>10. Distinct(y.at, n)
  <2>1. \A i, j \in 0..n : y.at[i].state = y.at[j].state /\ y.at[i].state # Null => i = j
    BY ONLY <1>7, <1>8, to \in 0..n, from \in 0..n
  <2>2. QED
    BY <2>1 DEF Distinct
<1>11. ASSUME NEW x \in Binders
      PROVE  y.deleted[x] = IF x \in bs /\ (\A i \in 0..n : y.at[i].state # x) THEN 1 ELSE 0
  <2>1. m.deleted[x] = IF x \in bs /\ (\A i \in 0..n : m.at[i].state # x) THEN 1 ELSE 0
    BY OwnedFacts
  <2>2. x # Null
    BY RouterAssumption
  <2>3. CASE x = m.at[to].state
    <3>1. \A i \in 0..n : y.at[i].state # x
      BY <1>7, <1>8, <2>2, <2>3
    <3>2. x \in bs
      BY <1>8, <2>2, <2>3
    <3>3. m.deleted[x] = 0
      BY <2>1, <2>3
    <3>4. QED
      BY <1>5, <2>3, <3>1, <3>2, <3>3
  <2>4. CASE x # m.at[to].state
    <3>1. (\E i \in 0..n : y.at[i].state = x) <=> (\E i \in 0..n : m.at[i].state = x)
      BY ONLY <1>7, <2>2, <2>4, to \in 0..n, from \in 0..n, to # from
    <3>2. QED
      BY <1>5, <2>1, <2>4, <3>1
  <2>5. QED
    BY <2>3, <2>4
<1>12. QED
  BY <1>1, <1>3, <1>9, <1>10, <1>11 DEF Owned

\* An insertion moves every binder to one slot and deletes none.
LEMMA InsertOwned ==
  ASSUME NEW n \in Nat, NEW m, NEW bs, Owned(m, n, bs), NEW place \in 1..n + 1
  PROVE  Owned(Insert(m, place), n + 1, bs)
<1>1. PICK y, k : y = Insert(m, place) /\ k = n + 1
  OBVIOUS
<1> k \in Nat
  BY <1>1
<1>2. IsMemory(m, n)
  BY OwnedFacts
<1>3. IsMemory(y, k) /\ y.deleted = m.deleted
  BY <1>1, <1>2, InsertForm
<1>4. \A j \in 0..k : y.at[j] = IF j = 0 THEN Emptied(m.at[0]) ELSE IF j < place THEN m.at[j]
                                ELSE IF j = place THEN m.at[0] ELSE m.at[j - 1]
  BY <1>1, <1>2, InsertForm
<1>5. Emptied(m.at[0]).state = Null
  <2>1. 0 \in 0..n
    OBVIOUS
  <2>2. m.at[0] \in Routes
    BY <2>1, OwnedFacts
  <2>3. QED
    BY <2>2, EmptiedType
\* Where the route of a slot came from.
<1> DEFINE src(j) == IF j < place THEN j ELSE IF j = place THEN 0 ELSE j - 1
<1>6. \A j \in 1..k : src(j) \in 0..n /\ y.at[j].state = m.at[src(j)].state
  <2>1. ASSUME NEW j \in 1..k PROVE src(j) \in 0..n /\ y.at[j].state = m.at[src(j)].state
    <3>1. j \in 0..k /\ j # 0
      OBVIOUS
    <3>2. src(j) \in 0..n
      BY <1>1
    <3>3. QED
      BY <1>4, <3>1, <3>2
  <2>2. QED
    BY <2>1
<1>7. \A i, j \in 1..k : src(i) = src(j) => i = j
  BY <1>1
<1>8. \A i \in 0..n : i # 0 => \E j \in 1..k : src(j) = i
  <2>1. ASSUME NEW i \in 0..n, i # 0 PROVE \E j \in 1..k : src(j) = i
    <3>1. CASE i < place
      BY <1>1, <2>1, <3>1
    <3>2. CASE ~(i < place)
      <4>1. i + 1 \in 1..k /\ ~(i + 1 < place) /\ i + 1 # place /\ i + 1 - 1 = i
        BY <1>1, <2>1, <3>2
      <4>2. src(i + 1) = i
        BY <4>1
      <4>3. QED
        BY <4>1, <4>2
    <3>3. QED
      BY <3>1, <3>2
  <2>2. QED
    BY <2>1
<1>9. place \in 1..k /\ src(place) = 0 /\ y.at[0].state = Null /\ \A j \in 0..k : j = 0 \/ j \in 1..k
  <2>1. 0 \in 0..k
    OBVIOUS
  <2>2. y.at[0].state = Null
    BY <1>4, <1>5, <2>1
  <2>3. ~(place < place) /\ place \in 1..k
    BY <1>1
  <2>4. QED
    BY <2>2, <2>3
<1> HIDE DEF src
<1>10. /\ \A i \in 0..n : m.at[i].state \in bs \cup {Null}
       /\ \A i, j \in 0..n : m.at[i].state = m.at[j].state /\ m.at[i].state # Null => i = j
  BY OwnedFacts
<1>11. \A i \in 0..k : y.at[i].state \in bs \cup {Null}
  BY <1>6, <1>9, <1>10
<1>12. Distinct(y.at, k)
  <2>1. \A i, j \in 0..k : y.at[i].state = y.at[j].state /\ y.at[i].state # Null => i = j
    BY <1>6, <1>7, <1>9, <1>10
  <2>2. QED
    BY <2>1 DEF Distinct
<1>13. ASSUME NEW x \in Binders
      PROVE  y.deleted[x] = IF x \in bs /\ (\A i \in 0..k : y.at[i].state # x) THEN 1 ELSE 0
  <2>1. m.deleted[x] = IF x \in bs /\ (\A i \in 0..n : m.at[i].state # x) THEN 1 ELSE 0
    BY OwnedFacts
  <2>2. x # Null
    BY RouterAssumption
  <2>3. ASSUME NEW i \in 0..n, m.at[i].state = x PROVE \E j \in 0..k : y.at[j].state = x
    <3>1. PICK j \in 1..k : src(j) = i
      BY <1>8, <1>9
    <3>2. y.at[j].state = x /\ j \in 0..k
      BY <1>6, <2>3, <3>1
    <3>3. QED
      BY <3>2
  <2>4. ASSUME NEW j \in 0..k, y.at[j].state = x PROVE \E i \in 0..n : m.at[i].state = x
    BY <1>6, <1>9, <2>2, <2>4
  <2>5. QED
    BY <1>3, <2>1, <2>3, <2>4
<1>14. QED
  BY <1>1, <1>3, <1>11, <1>12, <1>13 DEF Owned

\* The end of the router deletes every binder that still has an owner, once.
LEMMA ClearedOwned ==
  ASSUME NEW n \in Nat, NEW m, NEW bs, Owned(m, n, bs), m.at[0].state = Null
  PROVE  /\ Owned(Cleared(m), n, bs)
         /\ \A j \in 0..n : Cleared(m).at[j] = IF j \in 1..n THEN Emptied(m.at[j]) ELSE m.at[j]
         /\ \A j \in 0..n : Cleared(m).at[j].state = Null
<1>1. IsMemory(m, n) /\ Distinct(m.at, n) /\ n \in 0..n
  BY DEF Owned
<1>2. PICK y : y = ClearedTo(m, n, n) /\ y = Cleared(m)
  BY <1>1, ClearedForm
<1>3. IsMemory(y, n)
  <2>1. IsMemory(ClearedTo(m, n, n), n)
    BY ONLY <1>1, n \in Nat, ClearedToType
  <2>2. QED
    BY <1>2, <2>1
<1>4. \A j \in 0..n : y.at[j] = IF j \in 1..n THEN Emptied(m.at[j]) ELSE m.at[j]
  <2>1. \A j \in 0..n : ClearedTo(m, n, n).at[j] = IF j \in 1..n THEN Emptied(m.at[j]) ELSE m.at[j]
    BY ONLY <1>1, n \in Nat, ClearedToType
  <2>2. QED
    BY ONLY <1>2, <2>1
<1>5. \A x \in Binders : y.deleted[x] = IF \E j \in 1..n : m.at[j].state = x THEN m.deleted[x] + 1 ELSE m.deleted[x]
  <2>1. \A x \in Binders : ClearedTo(m, n, n).deleted[x] = IF \E j \in 1..n : m.at[j].state = x THEN m.deleted[x] + 1 ELSE m.deleted[x]
    BY ONLY <1>1, n \in Nat, ClearedToType
  <2>2. QED
    BY ONLY <1>2, <2>1
<1>6. \A j \in 0..n : y.at[j].state = Null
  <2>1. \A j \in 0..n : Emptied(m.at[j]).state = Null /\ (j \in 1..n \/ j = 0)
    BY OwnedFacts, EmptiedType
  <2>2. QED
    BY <1>4, <2>1
<1>7. Distinct(y.at, n) /\ \A i \in 0..n : y.at[i].state \in bs \cup {Null}
  BY <1>6 DEF Distinct
<1>8. ASSUME NEW x \in Binders
      PROVE  y.deleted[x] = IF x \in bs /\ (\A i \in 0..n : y.at[i].state # x) THEN 1 ELSE 0
  <2>1. m.deleted[x] = IF x \in bs /\ (\A i \in 0..n : m.at[i].state # x) THEN 1 ELSE 0
    BY OwnedFacts
  <2>2. x # Null
    BY RouterAssumption
  <2>3. (\E j \in 1..n : m.at[j].state = x) <=> (\E j \in 0..n : m.at[j].state = x)
    BY <2>2
  <2>4. \A i \in 0..n : m.at[i].state \in bs \cup {Null}
    BY OwnedFacts
  <2>5. \A i \in 0..n : y.at[i].state # x
    BY <1>6, <2>2
  <2>6. CASE \E j \in 1..n : m.at[j].state = x
    <3>1. x \in bs /\ m.deleted[x] = 0
      BY <2>1, <2>2, <2>3, <2>4, <2>6
    <3>2. QED
      BY <1>5, <2>5, <2>6, <3>1
  <2>7. CASE ~\E j \in 1..n : m.at[j].state = x
    BY <1>5, <2>1, <2>3, <2>5, <2>7
  <2>8. QED
    BY <2>6, <2>7
<1>9. Owned(y, n, bs)
  BY <1>3, <1>7, <1>8 DEF Owned
<1>10. QED
  BY <1>2, <1>4, <1>6, <1>9

\* What the invariant says of the variables.
LEMMA TableFacts ==
  ASSUME NEW n \in Nat, TableInv(n)
  PROVE  /\ Owned(Memory, n, made) /\ routes \in [0..n -> Routes] /\ Memory.at = routes
         /\ Memory.deleted = deleted /\ made \subseteq Binders
         /\ accepted \in [Names -> Binders \cup {Null}]
         /\ Size(routes) = n
<1>1. Memory.at = routes /\ Memory.deleted = deleted
  BY DEF Memory
<1>2. Owned(Memory, n, made)
  BY DEF TableInv
<1>3. routes \in [0..n -> Routes]
  BY <1>1, <1>2, OwnedFacts
<1>4. QED
  BY <1>1, <1>2, <1>3, SizeOf DEF TableInv

\* A memory becomes the state of the router.
LEMMA BecomesMemory ==
  ASSUME NEW n, NEW m, IsMemory(m, n), Holds(m)
  PROVE  Memory' = m /\ routes' = m.at /\ deleted' = m.deleted
  BY DEF IsMemory, Holds, Memory

\* Where lower_bound puts a name.
LEMMA PlaceOf ==
  ASSUME NEW n \in Nat, TableInv(n), NEW id \in 0..Limit(W64) - 1
  PROVE  /\ LowerBound(routes, id) \in 1..n + 1
         /\ \A j \in 1..n : routes[j].id \in Nat /\ (routes[j].id < id <=> j < LowerBound(routes, id))
         /\ Found(routes, id) =>
              LowerBound(routes, id) \in 1..n /\ routes[LowerBound(routes, id)].id = id
         /\ ~Found(routes, id) => \A j \in 1..n : routes[j].id # id
<1>1. id \in Nat
  <2>1. Limit(W64) \in Nat
    BY LimitType, WidthType
  <2>2. QED
    BY <2>1
<1>2. routes \in [0..n -> Routes] /\ Sorted(routes, n) /\ Size(routes) = n
  BY TableFacts DEF TableInv
<1>3. PICK p : p = LowerBound(routes, id)
  OBVIOUS
<1>4. Bound(routes, id, 1, n + 1, p)
  BY <1>1, <1>2, <1>3, LowerBoundForm
<1>5. p \in 1..n + 1
  BY <1>4 DEF Bound
<1>6. \A j \in 1..n : routes[j].id \in Nat /\ (routes[j].id < id <=> j < p)
  <2>1. \A j \in 1..n + 1 - 1 : routes[j].id < id <=> j < p
    BY <1>4 DEF Bound
  <2>2. \A j \in 1..n : j \in 1..n + 1 - 1 /\ j \in 0..n
    OBVIOUS
  <2>3. QED
    BY <1>2, <2>1, <2>2, RouteIds
<1>7. Found(routes, id) <=> p <= n /\ routes[p].id = id
  BY <1>2, <1>3 DEF Found
<1>8. Found(routes, id) => p \in 1..n /\ routes[p].id = id
  BY <1>5, <1>7
<1>9. ASSUME ~Found(routes, id), NEW j \in 1..n, routes[j].id = id PROVE FALSE
  <2>1. ~(j < p)
    BY <1>1, <1>6, <1>9
  <2>2. p \in 1..n /\ p # j
    BY <1>5, <1>7, <1>9, <2>1
  <2>3. p < j
    BY <1>5, <2>1, <2>2
  <2>4. routes[p].id < routes[j].id
    BY <1>2, <2>2, <2>3 DEF Sorted
  <2>5. p < p
    BY <1>6, <1>9, <2>2, <2>4
  <2>6. QED
    BY <1>5, <2>5
<1>10. QED
  BY <1>3, <1>5, <1>6, <1>8, <1>9

\* symbol_id gives 64-bit ids.
LEMMA IdTypes == ASSUME NEW name \in Names PROVE Id[name] \in 0..Limit(W64) - 1 /\ Id[name] \in Nat
<1>1. Id[name] \in 0..Limit(W64) - 1
  BY RouterAssumption
<1>2. Limit(W64) \in Nat
  BY LimitType, WidthType
<1>3. QED
  BY <1>1, <1>2

\* An empty table.
LEMMA TableInit == ASSUME Init PROVE TableInv(0)
<1>1. /\ routes = [i \in {0} |-> EmptyRoute] /\ made = {} /\ deleted = [x \in Binders |-> 0]
      /\ accepted = [x \in Names |-> Null]
  BY DEF Init
<1>2. EmptyRoute \in Routes /\ EmptyRoute.state = Null
  <2>1. Limit(W64) \in Nat \ {0}
    BY LimitType, WidthType
  <2>2. 0 \in 0..Limit(W64) - 1
    BY <2>1
  <2>3. QED
    BY <2>2 DEF EmptyRoute, Routes
<1>3. 0..0 = {0} /\ 1..0 = {}
  OBVIOUS
<1>4. routes \in [0..0 -> Routes] /\ deleted \in [Binders -> Nat] /\ routes[0] = EmptyRoute
  BY <1>1, <1>2, <1>3
<1>5. IsMemory(Memory, 0) /\ Memory.at = routes /\ Memory.deleted = deleted
  BY <1>4, MemoryOf DEF Memory
<1>6. Owned(Memory, 0, made)
  <2>1. Distinct(Memory.at, 0)
    BY <1>2, <1>3, <1>4, <1>5 DEF Distinct
  <2>2. \A i \in 0..0 : Memory.at[i].state \in made \cup {Null}
    BY <1>2, <1>3, <1>4, <1>5
  <2>3. \A x \in Binders : Memory.deleted[x] =
          IF x \in made /\ (\A i \in 0..0 : Memory.at[i].state # x) THEN 1 ELSE 0
    BY <1>1, <1>5
  <2>4. QED
    BY <1>5, <2>1, <2>2, <2>3 DEF Owned
<1>7. QED
  BY <1>1, <1>2, <1>3, <1>4, <1>6 DEF TableInv, Named, Sorted

\* Only slot 0 changes when the temporary is made.
LEMMA TemporaryForm ==
  ASSUME NEW n \in Nat, NEW m, IsMemory(m, n), NEW name, NEW binder
  PROVE  \A j \in 0..n : Temporary(m, name, binder).at[j] = IF j = 0 THEN Make(name, binder) ELSE m.at[j]
<1>1. PICK at \in [0..n -> Routes], del \in [Binders -> Nat] :
        m = [at |-> at, deleted |-> del] /\ at = m.at
  BY DEF IsMemory
<1>2. PICK r : r = Make(name, binder)
  OBVIOUS
<1>3. PICK u : u = [at EXCEPT ![0] = r]
  OBVIOUS
<1>4. 0 \in 0..n /\ u[0] = r /\ \A j \in 0..n : j # 0 => u[j] = at[j]
  BY <1>3
<1>5. Temporary(m, name, binder).at = u
  BY <1>1, <1>2, <1>3 DEF Temporary
<1>6. QED
  BY <1>1, <1>2, <1>4, <1>5

\* define() makes the temporary in the router's memory.
LEMMA MakesTemporary ==
  ASSUME NEW n \in Nat, TableInv(n), NEW name \in Names, NEW binder \in Binders, binder \notin made,
         NEW t, t = Temporary(Memory, name, binder)
  PROVE  /\ Owned(t, n, made \cup {binder})
         /\ \A j \in 0..n : t.at[j] = IF j = 0 THEN Make(name, binder) ELSE routes[j]
<1>1. PICK m, bs : m = Memory /\ bs = made
  OBVIOUS
<1>2. Owned(m, n, bs) /\ m.at = routes
  BY <1>1, TableFacts
<1>3. routes[0].state = Null
  BY DEF TableInv
<1>4. m.at[0].state = Null /\ t = Temporary(m, name, binder) /\ binder \notin bs
  BY <1>1, <1>2, <1>3
<1>5. Owned(t, n, bs \cup {binder})
  BY ONLY <1>2, <1>4, n \in Nat, name \in Names, binder \in Binders, TemporaryOwned
<1>6. \A j \in 0..n : t.at[j] = IF j = 0 THEN Make(name, binder) ELSE m.at[j]
  <2>1. IsMemory(m, n)
    BY <1>2, OwnedFacts
  <2>2. QED
    BY ONLY <1>4, <2>1, n \in Nat, TemporaryForm
<1>7. QED
  BY <1>1, <1>2, <1>5, <1>6

\* define() replaces the route of its name.
LEMMA DefineReplaces ==
  ASSUME NEW n \in Nat, TableInv(n), phase # "destroyed", NEW name \in Names, NEW binder \in Binders,
         binder \notin made, NEW place \in 1..n, routes[place].id = Id[name], routes[place].name = name,
         NEW t, t = Temporary(Memory, name, binder),
         Holds(Reset(MoveAssign(t, place, 0), 0)),
         made' = made \cup {binder}, accepted' = [accepted EXCEPT ![name] = binder], phase' = phase
  PROVE  TableInv(n)'
<1>1. /\ Owned(Memory, n, made) /\ routes \in [0..n -> Routes] /\ Memory.at = routes
      /\ made \subseteq Binders /\ accepted \in [Names -> Binders \cup {Null}]
  BY TableFacts
<1>2. routes[0].state = Null
  BY DEF TableInv
<1>3. Owned(t, n, made') /\ \A j \in 0..n : t.at[j] = IF j = 0 THEN Make(name, binder) ELSE routes[j]
  <2>1. Owned(t, n, made \cup {binder})
    BY MakesTemporary
  <2>2. \A j \in 0..n : t.at[j] = IF j = 0 THEN Make(name, binder) ELSE routes[j]
    BY MakesTemporary
  <2>3. QED
    BY <2>1, <2>2
<1>4. PICK y : y = MoveAssign(t, place, 0)
  OBVIOUS
<1>5. 0 \in 0..n /\ place \in 0..n /\ place # 0
  OBVIOUS
<1>6. Owned(y, n, made')
  BY <1>3, <1>4, <1>5, MoveAssignOwned
<1>7. PICK r : r = Make(name, binder)
  OBVIOUS
<1>8. r \in Routes /\ r.id = Id[name] /\ r.name = name /\ r.state = binder
  BY <1>7, IdTypes DEF Make, Routes
<1>9. \A j \in 0..n : y.at[j] = IF j = place THEN r ELSE IF j = 0 THEN Emptied(r) ELSE routes[j]
  <2>1. IsMemory(t, n)
    BY <1>3, OwnedFacts
  <2>2. \A j \in 0..n : y.at[j] = IF j = place THEN t.at[0] ELSE IF j = 0 THEN Emptied(t.at[0]) ELSE t.at[j]
    BY ONLY <1>4, <1>5, <2>1, n \in Nat, MoveAssignForm
  <2>3. t.at[0] = r
    BY <1>3, <1>5, <1>7
  <2>4. QED
    BY <1>3, <2>2, <2>3
<1>10. y.at[0].state = Null
  BY <1>5, <1>8, <1>9, EmptiedType
<1>11. Reset(y, 0) = y /\ IsMemory(y, n)
  <2>1. IsMemory(y, n)
    BY <1>6, OwnedFacts
  <2>2. QED
    BY ONLY <1>5, <1>10, <2>1, n \in Nat, ResetForm
<1>12. Memory' = y /\ routes' = y.at
  BY <1>4, <1>11, BecomesMemory
<1>13. \A j \in 1..n : routes'[j] = IF j = place THEN r ELSE routes[j]
  BY <1>9, <1>12
<1>14. \A j \in 1..n : routes'[j].name = routes[j].name /\ routes'[j].id = routes[j].id
  BY <1>8, <1>13
<1>15. Named(routes', n) /\ Sorted(routes', n)
  BY <1>14 DEF TableInv, Named, Sorted
<1>16. ASSUME NEW i \in 1..n
       PROVE  routes'[i].state # Null /\ routes'[i].state = accepted'[routes'[i].name]
  <2>1. CASE i = place
    <3>1. routes'[i].state = binder /\ routes'[i].name = name
      BY <1>8, <1>13, <2>1
    <3>2. QED
      BY <1>1, <3>1, RouterAssumption
  <2>2. CASE i # place
    <3>1. routes[i].id # routes[place].id
      <4>1. i < place \/ place < i
        BY <2>2
      <4>2. routes[i].id < routes[place].id \/ routes[place].id < routes[i].id
        BY <4>1 DEF TableInv, Sorted
      <4>3. routes[i].id \in Nat /\ routes[place].id \in Nat
        <5>1. i \in 0..n
          OBVIOUS
        <5>2. QED
          BY <1>1, <1>5, <5>1, RouteIds
      <4>4. QED
        BY <4>2, <4>3
    <3>2. routes[i].name # name /\ routes[i].name \in Names
      BY <3>1 DEF TableInv, Named
    <3>3. routes[i].state # Null /\ routes[i].state = accepted[routes[i].name]
      BY DEF TableInv
    <3>4. QED
      BY <1>1, <1>13, <2>2, <3>2, <3>3
  <2>3. QED
    BY <2>1, <2>2
<1>17. ASSUME NEW x \in Names, accepted'[x] # Null PROVE \E i \in 1..n : routes'[i].name = x
  <2>1. CASE x = name
    BY <1>14, <2>1
  <2>2. CASE x # name
    <3>1. accepted[x] # Null
      BY <1>1, <1>17, <2>2
    <3>2. PICK i \in 1..n : routes[i].name = x
      BY <3>1 DEF TableInv
    <3>3. QED
      BY <1>14, <3>2
  <2>3. QED
    BY <2>1, <2>2
<1>18. made' \subseteq Binders /\ accepted' \in [Names -> Binders \cup {Null}] /\ routes'[0].state = Null
  BY <1>1, <1>10, <1>12
<1>19. Owned(Memory', n, made')
  BY <1>6, <1>12
<1>20. QED
  BY <1>15, <1>16, <1>17, <1>18, <1>19 DEF TableInv

\* define() inserts the route of a name whose id no route has.
LEMMA DefineInserts ==
  ASSUME NEW n \in Nat, TableInv(n), phase # "destroyed", NEW name \in Names, NEW binder \in Binders,
         binder \notin made, NEW place \in 1..n + 1,
         \A j \in 1..n : routes[j].id < Id[name] <=> j < place, \A j \in 1..n : routes[j].id # Id[name],
         NEW t, t = Temporary(Memory, name, binder),
         Holds(Reset(Insert(t, place), 0)),
         made' = made \cup {binder}, accepted' = [accepted EXCEPT ![name] = binder], phase' = phase
  PROVE  TableInv(n + 1)'
<1>1. /\ Owned(Memory, n, made) /\ routes \in [0..n -> Routes] /\ Memory.at = routes
      /\ made \subseteq Binders /\ accepted \in [Names -> Binders \cup {Null}]
  BY TableFacts
<1>2. Owned(t, n, made')
  <2>1. Owned(t, n, made \cup {binder})
    BY MakesTemporary
  <2>2. QED
    BY <2>1
<1>3. \A j \in 0..n : t.at[j] = IF j = 0 THEN Make(name, binder) ELSE routes[j]
  BY MakesTemporary
<1>4. PICK k \in Nat : k = n + 1
  OBVIOUS
<1>5. PICK y, bs : y = Insert(t, place) /\ bs = made'
  OBVIOUS
<1>6. Owned(y, k, bs)
  BY ONLY <1>2, <1>4, <1>5, n \in Nat, place \in 1..n + 1, InsertOwned
<1>7. PICK r : r = Make(name, binder)
  OBVIOUS
<1>8. r \in Routes /\ r.id = Id[name] /\ r.name = name /\ r.state = binder
  BY <1>7, IdTypes DEF Make, Routes
<1>9. 0 \in 0..n /\ 0 \in 0..k /\ place \in 1..k /\ \A j \in 1..k : j \in 0..k
  BY <1>4
<1>10. \A j \in 0..k : y.at[j] = IF j = 0 THEN Emptied(r) ELSE IF j < place THEN routes[j]
                                 ELSE IF j = place THEN r ELSE routes[j - 1]
  <2>1. IsMemory(t, n)
    BY <1>2, OwnedFacts
  <2>2. \A j \in 0..n + 1 : y.at[j] = IF j = 0 THEN Emptied(t.at[0]) ELSE IF j < place THEN t.at[j]
                                      ELSE IF j = place THEN t.at[0] ELSE t.at[j - 1]
    BY ONLY <1>5, <2>1, n \in Nat, place \in 1..n + 1, InsertForm
  <2>3. t.at[0] = r /\ \A j \in 1..n : t.at[j] = routes[j]
    BY <1>3, <1>7, <1>9
  <2>4. QED
    BY <1>4, <2>2, <2>3
<1>11. y.at[0].state = Null
  BY <1>8, <1>9, <1>10, EmptiedType
<1>12. Reset(y, 0) = y /\ IsMemory(y, k)
  <2>1. IsMemory(y, k)
    BY <1>6, OwnedFacts
  <2>2. QED
    BY ONLY <1>9, <1>11, <2>1, k \in Nat, ResetForm
<1>13. Memory' = y /\ routes' = y.at
  BY <1>5, <1>12, BecomesMemory
<1>14. \A j \in 1..k : routes'[j] = IF j < place THEN routes[j] ELSE IF j = place THEN r ELSE routes[j - 1]
  BY <1>9, <1>10, <1>13
<1>15. \A j \in 1..n : routes[j].id \in Nat
  BY <1>1, RouteIds
<1>16. /\ \A j \in 1..k : j < place => j \in 1..n
       /\ \A j \in 1..k : place < j => j - 1 \in 1..n /\ ~(j - 1 < place)
  BY <1>4
<1>17. Named(routes', k)
  <2> SUFFICES ASSUME NEW j \in 1..k PROVE routes'[j].name \in Names /\ routes'[j].id = Id[routes'[j].name]
    BY DEF Named
  <2>1. \A i \in 1..n : routes[i].name \in Names /\ routes[i].id = Id[routes[i].name]
    BY DEF TableInv, Named
  <2>2. CASE j < place
    BY <1>14, <1>16, <2>1, <2>2
  <2>3. CASE j = place
    BY <1>8, <1>14, <2>3
  <2>4. CASE place < j
    BY <1>14, <1>16, <2>1, <2>4
  <2>5. QED
    BY <2>2, <2>3, <2>4
<1>18. Sorted(routes', k)
  <2> SUFFICES ASSUME NEW i \in 1..k, NEW j \in 1..k, i < j PROVE routes'[i].id < routes'[j].id
    BY DEF Sorted
  <2>1. \A u, v \in 1..n : u < v => routes[u].id < routes[v].id
    BY DEF TableInv, Sorted
  <2>2. Id[name] \in Nat
    BY IdTypes
  <2>3. CASE j < place
    BY <1>14, <1>16, <2>1, <2>3
  <2>4. CASE j = place
    <3>1. routes'[i] = routes[i] /\ i \in 1..n /\ routes'[j] = r
      BY <1>14, <1>16, <2>4
    <3>2. routes[i].id < Id[name]
      BY <2>4, <3>1
    <3>3. QED
      BY <1>8, <3>1, <3>2
  <2>5. CASE place < j
    <3>1. j - 1 \in 1..n /\ routes'[j] = routes[j - 1] /\ ~(j - 1 < place)
      BY <1>14, <1>16, <2>5
    <3>2. Id[name] < routes[j - 1].id
      <4>1. ~(routes[j - 1].id < Id[name]) /\ routes[j - 1].id # Id[name] /\ routes[j - 1].id \in Nat
        BY <1>15, <3>1
      <4>2. QED
        BY <2>2, <4>1
    <3>3. CASE i < place
      <4>1. routes'[i] = routes[i] /\ i \in 1..n
        BY <1>14, <1>16, <3>3
      <4>2. i < j - 1
        BY <3>1, <3>3
      <4>3. QED
        BY <2>1, <3>1, <4>1, <4>2
    <3>4. CASE i = place
      <4>1. routes'[i] = r
        BY <1>14, <3>4
      <4>2. QED
        BY <1>8, <3>1, <3>2, <4>1
    <3>5. CASE place < i
      <4>1. routes'[i] = routes[i - 1] /\ i - 1 \in 1..n
        BY <1>14, <1>16, <3>5
      <4>2. i - 1 < j - 1
        OBVIOUS
      <4>3. QED
        BY <2>1, <3>1, <4>1, <4>2
    <3>6. QED
      BY <3>3, <3>4, <3>5
  <2>6. QED
    BY <2>3, <2>4, <2>5
<1>19. \A i \in 1..n : routes[i].name # name
  BY DEF TableInv, Named
<1>20. ASSUME NEW j \in 1..k
       PROVE  routes'[j].state # Null /\ routes'[j].state = accepted'[routes'[j].name]
  <2>1. ASSUME NEW i \in 1..n
        PROVE  routes[i].state # Null /\ routes[i].state = accepted'[routes[i].name]
    <3>1. routes[i].name \in Names /\ routes[i].state # Null /\ routes[i].state = accepted[routes[i].name]
      BY DEF TableInv, Named
    <3>2. QED
      BY <1>1, <1>19, <3>1
  <2>2. CASE j < place
    BY <1>14, <1>16, <2>1, <2>2
  <2>3. CASE j = place
    <3>1. routes'[j] = r
      BY <1>14, <2>3
    <3>2. QED
      BY <1>1, <1>8, <3>1, RouterAssumption
  <2>4. CASE place < j
    BY <1>14, <1>16, <2>1, <2>4
  <2>5. QED
    BY <2>2, <2>3, <2>4
<1>21. ASSUME NEW x \in Names, accepted'[x] # Null PROVE \E j \in 1..k : routes'[j].name = x
  <2>1. CASE x = name
    BY <1>8, <1>9, <1>14, <2>1
  <2>2. CASE x # name
    <3>1. accepted[x] # Null
      BY <1>1, <1>21, <2>2
    <3>2. PICK i \in 1..n : routes[i].name = x
      BY <3>1 DEF TableInv
    <3>3. CASE i < place
      <4>1. i \in 1..k
        BY <1>4
      <4>2. QED
        BY <1>14, <3>2, <3>3, <4>1
    <3>4. CASE ~(i < place)
      <4>1. i + 1 \in 1..k /\ ~(i + 1 < place) /\ i + 1 # place /\ (i + 1) - 1 = i
        BY <1>4, <3>4
      <4>2. routes'[i + 1] = routes[i]
        BY <1>14, <4>1
      <4>3. QED
        BY <3>2, <4>1, <4>2
    <3>5. QED
      BY <3>3, <3>4
  <2>3. QED
    BY <2>1, <2>2
<1>22. made' \subseteq Binders /\ accepted' \in [Names -> Binders \cup {Null}] /\ routes'[0].state = Null
  BY <1>1, <1>11, <1>13
<1>23. Owned(Memory', k, made')
  BY <1>5, <1>6, <1>13
<1>24. TableInv(k)'
  BY <1>17, <1>18, <1>20, <1>21, <1>22, <1>23 DEF TableInv
<1>25. QED
  BY <1>4, <1>24

\* A vector that cannot grow leaves the routes alone and deletes the binder.
LEMMA GrowthKeeps ==
  ASSUME NEW n \in Nat, TableInv(n), NEW name \in Names, NEW binder \in Binders,
         binder \notin made, Holds(Reset(Temporary(Memory, name, binder), 0)),
         made' = made \cup {binder}, accepted' = accepted, phase' = phase
  PROVE  TableInv(n)'
<1>1. /\ routes \in [0..n -> Routes] /\ made \subseteq Binders /\ accepted \in [Names -> Binders \cup {Null}]
  BY TableFacts
<1>2. PICK t, bs : t = Temporary(Memory, name, binder) /\ bs = made'
  OBVIOUS
<1>3. Owned(t, n, bs)
  <2>1. Owned(t, n, made \cup {binder})
    BY <1>2, MakesTemporary
  <2>2. QED
    BY <1>2, <2>1
<1>4. \A j \in 0..n : t.at[j] = IF j = 0 THEN Make(name, binder) ELSE routes[j]
  BY <1>2, MakesTemporary
<1>5. PICK y : y = Reset(t, 0)
  OBVIOUS
<1>6. 0 \in 0..n /\ IsMemory(t, n)
  BY <1>3, OwnedFacts
<1>7. Owned(y, n, bs)
  BY ONLY <1>3, <1>5, <1>6, n \in Nat, ResetOwned
<1>8. \A j \in 0..n : y.at[j] = IF j = 0 THEN Emptied(t.at[0]) ELSE t.at[j]
  BY ONLY <1>5, <1>6, n \in Nat, ResetForm
<1>9. IsMemory(y, n)
  BY <1>7, OwnedFacts
<1>10. Memory' = y /\ routes' = y.at
  BY <1>2, <1>5, <1>9, BecomesMemory
<1>11. \A j \in 1..n : routes'[j] = routes[j]
  BY <1>4, <1>8, <1>10
<1>12. routes'[0].state = Null
  <2>1. t.at[0] \in Routes
    BY <1>3, <1>6, OwnedFacts
  <2>2. QED
    BY <1>6, <1>8, <1>10, <2>1, EmptiedType
<1>13. Named(routes', n) /\ Sorted(routes', n)
  BY <1>11 DEF TableInv, Named, Sorted
<1>14. phase' # "destroyed" =>
         \A i \in 1..n : routes'[i].state # Null /\ routes'[i].state = accepted'[routes'[i].name]
  BY <1>11 DEF TableInv
<1>15. \A x \in Names : accepted'[x] # Null => \E i \in 1..n : routes'[i].name = x
  BY <1>11 DEF TableInv
<1>16. made' \subseteq Binders /\ accepted' \in [Names -> Binders \cup {Null}] /\ Owned(Memory', n, made')
  BY <1>1, <1>2, <1>7, <1>10
<1>17. QED
  BY <1>12, <1>13, <1>14, <1>15, <1>16 DEF TableInv

\* The end of the router empties every route.
LEMMA DestroyKeeps ==
  ASSUME NEW n \in Nat, TableInv(n), Destroy
  PROVE  TableInv(n)'
<1>1. /\ Owned(Memory, n, made) /\ routes \in [0..n -> Routes] /\ Memory.at = routes
      /\ made \subseteq Binders /\ accepted \in [Names -> Binders \cup {Null}]
  BY TableFacts
<1>2. PICK m, y : m = Memory /\ y = Cleared(m)
  OBVIOUS
<1>3. Owned(m, n, made) /\ m.at[0].state = Null
  BY <1>1, <1>2 DEF TableInv
<1>4. Owned(y, n, made)
  BY ONLY <1>2, <1>3, n \in Nat, ClearedOwned
<1>5. \A j \in 0..n : y.at[j] = IF j \in 1..n THEN Emptied(m.at[j]) ELSE m.at[j]
  BY ONLY <1>2, <1>3, n \in Nat, ClearedOwned
<1>6. IsMemory(y, n) /\ 0 \in 0..n /\ \A j \in 1..n : j \in 0..n
  BY <1>4, OwnedFacts
<1>7. Memory' = y /\ routes' = y.at
  BY <1>2, <1>6, BecomesMemory DEF Destroy
<1>8. \A j \in 1..n : routes'[j] = Emptied(routes[j]) /\ routes[j] \in Routes
  BY <1>1, <1>2, <1>5, <1>6, <1>7
<1>9. \A j \in 1..n : routes'[j].name = routes[j].name /\ routes'[j].id = routes[j].id
  BY <1>8, EmptiedType
<1>10. routes'[0].state = Null
  BY <1>2, <1>3, <1>5, <1>6, <1>7
<1>11. made' = made /\ accepted' = accepted /\ phase' = "destroyed"
  BY DEF Destroy
<1>12. Named(routes', n) /\ Sorted(routes', n)
  BY <1>9 DEF TableInv, Named, Sorted
<1>13. \A x \in Names : accepted'[x] # Null => \E i \in 1..n : routes'[i].name = x
  BY <1>9, <1>11 DEF TableInv
<1>14. made' \subseteq Binders /\ accepted' \in [Names -> Binders \cup {Null}] /\ Owned(Memory', n, made')
  BY <1>1, <1>4, <1>7, <1>11
<1>15. QED
  BY <1>10, <1>11, <1>12, <1>13, <1>14 DEF TableInv

\* define() keeps the invariant, with a route more or without.
LEMMA DefineKeeps ==
  ASSUME NEW n \in Nat, TableInv(n), NEW name \in Names, NEW binder \in Binders, Define(name, binder)
  PROVE  TableInv(n)' \/ TableInv(n + 1)'
<1>1. PICK place, id, t : place = LowerBound(routes, id) /\ id = Id[name] /\ t = Temporary(Memory, name, binder)
  OBVIOUS
<1>2. /\ phase = "define" /\ binder \notin made /\ made' = made \cup {binder}
      /\ accepted' = [accepted EXCEPT ![name] = binder] /\ phase' = phase
  BY DEF Define
<1>3. Found(routes, id) => routes[place].name = name
  BY <1>1 DEF Define, MayReplace
<1>4. Holds(Reset(IF Found(routes, id) THEN MoveAssign(t, place, 0) ELSE Insert(t, place), 0))
  BY <1>1 DEF Define, Temporary
<1>5. id \in 0..Limit(W64) - 1
  BY <1>1, IdTypes
<1>6. CASE Found(routes, id)
  <2>1. place \in 1..n /\ routes[place].id = id
    BY <1>1, <1>5, <1>6, PlaceOf
  <2>2. Holds(Reset(MoveAssign(t, place, 0), 0))
    BY <1>4, <1>6
  <2>3. QED
    BY <1>1, <1>2, <1>3, <1>6, <2>1, <2>2, DefineReplaces
<1>7. CASE ~Found(routes, id)
  <2>1. place \in 1..n + 1
    BY <1>1, <1>5, PlaceOf
  <2>2. \A j \in 1..n : routes[j].id < Id[name] <=> j < place
    BY <1>1, <1>5, PlaceOf
  <2>3. \A j \in 1..n : routes[j].id # Id[name]
    BY <1>1, <1>5, <1>7, PlaceOf
  <2>4. Holds(Reset(Insert(t, place), 0))
    BY <1>4, <1>7
  <2>5. QED
    BY <1>1, <1>2, <2>1, <2>2, <2>3, <2>4, DefineInserts
<1>8. QED
  BY <1>6, <1>7

\* What leaves the table and its history alone.
LEMMA TableStays ==
  ASSUME NEW n \in Nat, TableInv(n), UNCHANGED table, phase' = phase \/ phase # "destroyed"
  PROVE  TableInv(n)'
<1>1. routes' = routes /\ made' = made /\ deleted' = deleted /\ accepted' = accepted
  BY DEF table
<1>2. Memory' = Memory
  BY <1>1 DEF Memory
<1>3. phase' # "destroyed" => phase # "destroyed"
  OBVIOUS
<1>4. QED
  BY <1>1, <1>2, <1>3 DEF TableInv

\* Every step keeps it.
LEMMA TableNext ==
  ASSUME NEW n \in Nat, TableInv(n), [Next]_vars
  PROVE  \E k \in Nat : TableInv(k)'
<1>1. ASSUME NEW name \in Names, NEW binder \in Binders, Define(name, binder) PROVE \E k \in Nat : TableInv(k)'
  <2>1. TableInv(n)' \/ TableInv(n + 1)'
    BY <1>1, DefineKeeps
  <2>2. n + 1 \in Nat
    OBVIOUS
  <2>3. QED
    BY <2>1, <2>2
<1>2. ASSUME NEW name \in Names, NEW binder \in Binders, GrowthFails(name, binder) PROVE TableInv(n)'
  BY <1>2, GrowthKeeps DEF GrowthFails, Temporary
<1>3. ASSUME Destroy PROVE TableInv(n)'
  BY <1>3, DestroyKeeps
<1>4. ASSUME UNCHANGED <<phase, table>> PROVE TableInv(n)'
  BY <1>4, TableStays
<1>5. ASSUME Serve PROVE TableInv(n)'
  BY <1>5, TableStays DEF Serve
<1>6. ASSUME NEW name \in Names, DefineCollides(name) PROVE UNCHANGED <<phase, table>>
  BY <1>6 DEF DefineCollides
<1>7. ASSUME NEW name \in Names, NEW import \in Imports, Call(name, import) PROVE UNCHANGED <<phase, table>>
  BY <1>7 DEF Call
<1>8. ASSUME Damage \/ RefuseFrame \/ RefuseMethod \/ RefuseArguments PROVE UNCHANGED <<phase, table>>
  BY <1>8 DEF Damage, RefuseFrame, RefuseMethod, RefuseArguments, Refuse, Answers
<1>9. ASSUME HandlerReturns \/ HandlerThrows PROVE UNCHANGED <<phase, table>>
  BY <1>9 DEF HandlerReturns, HandlerThrows, Invoke, Answers
<1>10. ASSUME Receive \/ CallEnds \/ Destroyed \/ UNCHANGED vars PROVE UNCHANGED <<phase, table>>
  BY <1>10 DEF Receive, CallEnds, Destroyed, vars
<1>11. QED
  BY <1>1, <1>2, <1>3, <1>4, <1>5, <1>6, <1>7, <1>8, <1>9, <1>10 DEF Next

\* The invariant gives every binder one owner or one deletion.
LEMMA TableOwns ==
  ASSUME NEW n \in Nat, TableInv(n)
  PROVE  BindersOwned
<1>1. /\ Owned(Memory, n, made) /\ routes \in [0..n -> Routes] /\ Memory.at = routes
      /\ Memory.deleted = deleted /\ made \subseteq Binders
  BY TableFacts
<1>2. \A i, j \in 0..n : routes[i].state = routes[j].state /\ routes[i].state # Null => i = j
  BY <1>1, OwnedFacts
<1>3. ASSUME NEW x \in made
      PROVE  deleted[x] + Cardinality({i \in DOMAIN routes : routes[i].state = x}) = 1
  <2>1. deleted[x] = IF \A i \in 0..n : routes[i].state # x THEN 1 ELSE 0
    BY <1>1, OwnedFacts
  <2>2. x # Null
    BY <1>1, RouterAssumption
  <2>3. PICK S : S = {i \in DOMAIN routes : routes[i].state = x}
    OBVIOUS
  <2>4. S = {i \in 0..n : routes[i].state = x}
    BY <1>1, <2>3
  <2>5. CASE \A i \in 0..n : routes[i].state # x
    <3>1. S = {}
      BY <2>4, <2>5
    <3>2. Cardinality(S) = 0
      BY <3>1, FS_EmptySet
    <3>3. QED
      BY <2>1, <2>3, <2>5, <3>2
  <2>6. CASE \E i \in 0..n : routes[i].state = x
    <3>1. PICK i \in 0..n : routes[i].state = x
      BY <2>6
    <3>2. S = {i}
      BY <1>2, <2>2, <2>4, <3>1
    <3>3. Cardinality(S) = 1
      BY <3>2, FS_Singleton
    <3>4. QED
      BY <2>1, <2>3, <2>6, <3>3
  <2>7. QED
    BY <2>5, <2>6
<1>4. QED
  BY <1>3 DEF BindersOwned

Table == \E n \in Nat : TableInv(n)

\* The invariant of the table.
LEMMA TableInvariant == Spec => []Table
<1>1. Init => Table
  BY TableInit DEF Table
<1>2. Table /\ [Next]_vars => Table'
  BY TableNext DEF Table
<1>3. QED
  BY <1>1, <1>2, PTL DEF Spec

\* Every binder has one owner, whatever define(), its failures and the router's end do.
THEOREM OneOwner == Spec => []BindersOwned
<1>1. Table => BindersOwned
  BY TableOwns DEF Table
<1>2. QED
  BY <1>1, TableInvariant, PTL

-----------------------------------------------------------------------------
(* The converters.                                                          *)

\* Euclidean division of integers: the quotient and the remainder are unique.
LEMMA IntDivUnique ==
  ASSUME NEW m \in Nat \ {0}, NEW x \in Int, NEW u \in 0..m - 1,
         NEW y \in Int, NEW v \in 0..m - 1, m * x + u = m * y + v
  PROVE  u = v
<1>1. ASSUME NEW p \in Int, NEW q \in Int, p < q PROVE m * p + m <= m * q
  <2>1. PICK w \in Nat : w = q - p - 1
    BY <1>1
  <2>2. m * w \in Nat
    BY MulMonotonic
  <2>3. q = p + 1 + w
    BY <2>1
  <2>4. m * q = m * p + m + m * w
    BY <2>3
  <2>5. m * p \in Int
    OBVIOUS
  <2>6. QED
    BY <2>2, <2>4, <2>5
<1>2. m * x \in Int /\ m * y \in Int
  OBVIOUS
<1>3. ~(x < y)
  BY <1>1, <1>2
<1>4. ~(y < x)
  BY <1>1, <1>2
<1>5. x = y
  BY <1>3, <1>4
<1>6. QED
  BY <1>2, <1>5

\* Quotient and remainder of an integer.
LEMMA IntMod ==
  ASSUME NEW m \in Nat \ {0}, NEW x \in Int
  PROVE  x % m \in 0..m - 1 /\ x \div m \in Int /\ x = m * (x \div m) + (x % m)
  OBVIOUS

\* What a remainder is.
LEMMA ModOf ==
  ASSUME NEW m \in Nat \ {0}, NEW x \in 0..m - 1
  PROVE  x % m = x /\ (x - m) % m = x
<1>1. x % m = x
  <2>1. PICK u, y : u = x % m /\ y = x \div m
    OBVIOUS
  <2>2. x \in Int
    OBVIOUS
  <2>3. u \in 0..m - 1 /\ y \in Int /\ x = m * y + u
    BY <2>1, <2>2, IntMod
  <2>4. x = m * 0 + x /\ 0 \in Int
    OBVIOUS
  <2>5. QED
    BY <2>1, <2>3, <2>4, IntDivUnique
<1>2. (x - m) % m = x
  <2>1. PICK z \in Int : z = x - m
    OBVIOUS
  <2>2. PICK u, y : u = z % m /\ y = z \div m
    OBVIOUS
  <2>3. u \in 0..m - 1 /\ y \in Int /\ z = m * y + u
    BY <2>2, IntMod
  <2>4. z = m * (-1) + x /\ -1 \in Int
    BY <2>1
  <2>5. u = x
    BY ONLY <2>3, <2>4, m \in Nat \ {0}, x \in 0..m - 1, IntDivUnique
  <2>6. QED
    BY <2>1, <2>2, <2>5
<1>3. QED
  BY <1>1, <1>2

\* More bytes hold more.
LEMMA PowerMonotone ==
  ASSUME NEW v \in Nat, NEW w \in Nat, v <= w
  PROVE  Power[v] <= Power[w]
<1> DEFINE T == {k \in Nat : Power[v] <= Power[v + k]}
<1>1. \A k \in Nat : Power[v + k] \in Nat /\ v + k \in Nat
  BY PowerEquation
<1>2. 0 \in T
  <2>1. v + 0 = v /\ Power[v] \in Nat
    BY PowerEquation
  <2>2. QED
    BY <2>1
<1>3. ASSUME NEW k \in Nat, k \in T PROVE k + 1 \in T
  <2>1. PICK p \in Nat : p = Power[v + k]
    BY <1>1
  <2>2. Power[v + (k + 1)] = Base * p
    <3>1. v + (k + 1) = (v + k) + 1
      OBVIOUS
    <3>2. QED
      BY <1>1, <2>1, <3>1, PowerEquation
  <2>3. p * 1 <= p * Base
    <3>1. 1 \in Nat /\ Base \in Nat /\ 1 <= Base
      BY WidthType
    <3>2. QED
      BY <3>1, MulMonotonic
  <2>4. p * 1 = p /\ p * Base = Base * p /\ Base * p \in Nat
    BY WidthType
  <2>5. Power[v] <= p /\ Power[v] \in Nat
    BY <1>3, <2>1, PowerEquation
  <2>6. QED
    BY <2>2, <2>3, <2>4, <2>5
<1>4. w - v \in Nat /\ v + (w - v) = w
  OBVIOUS
<1>5. PICK q \in Nat : q = w - v
  BY <1>4
<1>6. \A k \in 0..q - 1 : k \in T => k + 1 \in T
  BY <1>3
<1> HIDE DEF T
<1>7. \A k \in 0..q : k \in T
  BY <1>2, <1>6, Induction
<1>8. q \in T
  BY <1>7
<1>9. QED
  BY <1>4, <1>5, <1>8 DEF T

\* A 64-bit integer holds a 32-bit one, and either holds a message's length.
LEMMA Limits ==
  /\ Limit(W32) \in Nat \ {0} /\ Limit(W64) \in Nat \ {0}
  /\ Limit(W32) > 6 /\ Limit(W32) <= Limit(W64)
<1>1. W32 \in Nat /\ W64 \in Nat /\ Base \in Nat /\ Base > 6 /\ 1 <= W32 /\ W32 <= W64
  BY CodecAssumption, RouterAssumption
<1>2. Limit(W32) \in Nat \ {0} /\ Limit(W64) \in Nat \ {0}
  BY <1>1, LimitType
<1>3. Power[1] = Base
  <2>1. Power[0 + 1] = Base * Power[0] /\ Power[0] = 1
    BY PowerEquation
  <2>2. 0 + 1 = 1 /\ Base * 1 = Base
    BY <1>1
  <2>3. QED
    BY <2>1, <2>2
<1>4. Power[1] <= Power[W32]
  BY <1>1, PowerMonotone
<1>5. Power[W32] <= Power[W64]
  BY <1>1, PowerMonotone
<1>6. QED
  BY <1>1, <1>2, <1>3, <1>4, <1>5 DEF Limit

\* Every message of dispatch() fits a frame.
LEMMA MessageTypes ==
  ASSUME NEW message \in {InvalidFrame, UnknownMethod, Mismatched, UnknownFailure, Unsendable, Thrown}
  PROVE  message \in Seq(Byte) /\ Writable(Len(message))
<1>1. PICK k \in 1..6 : message = <<k>>
  BY DEF InvalidFrame, UnknownMethod, Mismatched, UnknownFailure, Unsendable, Thrown
<1>2. k \in Byte
  BY WidthType DEF Byte
<1>3. message \in Seq(Byte) /\ Len(message) = 1
  BY <1>1, <1>2
<1>4. QED
  BY <1>3, Limits DEF Writable

\* static_cast keeps an integer that the 32-bit type holds.
LEMMA NarrowedKeeps ==
  ASSUME NEW x \in Int, IntRange(x)
  PROVE  Narrowed(x) = x
<1>1. PICK l \in Nat \ {0}, half \in Int : l = Limit(W32) /\ half = l \div 2
  BY Limits
<1>2. half \in Nat /\ 2 * half <= l /\ l <= 2 * half + 1
  BY <1>1
<1>3. -l <= 2 * x /\ 2 * x < l
  BY <1>1 DEF IntRange
<1>4. x + half \in 0..l - 1
  BY <1>2, <1>3
<1>5. (x + half) % l = x + half
  BY <1>4, ModOf
<1>6. Narrowed(x) = ((x + half) % l) - half
  BY <1>1 DEF Narrowed
<1>7. QED
  BY <1>2, <1>5, <1>6

\* From the bits of a signed integer and back.
LEMMA SignedBits ==
  ASSUME NEW bits \in 0..Limit(W64) - 1
  PROVE  AsSigned(bits) \in Int /\ Bits(AsSigned(bits)) = bits
<1>1. PICK l \in Nat \ {0} : l = Limit(W64)
  BY Limits
<1>2. bits % l = bits /\ (bits - l) % l = bits
  BY <1>1, ModOf
<1>3. QED
  BY <1>1, <1>2 DEF AsSigned, Bits

\* From a signed integer to its bits and back.
LEMMA BitsSigned ==
  ASSUME NEW x \in Int, IntRange(x)
  PROVE  Bits(x) \in 0..Limit(W64) - 1 /\ AsSigned(Bits(x)) = x
<1>1. PICK l \in Nat \ {0}, s \in Nat : l = Limit(W64) /\ s = Limit(W32) /\ s <= l
  BY Limits
<1>2. -s <= 2 * x /\ 2 * x < s
  BY <1>1 DEF IntRange
<1>3. CASE 0 <= x
  <2>1. x \in 0..l - 1
    BY <1>1, <1>2, <1>3
  <2>2. x % l = x
    BY <2>1, ModOf
  <2>3. 2 * x < l
    BY <1>1, <1>2
  <2>4. QED
    BY <1>1, <2>1, <2>2, <2>3 DEF Bits, AsSigned
<1>4. CASE x < 0
  <2>1. PICK y \in 0..l - 1 : x = y - l
    <3>1. x + l \in 0..l - 1 /\ x = (x + l) - l
      BY <1>1, <1>2, <1>4
    <3>2. QED
      BY <3>1
  <2>2. (y - l) % l = y
    BY ModOf
  <2>3. ~(2 * y < l)
    BY <1>1, <1>2, <2>1
  <2>4. QED
    BY <1>1, <2>1, <2>2, <2>3 DEF Bits, AsSigned
<1>5. QED
  BY <1>3, <1>4

\* The kind of each type.
LEMMA KindOfForms ==
  /\ KindOf["int"] = signed_integer /\ KindOf["unsigned"] = unsigned_integer /\ KindOf["double"] = real
  /\ KindOf["bool"] = boolean /\ KindOf["string"] = string
  BY DEF KindOf

\* The parts of a number.
LEMMA NumberFields ==
  ASSUME NEW kind, NEW bits
  PROVE  /\ Number(kind, bits).kind = kind /\ Number(kind, bits).bits = bits
         /\ Number(kind, bits).text = <<>>
  BY DEF Number

\* The values of each kind.
LEMMA ValueForms ==
  ASSUME NEW v, IsValue(v)
  PROVE  /\ v.kind \in Numbers => v = Number(v.kind, v.bits) /\ v.bits \in 0..Limit(W64) - 1
         /\ v.kind = boolean => v = Number(boolean, v.bits) /\ v.bits \in {0, 1}
         /\ v.kind = string => v = String(v.text) /\ v.text \in Seq(Byte)
<1>1. CASE v \in {Undefined, Boolean(0), Boolean(1)}
  BY <1>1 DEF Undefined, Boolean, Number, Numbers, undefined, boolean, string, signed_integer,
       unsigned_integer, real
<1>2. CASE \E kind \in Numbers : v = Number(kind, v.bits) /\ v.bits \in 0..Limit(W64) - 1
  <2>1. PICK kind \in Numbers : v = Number(kind, v.bits) /\ v.bits \in 0..Limit(W64) - 1
    BY <1>2
  <2>2. v.kind = kind
    BY <2>1, NumberFields
  <2>3. kind # boolean /\ kind # string
    BY DEF Numbers, boolean, string, signed_integer, unsigned_integer, real
  <2>4. QED
    BY <2>1, <2>2, <2>3
<1>3. CASE v = String(v.text) /\ v.text \in Seq(Byte)
  <2>1. v.kind = string
    BY <1>3 DEF String
  <2>2. string \notin Numbers /\ string # boolean
    BY DEF Numbers, boolean, string, signed_integer, unsigned_integer, real
  <2>3. QED
    BY <1>3, <2>1, <2>2
<1>4. QED
  BY <1>1, <1>2, <1>3 DEF IsValue

\* A wire value that a type accepts is what To makes of what From makes of it.
LEMMA ToFrom ==
  ASSUME NEW type \in Types, NEW v, IsValue(v), Convertible(type, v)
  PROVE  To(type, From(type, v)) = v
<1>1. CASE type = "int"
  <2>1. v.kind = signed_integer /\ IntRange(AsSigned(v.bits))
    BY <1>1, KindOfForms DEF Convertible
  <2>2. v = Number(signed_integer, v.bits) /\ v.bits \in 0..Limit(W64) - 1
    BY <2>1, ValueForms DEF Numbers
  <2>3. PICK x \in Int : x = AsSigned(v.bits) /\ Bits(x) = v.bits
    BY <2>2, SignedBits
  <2>4. Narrowed(x) = x
    BY <2>1, <2>3, NarrowedKeeps
  <2>5. From(type, v) = x
    BY <1>1, <2>3, <2>4 DEF From
  <2>6. QED
    BY <1>1, <2>2, <2>3, <2>5 DEF To
<1>2. CASE type = "unsigned"
  <2>1. v.kind = unsigned_integer /\ v.bits < Limit(W32)
    BY <1>2, KindOfForms DEF Convertible
  <2>2. v = Number(unsigned_integer, v.bits) /\ v.bits \in 0..Limit(W64) - 1
    BY <2>1, ValueForms DEF Numbers
  <2>3. PICK l \in Nat \ {0}, x \in Nat : l = Limit(W32) /\ x = v.bits /\ x < l
    BY <2>1, <2>2, Limits
  <2>4. x % l = x
    BY <2>3, ModOf
  <2>5. From(type, v) = x
    BY <1>2, <2>3, <2>4 DEF From
  <2>6. QED
    BY <1>2, <2>2, <2>3, <2>5 DEF To
<1>3. CASE type = "double"
  <2>1. v.kind = real
    BY <1>3, KindOfForms DEF Convertible
  <2>2. v = Number(real, v.bits)
    BY <2>1, ValueForms DEF Numbers
  <2>3. From(type, v) = v.bits
    BY <1>3 DEF From
  <2>4. QED
    BY <1>3, <2>2, <2>3 DEF To
<1>4. CASE type = "bool"
  <2>1. v.kind = boolean
    BY <1>4, KindOfForms DEF Convertible
  <2>2. v = Number(boolean, v.bits) /\ v.bits \in {0, 1}
    BY <2>1, ValueForms
  <2>3. From(type, v) = (v.bits = 1)
    BY <1>4 DEF From
  <2>4. To(type, From(type, v)) = Boolean(IF From(type, v) THEN 1 ELSE 0)
    BY <1>4 DEF To
  <2>5. CASE v.bits = 1
    <3>1. From(type, v) = TRUE
      BY <2>3, <2>5
    <3>2. To(type, From(type, v)) = Boolean(1)
      BY <2>4, <3>1
    <3>3. Boolean(1) = Number(boolean, 1)
      BY DEF Boolean
    <3>4. QED
      BY <2>2, <2>5, <3>2, <3>3
  <2>6. CASE v.bits = 0
    <3>1. From(type, v) = FALSE
      <4>1. ~(v.bits = 1)
        BY <2>6
      <4>2. (v.bits = 1) = FALSE
        BY ONLY <4>1
      <4>3. QED
        BY ONLY <2>3, <4>2
    <3>2. To(type, From(type, v)) = Boolean(0)
      BY <2>4, <3>1
    <3>3. Boolean(0) = Number(boolean, 0)
      BY DEF Boolean
    <3>4. QED
      BY <2>2, <2>6, <3>2, <3>3
  <2>7. QED
    BY <2>2, <2>5, <2>6
<1>5. CASE type = "string"
  <2>1. v.kind = string
    BY <1>5, KindOfForms DEF Convertible
  <2>2. v = String(v.text)
    BY <2>1, ValueForms
  <2>3. From(type, v) = v.text
    BY <1>5 DEF From
  <2>4. QED
    BY <1>5, <2>2, <2>3 DEF To
<1>6. QED
  BY <1>1, <1>2, <1>3, <1>4, <1>5 DEF Types

\* A C++ value is what From makes of what To makes of it.
LEMMA FromTo ==
  ASSUME NEW type, NEW x, Holdable(type, x)
  PROVE  IsValue(To(type, x)) /\ Convertible(type, To(type, x)) /\ From(type, To(type, x)) = x
<1>1. PICK v : v = To(type, x)
  OBVIOUS
<1>2. CASE type = "int" /\ x \in Int /\ IntRange(x)
  <2>1. Bits(x) \in 0..Limit(W64) - 1 /\ AsSigned(Bits(x)) = x /\ Narrowed(x) = x
    BY <1>2, BitsSigned, NarrowedKeeps
  <2>2. v = Number(signed_integer, Bits(x))
    BY <1>1, <1>2 DEF To
  <2>3. v.kind = signed_integer /\ v.bits = Bits(x)
    BY <2>2, NumberFields
  <2>4. IsValue(v)
    BY <2>1, <2>2, <2>3 DEF IsValue, Numbers
  <2>5. Convertible(type, v)
    BY <1>2, <2>1, <2>3, KindOfForms DEF Convertible
  <2>6. From(type, v) = x
    BY <1>2, <2>1, <2>3 DEF From
  <2>7. QED
    BY <1>1, <2>4, <2>5, <2>6
<1>3. CASE type = "unsigned" /\ x \in 0..Limit(W32) - 1
  <2>1. PICK l \in Nat \ {0}, k \in Nat : l = Limit(W32) /\ k = Limit(W64) /\ l <= k
    BY Limits
  <2>2. x \in 0..k - 1 /\ x < l /\ x % l = x
    BY <1>3, <2>1, ModOf
  <2>3. v = Number(unsigned_integer, x)
    BY <1>1, <1>3 DEF To
  <2>4. v.kind = unsigned_integer /\ v.bits = x
    BY <2>3, NumberFields
  <2>5. IsValue(v)
    BY <2>1, <2>2, <2>3, <2>4 DEF IsValue, Numbers
  <2>6. Convertible(type, v)
    BY <1>3, <2>1, <2>2, <2>4, KindOfForms DEF Convertible
  <2>7. From(type, v) = x
    BY <1>3, <2>1, <2>2, <2>4 DEF From
  <2>8. QED
    BY <1>1, <2>5, <2>6, <2>7
<1>4. CASE type = "double" /\ x \in 0..Limit(W64) - 1
  <2>1. v = Number(real, x)
    BY <1>1, <1>4 DEF To
  <2>2. v.kind = real /\ v.bits = x
    BY <2>1, NumberFields
  <2>3. IsValue(v)
    BY <1>4, <2>1, <2>2 DEF IsValue, Numbers
  <2>4. Convertible(type, v)
    BY <1>4, <2>2, KindOfForms DEF Convertible
  <2>5. From(type, v) = x
    BY <1>4, <2>2 DEF From
  <2>6. QED
    BY <1>1, <2>3, <2>4, <2>5
<1>5. CASE type = "bool" /\ x \in BOOLEAN
  <2>1. CASE x = TRUE
    <3>1. v = Boolean(1)
      BY <1>1, <1>5, <2>1 DEF To
    <3>2. v.kind = boolean /\ v.bits = 1
      BY <3>1 DEF Boolean, Number
    <3>3. IsValue(v) /\ Convertible(type, v)
      BY <1>5, <3>1, <3>2, KindOfForms DEF IsValue, Convertible
    <3>4. From(type, v) = (v.bits = 1)
      BY <1>5 DEF From
    <3>5. From(type, v) = TRUE
      BY <3>2, <3>4
    <3>6. QED
      BY <1>1, <2>1, <3>3, <3>5
  <2>2. CASE x = FALSE
    <3>1. v = Boolean(0)
      BY <1>1, <1>5, <2>2 DEF To
    <3>2. v.kind = boolean /\ v.bits = 0
      BY <3>1 DEF Boolean, Number
    <3>3. IsValue(v) /\ Convertible(type, v)
      BY <1>5, <3>1, <3>2, KindOfForms DEF IsValue, Convertible
    <3>4. From(type, v) = (v.bits = 1)
      BY <1>5 DEF From
    <3>5. From(type, v) = FALSE
      <4>1. ~(v.bits = 1)
        BY <3>2
      <4>2. (v.bits = 1) = FALSE
        BY ONLY <4>1
      <4>3. QED
        BY ONLY <3>4, <4>2
    <3>6. QED
      BY <1>1, <2>2, <3>3, <3>5
  <2>3. QED
    BY <1>5, <2>1, <2>2
<1>6. CASE type = "string" /\ x \in Seq(Byte)
  <2>1. v = String(x)
    BY <1>1, <1>6 DEF To
  <2>2. v.kind = string /\ v.text = x
    BY <2>1 DEF String
  <2>3. IsValue(v)
    BY <1>6, <2>1, <2>2 DEF IsValue
  <2>4. Convertible(type, v)
    BY <1>6, <2>2, KindOfForms DEF Convertible
  <2>5. From(type, v) = x
    BY <1>6, <2>2 DEF From
  <2>6. QED
    BY <1>1, <2>3, <2>4, <2>5
<1>7. QED
  BY <1>2, <1>3, <1>4, <1>5, <1>6 DEF Holdable

-----------------------------------------------------------------------------
(* The call.                                                                *)

\* What a client sends decodes to what it sent.
LEMMA SentDecodes ==
  ASSUME NEW name \in Names, NEW import \in Imports, NEW args, args = import.args
  PROVE  /\ args \in Seq(Wire) /\ \A i \in 1..Len(args) : IsValue(args[i])
         /\ EncodeRequest(Id[name], args) \in Seq(Byte) /\ EncodeRequest(Id[name], args) # <<>>
         /\ TryDecodeRequest(EncodeRequest(Id[name], args)) =
              [status |-> "ok", method |-> Id[name], args |-> args]
<1>1. PICK id \in 0..Limit(W64) - 1 : id = Id[name]
  BY IdTypes
<1>2. /\ args \in Seq(Range(args)) /\ Writable(Len(args))
      /\ \A i \in 1..Len(args) : IsValue(args[i]) /\ Writable(Len(args[i].text))
  BY RouterAssumption
<1>3. args \in Seq(Wire)
  <2>1. PICK n \in Nat : n = Len(args)
    BY <1>2, LenProperties
  <2>2. args \in [1..n -> Range(args)]
    BY <1>2, <2>1, LenProperties
  <2>3. \A i \in 1..n : args[i] \in Wire
    BY <1>2, <2>1, WireValue
  <2>4. args \in [1..n -> Wire]
    BY <2>2, <2>3
  <2>5. QED
    BY <2>4, SeqDef
<1>4. PICK bs : bs = EncodeRequest(id, args)
  OBVIOUS
<1>5. bs \in Seq(Byte)
  BY <1>2, <1>3, <1>4, RequestParts
<1>6. TryDecodeRequest(bs) = [status |-> "ok", method |-> id, args |-> args]
  BY <1>2, <1>3, <1>4, RequestArrives
<1>7. bs # <<>>
  <2>1. Len(bs) = (W32 + 1 + W64 + W32) + Len(Body(args))
    BY <1>2, <1>3, <1>4, RequestParts
  <2>2. Len(Body(args)) \in Nat
    BY <1>2, <1>3, RequestParts, LenProperties
  <2>3. Len(bs) > 0
    BY <2>1, <2>2, WidthType
  <2>4. Len(<<>>) = 0
    OBVIOUS
  <2>5. QED
    BY <2>3, <2>4
<1>8. QED
  BY <1>1, <1>2, <1>3, <1>4, <1>5, <1>6, <1>7

\* The request under way decodes to the call, unless the transport damaged it.
LEMMA RequestIs ==
  ASSUME CallInv, stage = "request"
  PROVE  /\ Request.status = "ok" => ~damaged /\ Request.method = Id[call.name] /\ Request.args = call.args
         /\ Request.status # "ok" => damaged
<1>1. PICK import \in Imports : call.args = import.args
  BY DEF CallInv
<1>2. call.name \in Names
  BY DEF CallInv
<1>3. Sent \in Seq(Byte) /\ TryDecodeRequest(Sent) = [status |-> "ok", method |-> Id[call.name], args |-> call.args]
  BY <1>1, <1>2, SentDecodes DEF Sent
<1>4. CASE damaged
  <2>1. frame \in Seq(Byte) /\ Begins(frame, Sent) /\ Len(frame) # Len(Sent)
    BY <1>4 DEF CallInv
  <2>2. Request.status # "ok"
    <3>1. TryDecodeRequest(Sent) # Malformed
      BY <1>3 DEF Malformed
    <3>2. QED
      BY <1>3, <2>1, <3>1, RequestBegins DEF Request
  <2>3. QED
    BY <1>4, <2>2
<1>5. CASE ~damaged
  <2>1. frame = Sent
    BY <1>5 DEF CallInv
  <2>2. Request = [status |-> "ok", method |-> Id[call.name], args |-> call.args]
    BY <1>3, <2>1 DEF Request
  <2>3. QED
    BY <1>5, <2>2
<1>6. QED
  BY <1>4, <1>5

\* The route of an id has the binder that define() accepted last for its name.
LEMMA RouteServes ==
  ASSUME NEW n \in Nat, TableInv(n), phase # "destroyed", NEW name \in Names
  PROVE  /\ Found(routes, Id[name]) =>
              /\ routes[LowerBound(routes, Id[name])].state \in Binders
              /\ accepted[name] # Null => routes[LowerBound(routes, Id[name])].state = accepted[name]
         /\ ~Found(routes, Id[name]) => accepted[name] = Null
<1>1. PICK id \in 0..Limit(W64) - 1 : id = Id[name]
  BY IdTypes
<1>2. routes \in [0..n -> Routes]
  BY TableFacts
<1>3. \A j \in 1..n : routes[j].id \in Nat
  BY <1>1, PlaceOf
<1>4. \A j \in 1..n : routes[j].name = name => routes[j].id = id
  BY <1>1 DEF TableInv, Named
<1>5. CASE Found(routes, id)
  <2>1. PICK p \in 1..n : p = LowerBound(routes, id) /\ routes[p].id = id
    BY <1>5, PlaceOf
  <2>2. routes[p].state # Null /\ routes[p].state = accepted[routes[p].name]
    BY DEF TableInv
  <2>3. routes[p].state \in Binders
    <3>1. p \in 0..n
      OBVIOUS
    <3>2. routes[p] \in Routes
      BY <1>2, <3>1
    <3>3. QED
      BY <2>2, <3>2 DEF Routes
  <2>4. ASSUME accepted[name] # Null PROVE routes[p].state = accepted[name]
    <3>1. PICK i \in 1..n : routes[i].name = name
      BY <2>4 DEF TableInv
    <3>2. routes[i].id = routes[p].id
      BY <1>4, <2>1, <3>1
    <3>3. \A j, k \in 1..n : j < k => routes[j].id < routes[k].id
      BY DEF TableInv, Sorted
    <3>4. ~(i < p) /\ ~(p < i)
      BY <1>3, <3>2, <3>3
    <3>5. i = p
      BY <3>4
    <3>6. QED
      BY <2>2, <3>1, <3>5
  <2>5. QED
    BY <1>1, <1>5, <2>1, <2>3, <2>4
<1>6. CASE ~Found(routes, id)
  <2>1. \A j \in 1..n : routes[j].id # id
    BY <1>6, PlaceOf
  <2>2. accepted[name] = Null
    BY <1>4, <2>1 DEF TableInv
  <2>3. QED
    BY <1>1, <1>6, <2>2
<1>7. QED
  BY <1>5, <1>6

\* No call at first.
LEMMA CallInit == ASSUME Init PROVE CallInv
  BY DEF Init, CallInv

\* What leaves the call alone.
LEMMA CallStays ==
  ASSUME CallInv, NoCall, stage # "idle" => phase' = phase /\ accepted' = accepted
  PROVE  CallInv'
<1>1. /\ stage' = stage /\ call' = call /\ frame' = frame /\ damaged' = damaged
      /\ ran' = ran /\ outcome' = outcome
  BY DEF NoCall
<1>2. CASE stage = "idle"
  BY <1>1, <1>2 DEF CallInv
<1>3. CASE stage # "idle"
  <2>1. phase' = phase /\ accepted' = accepted
    BY <1>3
  <2>2. Sent' = Sent /\ (Refused' <=> Refused) /\ (Served' <=> Served)
    BY <1>1, <2>1 DEF Sent, Refused, Served
  <2>3. Outcome(TryDecodeResponse(frame))' = Outcome(TryDecodeResponse(frame))
    BY <1>1 DEF Outcome
  <2>4. QED
    BY <1>1, <2>1, <2>2, <2>3 DEF CallInv
<1>4. QED
  BY <1>2, <1>3

\* A call starts with its request intact.
LEMMA CallKeeps ==
  ASSUME CallInv, NEW name \in Names, NEW import \in Imports, Call(name, import)
  PROVE  CallInv'
<1>1. /\ phase = "serve" /\ phase' = phase /\ stage = "idle" /\ stage' = "request"
      /\ call' = [name |-> name, result |-> import.result, args |-> import.args]
      /\ frame' = EncodeRequest(Id[name], import.args)
      /\ damaged' = damaged /\ ran' = ran /\ outcome' = outcome
  BY DEF Call, Idle
<1>2. call'.name = name /\ call'.result = import.result /\ call'.args = import.args
  BY <1>1
<1>3. frame' = Sent'
  BY <1>1, <1>2 DEF Sent
<1>4. ~damaged /\ ran = Null /\ outcome = Null
  BY <1>1 DEF CallInv
<1>5. QED
  BY <1>1, <1>2, <1>3, <1>4 DEF CallInv

\* A damaged request is a proper beginning of the one that was sent.
LEMMA DamageKeeps ==
  ASSUME CallInv, Damage
  PROVE  CallInv'
<1>1. /\ stage = "request" /\ ~damaged /\ damaged' = TRUE /\ frame' = Front(frame)
      /\ phase' = phase /\ stage' = stage /\ call' = call /\ ran' = ran /\ outcome' = outcome
  BY DEF Damage, InTransit
<1>2. frame = Sent /\ Sent' = Sent
  BY <1>1 DEF CallInv, Sent
<1>3. Sent \in Seq(Byte) /\ Sent # <<>>
  <2>1. PICK import \in Imports : call.args = import.args
    BY <1>1 DEF CallInv
  <2>2. call.name \in Names
    BY <1>1 DEF CallInv
  <2>3. QED
    BY <2>1, <2>2, SentDecodes DEF Sent
<1>4. PICK s : s = Sent
  OBVIOUS
<1>5. s \in Seq(Byte) /\ s # <<>>
  BY <1>3, <1>4
<1>6. PICK u : u = Front(s)
  OBVIOUS
<1>7. u \in Seq(Byte) /\ Len(s) > 0 /\ Len(u) = Len(s) - 1 /\ \A i \in 1..Len(s) - 1 : u[i] = s[i]
  BY <1>5, <1>6, FrontOf
<1>8. Len(s) \in Nat
  BY <1>5, LenProperties
<1>9. Begins(u, s) /\ Len(u) # Len(s)
  BY <1>7, <1>8 DEF Begins
<1>10. frame' \in Seq(Byte) /\ Begins(frame', Sent') /\ Len(frame') # Len(Sent')
  BY <1>1, <1>2, <1>4, <1>6, <1>7, <1>9
<1>11. QED
  BY <1>1, <1>10 DEF CallInv

\* dispatch() refuses for one of three reasons.
LEMMA RefuseKeeps ==
  ASSUME CallInv, NEW message, Refuse(message),
         \/ damaged /\ message = InvalidFrame
         \/ message = UnknownMethod /\ accepted[call.name] = Null
         \/ /\ message = Mismatched
            /\ accepted[call.name] # Null => ~Matches(accepted[call.name], call.args)
  PROVE  CallInv'
<1>1. /\ stage = "request" /\ stage' = "response" /\ frame' = EncodeError(message)
      /\ ran' = [binder |-> Null, args |-> <<>>, reply |-> message]
      /\ phase' = phase /\ accepted' = accepted /\ call' = call /\ damaged' = damaged /\ outcome' = outcome
  BY DEF Refuse, Answers, InTransit, table
<1>2. ran'.binder = Null /\ ran'.reply = message
  BY <1>1
<1>3. Refused'
  BY <1>1, <1>2 DEF Refused
<1>4. QED
  BY <1>1, <1>3 DEF CallInv

\* A handler runs.
LEMMA InvokeKeeps ==
  ASSUME NEW n \in Nat, TableInv(n), CallInv, NEW reply, NEW bs, Invoke(reply, bs),
         Reply(Route.state, reply, bs)
  PROVE  CallInv'
<1>1. /\ stage = "request" /\ stage' = "response" /\ frame' = bs
      /\ Request.status = "ok" /\ Found(routes, Request.method) /\ Matches(Route.state, Request.args)
      /\ ran' = [binder |-> Route.state, reply |-> reply,
                 args |-> [i \in DOMAIN Request.args |->
                             From(Signature[Route.state].args[i], Request.args[i])]]
      /\ phase' = phase /\ accepted' = accepted /\ call' = call /\ damaged' = damaged /\ outcome' = outcome
  BY DEF Invoke, Answers, InTransit, table
<1>2. ~damaged /\ Request.method = Id[call.name] /\ Request.args = call.args
  BY <1>1, RequestIs
<1>3. call.name \in Names /\ phase = "serve"
  BY <1>1 DEF CallInv
<1>4. PICK x : x = Route.state
  OBVIOUS
<1>5. x \in Binders /\ (accepted[call.name] # Null => x = accepted[call.name])
  BY <1>1, <1>2, <1>3, <1>4, RouteServes DEF Route
<1>6. ran' = [binder |-> x, reply |-> reply,
              args |-> [i \in DOMAIN call.args |-> From(Signature[x].args[i], call.args[i])]]
  BY <1>1, <1>2, <1>4
<1>7. /\ ran'.binder = x /\ ran'.reply = reply
      /\ ran'.args = [i \in DOMAIN call.args |-> From(Signature[x].args[i], call.args[i])]
  BY <1>6
<1>8. Served'
  <2>1. ran'.binder \in Binders /\ (accepted'[call'.name] # Null => ran'.binder = accepted'[call'.name])
    BY <1>1, <1>5, <1>7
  <2>2. Matches(x, call.args)
    BY <1>1, <1>2, <1>4
  <2>3. Matches(ran'.binder, call'.args)
    BY <1>1, <1>7, <2>2
  <2>4. Reply(ran'.binder, ran'.reply, frame')
    BY <1>1, <1>4, <1>7
  <2>5. ran'.args = [i \in DOMAIN call'.args |-> From(Signature[ran'.binder].args[i], call'.args[i])]
    BY <1>1, <1>7
  <2>6. QED
    BY <2>1, <2>3, <2>4, <2>5 DEF Served
<1>9. QED
  BY <1>1, <1>8 DEF CallInv

\* The client decodes what was answered.
LEMMA ReceiveKeeps == ASSUME CallInv, Receive PROVE CallInv'
<1>1. /\ stage = "response" /\ stage' = "done" /\ outcome' = Outcome(TryDecodeResponse(frame))
      /\ phase' = phase /\ accepted' = accepted /\ call' = call /\ frame' = frame
      /\ damaged' = damaged /\ ran' = ran
  BY DEF Receive, table
<1>2. (Refused' <=> Refused) /\ (Served' <=> Served)
  BY <1>1 DEF Refused, Served
<1>3. Outcome(TryDecodeResponse(frame))' = Outcome(TryDecodeResponse(frame))
  BY <1>1 DEF Outcome
<1>4. QED
  BY <1>1, <1>2, <1>3 DEF CallInv

\* The next call starts afresh.
LEMMA CallEndsKeeps == ASSUME CallInv, CallEnds PROVE CallInv'
  BY DEF CallInv, CallEnds

\* A handler that returns or throws is answered as Reply says.
LEMMA HandlerKeeps ==
  ASSUME NEW n \in Nat, TableInv(n), CallInv, HandlerReturns \/ HandlerThrows
  PROVE  CallInv'
<1>1. CASE HandlerThrows
  <2>1. PICK message \in {Thrown, UnknownFailure} : Invoke(message, EncodeError(message))
    BY <1>1 DEF HandlerThrows
  <2>2. Reply(Route.state, message, EncodeError(message))
    BY DEF Reply
  <2>3. QED
    BY <2>1, <2>2, InvokeKeeps
<1>2. CASE HandlerReturns
  <2>1. stage = "request" /\ Request.status = "ok" /\ Found(routes, Request.method)
    BY <1>2 DEF HandlerReturns, InTransit
  <2>2. Route.state \in Binders
    <3>1. Request.method = Id[call.name] /\ call.name \in Names /\ phase = "serve"
      BY <2>1, RequestIs DEF CallInv
    <3>2. QED
      BY <2>1, <3>1, RouteServes DEF Route
  <2>3. PICK type : type = Signature[Route.state].result
    OBVIOUS
  <2>4. type \in (DOMAIN Returns) \cup {"void"}
    BY <2>2, <2>3, RouterAssumption
  <2>5. CASE type = "void"
    <3>1. Invoke(<<>>, EncodeResponse(Undefined))
      BY <1>2, <2>3, <2>5 DEF HandlerReturns
    <3>2. Reply(Route.state, <<>>, EncodeResponse(Undefined))
      BY <2>3, <2>5 DEF Reply
    <3>3. QED
      BY <3>1, <3>2, InvokeKeeps
  <2>6. CASE type # "void"
    <3>1. PICK x \in Returns[type] :
            LET v == To(type, x) IN
            Invoke(x, IF Writable(Len(v.text)) THEN EncodeResponse(v) ELSE EncodeError(Unsendable))
      BY <1>2, <2>3, <2>6 DEF HandlerReturns
    <3>2. PICK bs : bs = IF Writable(Len(To(type, x).text)) THEN EncodeResponse(To(type, x))
                         ELSE EncodeError(Unsendable)
      OBVIOUS
    <3>3. Invoke(x, bs)
      BY <3>1, <3>2
    <3>4. type \in DOMAIN Returns /\ Holdable(type, x)
      BY <2>4, <2>6, RouterAssumption
    <3>5. Reply(Route.state, x, bs)
      BY <2>3, <3>2, <3>4 DEF Reply
    <3>6. QED
      BY <3>3, <3>5, InvokeKeeps
  <2>7. QED
    BY <2>5, <2>6
<1>3. QED
  BY <1>1, <1>2

\* Every step keeps the invariant of the call.
LEMMA CallNext ==
  ASSUME NEW n \in Nat, TableInv(n), CallInv, [Next]_vars
  PROVE  CallInv'
<1>1. phase = "define" => stage = "idle"
  BY DEF CallInv
<1>2. ASSUME NEW name \in Names, NEW binder \in Binders, Define(name, binder) \/ GrowthFails(name, binder)
      PROVE  CallInv'
  BY <1>1, <1>2, CallStays DEF Define, GrowthFails
<1>3. ASSUME NEW name \in Names, DefineCollides(name) PROVE CallInv'
  BY <1>1, <1>3, CallStays DEF DefineCollides
<1>4. ASSUME Serve PROVE CallInv'
  BY <1>1, <1>4, CallStays DEF Serve
<1>5. ASSUME Destroy PROVE CallInv'
  BY <1>5, CallStays DEF Destroy, Idle
<1>6. ASSUME NEW name \in Names, NEW import \in Imports, Call(name, import) PROVE CallInv'
  BY <1>6, CallKeeps
<1>7. ASSUME Damage PROVE CallInv'
  BY <1>7, DamageKeeps
<1>8. ASSUME RefuseFrame PROVE CallInv'
  <2>1. Refuse(InvalidFrame) /\ stage = "request" /\ Request.status # "ok"
    BY <1>8 DEF RefuseFrame, Refuse, InTransit
  <2>2. damaged
    BY <2>1, RequestIs
  <2>3. QED
    BY <2>1, <2>2, RefuseKeeps
<1>9. ASSUME RefuseMethod PROVE CallInv'
  <2>1. Refuse(UnknownMethod) /\ stage = "request" /\ Request.status = "ok" /\ ~Found(routes, Request.method)
    BY <1>9 DEF RefuseMethod, Refuse, InTransit
  <2>2. Request.method = Id[call.name] /\ call.name \in Names /\ phase = "serve"
    BY <2>1, RequestIs DEF CallInv
  <2>3. accepted[call.name] = Null
    BY <2>1, <2>2, RouteServes
  <2>4. QED
    BY <2>1, <2>3, RefuseKeeps
<1>10. ASSUME RefuseArguments PROVE CallInv'
  <2>1. /\ Refuse(Mismatched) /\ stage = "request" /\ Request.status = "ok" /\ Found(routes, Request.method)
        /\ ~Matches(Route.state, Request.args)
    BY <1>10 DEF RefuseArguments, Refuse, InTransit
  <2>2. Request.method = Id[call.name] /\ Request.args = call.args /\ call.name \in Names /\ phase = "serve"
    BY <2>1, RequestIs DEF CallInv
  <2>3. accepted[call.name] # Null => Route.state = accepted[call.name]
    BY <2>1, <2>2, RouteServes DEF Route
  <2>4. accepted[call.name] # Null => ~Matches(accepted[call.name], call.args)
    BY <2>1, <2>2, <2>3
  <2>5. QED
    BY <2>1, <2>4, RefuseKeeps
<1>11. ASSUME HandlerReturns \/ HandlerThrows PROVE CallInv'
  BY <1>11, HandlerKeeps
<1>12. ASSUME Receive PROVE CallInv'
  BY <1>12, ReceiveKeeps
<1>13. ASSUME CallEnds PROVE CallInv'
  BY <1>13, CallEndsKeeps
<1>14. ASSUME Destroyed \/ UNCHANGED vars PROVE CallInv'
  BY <1>14, CallStays DEF Destroyed, vars, table, NoCall
<1>15. QED
  BY <1>2, <1>3, <1>4, <1>5, <1>6, <1>7, <1>8, <1>9, <1>10, <1>11, <1>12, <1>13, <1>14 DEF Next

\* The invariant of the call.
LEMMA CallInvariant == Spec => []CallInv
<1>1. Init => CallInv
  BY CallInit
<1>2. Table /\ CallInv /\ [Next]_vars => CallInv'
  BY CallNext DEF Table
<1>3. QED
  BY <1>1, <1>2, TableInvariant, PTL DEF Spec

\* A request for a defined name runs the binder that was defined for it last, or is
\* refused because that binder does not take its arguments: whatever the ids, the
\* order of the definitions, the replacements and the failures between them.
THEOREM LastDefinedServes == Spec => []ServesLastDefined
<1>1. CallInv => ServesLastDefined
  BY DEF CallInv, ServesLastDefined, Refused, Served
<1>2. QED
  BY <1>1, CallInvariant, PTL

\* The handler's arguments stand for the client's wire values.
LEMMA ArgumentsFaithful ==
  ASSUME CallInv, ran # Null, ran.binder # Null, NEW i \in DOMAIN ran.args
  PROVE  To(Signature[ran.binder].args[i], ran.args[i]) = call.args[i]
<1>1. stage \in {"response", "done"}
  BY DEF CallInv
<1>2. Served
  BY <1>1 DEF CallInv, Refused
<1>3. PICK binder \in Binders : binder = ran.binder
  BY <1>2 DEF Served
<1>4. PICK import \in Imports : call.args = import.args
  BY <1>1 DEF CallInv
<1>5. call.name \in Names
  BY <1>1 DEF CallInv
<1>6. PICK args \in Seq(Wire) : args = call.args /\ \A j \in 1..Len(args) : IsValue(args[j])
  BY <1>4, <1>5, SentDecodes
<1>7. DOMAIN args = 1..Len(args)
  BY <1>6, LenProperties
<1>8. ran.args = [j \in DOMAIN args |-> From(Signature[binder].args[j], args[j])]
  BY <1>2, <1>3, <1>6 DEF Served
<1>9. i \in 1..Len(args)
  BY <1>7, <1>8
<1>10. Len(args) = Len(Signature[binder].args) /\ \A j \in DOMAIN args : Convertible(Signature[binder].args[j], args[j])
  BY <1>2, <1>3, <1>6 DEF Served, Matches
<1>11. PICK types \in Seq(Types) : types = Signature[binder].args
  BY RouterAssumption
<1>12. PICK type \in Types : type = types[i]
  BY <1>9, <1>10, <1>11, ElementOfSeq
<1>13. Convertible(type, args[i]) /\ IsValue(args[i])
  BY <1>6, <1>7, <1>9, <1>10, <1>11, <1>12
<1>14. To(type, From(type, args[i])) = args[i]
  BY <1>13, ToFrom
<1>15. ran.args[i] = From(type, args[i])
  BY <1>7, <1>8, <1>9, <1>11, <1>12
<1>16. QED
  BY <1>3, <1>6, <1>11, <1>12, <1>14, <1>15

\* An error arrives as a remote error.
LEMMA ErrorOutcome ==
  ASSUME NEW message \in {InvalidFrame, UnknownMethod, Mismatched, UnknownFailure, Unsendable, Thrown}
  PROVE  Outcome(TryDecodeResponse(EncodeError(message))) = [status |-> "remote_error", error |-> message]
<1>1. message \in Seq(Byte) /\ Writable(Len(message))
  BY MessageTypes
<1>2. PICK r : r = TryDecodeResponse(EncodeError(message))
  OBVIOUS
<1>3. r = [status |-> "remote_error", error |-> message]
  BY <1>1, <1>2, ErrorArrives
<1>4. r.status = "remote_error"
  BY <1>3
<1>5. Outcome(r) = r
  BY <1>4 DEF Outcome
<1>6. QED
  BY <1>2, <1>3, <1>5

\* A value arrives and is converted to the type the client asked for.
LEMMA ValueOutcome ==
  ASSUME NEW v, IsValue(v), Writable(Len(v.text))
  PROVE  Outcome(TryDecodeResponse(EncodeResponse(v))) =
           IF call.result = "void" THEN [status |-> "returned"]
           ELSE IF ~Convertible(call.result, v) THEN [status |-> "bad_conversion"]
           ELSE [status |-> "value", value |-> From(call.result, v)]
<1>1. PICK r : r = TryDecodeResponse(EncodeResponse(v))
  OBVIOUS
<1>2. r = [status |-> "ok", result |-> v]
  BY <1>1, ResponseArrives
<1>3. r.status = "ok" /\ r.result = v
  BY <1>2
<1>4. QED
  BY <1>1, <1>3 DEF Outcome

\* What CallFaithful asks of an outcome.
Faithful(out) ==
  /\ out.status # "protocol_error"
  /\ out.status = "remote_error" => out.error \in {ran.reply, Unsendable}
  /\ out.status = "value" /\ Signature[ran.binder].result = call.result => out.value = ran.reply
  /\ out.status = "bad_conversion" => Signature[ran.binder].result # call.result

\* A remote error is faithful when its text is.
LEMMA ErrorFaithful ==
  ASSUME NEW message, message \in {ran.reply, Unsendable}
  PROVE  Faithful([status |-> "remote_error", error |-> message])
  BY DEF Faithful

\* A value is faithful when a client that asks for its type gets it back.
LEMMA ValueFaithful ==
  ASSUME NEW v, Signature[ran.binder].result = call.result /\ call.result # "void" =>
                  Convertible(call.result, v) /\ From(call.result, v) = ran.reply
  PROVE  Faithful(IF call.result = "void" THEN [status |-> "returned"]
                  ELSE IF ~Convertible(call.result, v) THEN [status |-> "bad_conversion"]
                  ELSE [status |-> "value", value |-> From(call.result, v)])
<1>1. CASE call.result = "void"
  BY <1>1 DEF Faithful
<1>2. CASE call.result # "void" /\ ~Convertible(call.result, v)
  BY <1>2 DEF Faithful
<1>3. CASE call.result # "void" /\ Convertible(call.result, v)
  BY <1>3 DEF Faithful
<1>4. QED
  BY <1>1, <1>2, <1>3

\* Every outcome is faithful.
LEMMA OutcomeFaithful ==
  ASSUME CallInv, outcome # Null
  PROVE  Faithful(outcome)
<1>1. outcome = Outcome(TryDecodeResponse(frame)) /\ (Refused \/ Served)
  BY DEF CallInv
<1>2. CASE Refused
  <2>1. ran.reply \in {InvalidFrame, UnknownMethod, Mismatched} /\ frame = EncodeError(ran.reply)
    BY <1>2 DEF Refused
  <2>2. outcome = [status |-> "remote_error", error |-> ran.reply]
    BY <1>1, <2>1, ErrorOutcome
  <2>3. QED
    BY <2>2, ErrorFaithful
<1>3. CASE Served
  <2>1. PICK type : type = Signature[ran.binder].result
    OBVIOUS
  <2>2. CASE \E message \in {Thrown, UnknownFailure} : frame = EncodeError(message) /\ ran.reply = message
    <3>1. PICK message \in {Thrown, UnknownFailure} : frame = EncodeError(message) /\ ran.reply = message
      BY <2>2
    <3>2. outcome = [status |-> "remote_error", error |-> message]
      BY <1>1, <3>1, ErrorOutcome
    <3>3. QED
      BY <3>1, <3>2, ErrorFaithful
  <2>3. CASE type = "void" /\ frame = EncodeResponse(Undefined)
    <3>1. IsValue(Undefined) /\ Undefined.text = <<>>
      BY NumberFields DEF IsValue, Undefined
    <3>2. Writable(Len(Undefined.text))
      BY <3>1, EmptyWritable
    <3>3. PICK v : v = Undefined
      OBVIOUS
    <3>4. outcome = IF call.result = "void" THEN [status |-> "returned"]
                    ELSE IF ~Convertible(call.result, v) THEN [status |-> "bad_conversion"]
                    ELSE [status |-> "value", value |-> From(call.result, v)]
      BY <1>1, <2>3, <3>1, <3>2, <3>3, ValueOutcome
    <3>5. QED
      BY <2>1, <2>3, <3>4, ValueFaithful
  <2>4. CASE /\ type \in DOMAIN Returns /\ Holdable(type, ran.reply)
             /\ LET v == To(type, ran.reply) IN
                frame = IF Writable(Len(v.text)) THEN EncodeResponse(v) ELSE EncodeError(Unsendable)
    <3>1. PICK v : v = To(type, ran.reply)
      OBVIOUS
    <3>2. frame = IF Writable(Len(v.text)) THEN EncodeResponse(v) ELSE EncodeError(Unsendable)
      BY <2>4, <3>1
    <3>3. IsValue(v) /\ Convertible(type, v) /\ From(type, v) = ran.reply
      BY <2>4, <3>1, FromTo
    <3>4. CASE Writable(Len(v.text))
      <4>1. frame = EncodeResponse(v)
        BY <3>2, <3>4
      <4>2. outcome = IF call.result = "void" THEN [status |-> "returned"]
                      ELSE IF ~Convertible(call.result, v) THEN [status |-> "bad_conversion"]
                      ELSE [status |-> "value", value |-> From(call.result, v)]
        BY <1>1, <3>3, <3>4, <4>1, ValueOutcome
      <4>3. QED
        BY <2>1, <3>3, <4>2, ValueFaithful
    <3>5. CASE ~Writable(Len(v.text))
      <4>1. frame = EncodeError(Unsendable)
        BY <3>2, <3>5
      <4>2. outcome = [status |-> "remote_error", error |-> Unsendable]
        BY <1>1, <4>1, ErrorOutcome
      <4>3. QED
        BY <4>2, ErrorFaithful
    <3>6. QED
      BY <3>4, <3>5
  <2>5. QED
    BY <1>3, <2>1, <2>2, <2>3, <2>4 DEF Served, Reply
<1>4. QED
  BY <1>1, <1>2, <1>3

\* A call means the same at both ends, for every width of the integers, every table of
\* routes, every signature and every value: a handler's arguments stand for the
\* client's, and the outcome is the handler's.
THEOREM FaithfulCalls == Spec => []CallFaithful
<1>1. CallInv => CallFaithful
  <2> SUFFICES ASSUME CallInv PROVE CallFaithful
    OBVIOUS
  <2>1. ran # Null /\ ran.binder # Null =>
          \A i \in DOMAIN ran.args : To(Signature[ran.binder].args[i], ran.args[i]) = call.args[i]
    BY ArgumentsFaithful
  <2>2. outcome # Null => Faithful(outcome)
    BY OutcomeFaithful
  <2>3. QED
    BY <2>1, <2>2 DEF CallFaithful, Faithful
<1>2. QED
  BY <1>1, CallInvariant, PTL
=============================================================================
