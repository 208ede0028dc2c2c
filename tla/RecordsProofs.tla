--------------------------- MODULE RecordsProofs ---------------------------
(***************************************************************************)
(* What is proved of Records for every base, every set of records and      *)
(* every number of calls of Put: that the n-th record read is the n-th put,*)
(* that a reader which ends has read them all, and that after a failed Put *)
(* a clean end of the stream hides no byte of a record.                    *)
(*                                                                         *)
(* First the varint codec (the least counterexample stands for induction   *)
(* on the number and on the position), then what a reader finds at the end *)
(* of a record, then the invariant RecordsInv: the records put before the  *)
(* first failure lie in the pipe one after the other, the reader stands at *)
(* the end of one of them, or past the length of an empty record whose Put *)
(* has not returned.  Last the invariant ShortInv: what is in the pipe     *)
(* from where a Put failed, and where a reader that goes on past it stands.*)
(***************************************************************************)
EXTENDS Records, SequenceTheorems, WellFoundedInduction, TLAPS

\* A set of numbers that is not empty has a least one: what follows about the
\* recursive definitions of Records is shown by the least counterexample.
LEMMA Least ==
  ASSUME NEW T \in SUBSET Nat, T # {}
  PROVE  \E m \in T : \A n \in T : m <= n
<1> DEFINE R == OpToRel(<, Nat)
<1>1. IsWellFoundedOn(R, Nat)
  BY NatLessThanWellFounded
<1>2. \A x, y \in Nat : y < x => <<y, x>> \in R
  BY DEF OpToRel
<1> HIDE DEF R
<1>3. PICK m \in T : \A n \in T : ~(<<n, m>> \in R)
  BY <1>1, WFMin
<1>4. \A n \in T : ~(n < m)
  BY <1>2, <1>3
<1>5. \A n \in T : n \in Nat /\ m \in Nat /\ (~(n < m) => m <= n)
  BY T \in SUBSET Nat
<1> QED BY <1>4, <1>5

\* One digit and what is left, which is smaller.
LEMMA Division ==
  ASSUME NEW n \in Nat
  PROVE  /\ n \div Base \in Nat /\ n % Base \in 0 .. (Base - 1)
         /\ n = Base * (n \div Base) + (n % Base)
         /\ n >= Base => n \div Base < n
<1>1. Base \in Nat /\ Base > 1
  BY BaseAssumption
<1>2. /\ n \div Base \in Nat /\ n % Base \in 0 .. (Base - 1)
      /\ n = Base * (n \div Base) + (n % Base)
  BY <1>1
<1>3. ASSUME NEW q \in Nat, NEW r \in Nat, NEW b \in Nat, b > 1, n = b * q + r, n >= b
      PROVE  q < n
  <2>1. q = 0 => q < n
    BY <1>3
  <2>2. q > 0 => b * q >= 2 * q
    BY <1>3
  <2> QED BY <1>3, <2>1, <2>2
<1> QED BY <1>1, <1>2, <1>3

Digits(g, n) == IF n < Base THEN <<n>> ELSE <<Base + (n % Base)>> \o g[n \div Base]

UpTo(N, g) ==
  /\ g \in [0 .. N -> Seq(Nat)]
  /\ \A n \in 0 .. N : g[n] = Digits(g, n)

\* The recursive definition of Uvarint has the value its equation asks for.
LEMMA UvarintDef == Uvarint = [n \in Nat |-> Digits(Uvarint, n)]
<1>1. ASSUME NEW N \in Nat, NEW M \in Nat, NEW g, NEW h, UpTo(N, g), UpTo(M, h),
             NEW k \in Nat, k <= N, k <= M
      PROVE  g[k] = h[k]
  <2> DEFINE T == {n \in 0 .. k : g[n] # h[n]}
  <2>1. SUFFICES ASSUME T # {} PROVE FALSE
    OBVIOUS
  <2>2. PICK m \in T : \A n \in T : m <= n
    <3>1. T \in SUBSET Nat
      OBVIOUS
    <3> HIDE DEF T
    <3> QED BY <2>1, <3>1, Least
  <2>3. m \in 0 .. N /\ m \in 0 .. M /\ m \in Nat
    BY <1>1
  <2>4. m >= Base => m \div Base \in 0 .. k /\ m \div Base < m
    BY <2>3, Division
  <2>5. m >= Base => g[m \div Base] = h[m \div Base]
    BY <2>2, <2>3, <2>4
  <2>6. g[m] = Digits(g, m) /\ h[m] = Digits(h, m)
    BY <1>1, <2>3 DEF UpTo
  <2>7. Digits(g, m) = Digits(h, m)
    BY <2>3, <2>5, BaseAssumption DEF Digits
  <2> QED BY <2>6, <2>7
<1>2. ASSUME NEW N \in Nat PROVE \E g : UpTo(N, g)
  <2> DEFINE T == {n \in Nat : ~\E g : UpTo(n, g)}
  <2>1. SUFFICES ASSUME T # {} PROVE FALSE
    OBVIOUS
  <2>2. PICK m \in T : \A n \in T : m <= n
    BY <2>1, Least
  <2>3. \E h : h \in [0 .. (m - 1) -> Seq(Nat)] /\ \A n \in 0 .. (m - 1) : h[n] = Digits(h, n)
    <3>1. CASE m = 0
      <4> DEFINE h == [n \in 0 .. (m - 1) |-> <<0>>]
      <4>1. 0 .. (m - 1) = {}
        BY <3>1
      <4>2. h \in [0 .. (m - 1) -> Seq(Nat)] /\ \A n \in 0 .. (m - 1) : h[n] = Digits(h, n)
        BY <4>1
      <4> QED BY <4>2
    <3>2. CASE m # 0
      <4>1. m - 1 \in Nat /\ m - 1 \notin T
        BY <2>2, <3>2
      <4> QED BY <4>1 DEF UpTo
    <3> QED BY <3>1, <3>2
  <2>4. PICK h : h \in [0 .. (m - 1) -> Seq(Nat)] /\ \A n \in 0 .. (m - 1) : h[n] = Digits(h, n)
    BY <2>3
  <2> DEFINE g == [n \in 0 .. m |-> Digits(h, n)]
  <2>5. \A n \in 0 .. m : n >= Base => n \div Base \in 0 .. (m - 1)
    BY Division
  <2>6. ASSUME NEW n \in 0 .. m PROVE Digits(h, n) \in Seq(Nat)
    <3>1. CASE n < Base
      BY <3>1 DEF Digits
    <3>2. CASE ~(n < Base)
      <4>1. h[n \div Base] \in Seq(Nat)
        <5>1. n >= Base
          BY <3>2, BaseAssumption
        <5>2. n \div Base \in 0 .. (m - 1)
          BY <2>5, <5>1
        <5> QED BY <2>4, <5>2
      <4>2. <<Base + (n % Base)>> \in Seq(Nat)
        BY Division, BaseAssumption
      <4>3. Digits(h, n) = <<Base + (n % Base)>> \o h[n \div Base]
        BY <3>2, Zenon DEF Digits
      <4> QED BY <4>1, <4>2, <4>3
    <3> QED BY <3>1, <3>2
  <2>7. \A n \in 0 .. (m - 1) : g[n] = h[n]
    BY <2>4
  <2>8. \A n \in 0 .. m : Digits(h, n) = Digits(g, n)
    <3> HIDE DEF g
    <3> SUFFICES ASSUME NEW n \in 0 .. m PROVE Digits(h, n) = Digits(g, n)
      OBVIOUS
    <3>1. CASE n < Base
      BY <3>1, Zenon DEF Digits
    <3>2. CASE ~(n < Base)
      <4>1. n >= Base
        BY <3>2, BaseAssumption
      <4>2. g[n \div Base] = h[n \div Base]
        BY <2>5, <2>7, <4>1, Zenon
      <4> QED BY <4>2, Zenon DEF Digits
    <3> QED BY <3>1, <3>2
  <2>9. UpTo(m, g)
    BY <2>6, <2>8 DEF UpTo
  <2> QED BY <2>9
<1> DEFINE G(n) == CHOOSE g : UpTo(n, g)
           F == [n \in Nat |-> G(n)[n]]
<1>3. \A n \in Nat : UpTo(n, G(n))
  BY <1>2
<1>4. ASSUME NEW n \in Nat PROVE F[n] = Digits(F, n)
  <2>1. F[n] = G(n)[n] /\ G(n)[n] = Digits(G(n), n)
    <3>1. F[n] = G(n)[n]
      OBVIOUS
    <3> HIDE DEF G, F
    <3> QED BY <1>3, <3>1 DEF UpTo
  <2>2. n >= Base => n \div Base \in Nat /\ n \div Base <= n /\ n \div Base <= n \div Base
    BY Division
  <2>3. n >= Base => F[n \div Base] = G(n \div Base)[n \div Base]
    BY <2>2
  <2>4. n >= Base => F[n \div Base] = G(n)[n \div Base]
    <3> HIDE DEF G, F
    <3> QED BY <1>1, <1>3, <2>2, <2>3
  <2>5. Digits(G(n), n) = Digits(F, n)
    <3> HIDE DEF G, F
    <3> QED BY <2>4, BaseAssumption DEF Digits
  <2> QED BY <2>1, <2>5
<1>5. F = [n \in Nat |-> Digits(F, n)]
  <2>1. DOMAIN F = Nat /\ F = [n \in Nat |-> F[n]]
    OBVIOUS
  <2> HIDE DEF F
  <2> QED BY <1>4, <2>1
<1>6. \E f : f = [n \in Nat |-> Digits(f, n)]
  <2> HIDE DEF F
  <2> QED BY <1>5, Zenon
<1>7. Uvarint = CHOOSE f : f = [n \in Nat |-> Digits(f, n)]
  BY DEF Uvarint, Digits
<1> QED BY <1>6, <1>7, Zenon

Weighs(s, f) ==
  \A i \in 1 .. Len(s) + 1 : f[i] = IF i > Len(s) THEN 0 ELSE (s[i] % Base) + Base * f[i + 1]

\* A digit and the rest of a number make a number.
LEMMA Digit == ASSUME NEW b \in Nat, NEW v \in Nat PROVE (b % Base) + Base * v \in Nat
<1>1. Base \in Nat /\ b % Base \in Nat
  BY BaseAssumption
<1> QED BY <1>1

\* The recursive function in Value has a value.
LEMMA WeightExists ==
  ASSUME NEW s \in Seq(Nat)
  PROVE  \E f \in [1 .. Len(s) + 1 -> Nat] : Weighs(s, f)
<1> DEFINE L == Len(s)
           From(k, f) == /\ f \in [L + 1 - k .. L + 1 -> Nat]
                         /\ \A i \in L + 1 - k .. L + 1 :
                              f[i] = IF i > L THEN 0 ELSE (s[i] % Base) + Base * f[i + 1]
           T == {k \in 0 .. L : ~\E f : From(k, f)}
<1>0. L \in Nat
  OBVIOUS
<1>1. SUFFICES T = {}
  <2>1. L \in 0 .. L /\ L + 1 - L = 1
    BY <1>0
  <2>2. \E f : From(L, f)
    BY <1>1, <2>1
  <2> QED BY <2>1, <2>2 DEF Weighs
<1>2. SUFFICES ASSUME T # {} PROVE FALSE
  OBVIOUS
<1>3. PICK m \in T : \A n \in T : m <= n
  <2>1. T \in SUBSET Nat
    OBVIOUS
  <2> HIDE DEF T
  <2> QED BY <1>2, <2>1, Least
<1>4. m \in 0 .. L /\ ~\E f : From(m, f)
  OBVIOUS
<1>5. CASE m = 0
  <2> DEFINE f == [i \in L + 1 .. L + 1 |-> 0]
  <2>1. \A i \in L + 1 .. L + 1 : i > L
    BY <1>0
  <2>2. From(0, f)
    BY <1>0, <2>1
  <2> QED BY <1>4, <1>5, <2>2
<1>6. CASE m # 0
  <2>1. m - 1 \in 0 .. L /\ m - 1 \notin T
    <3>1. m - 1 \in 0 .. L /\ ~(m <= m - 1)
      BY <1>0, <1>4, <1>6
    <3> HIDE DEF T
    <3> QED BY <1>3, <3>1
  <2>2. PICK f : From(m - 1, f)
    BY <2>1, Zenon
  <2> DEFINE a == L + 1 - m
             g == [i \in a .. L + 1 |-> IF i = a THEN (s[i] % Base) + Base * f[i + 1] ELSE f[i]]
  <2>3. a \in 1 .. L /\ L + 1 - (m - 1) = a + 1 /\ a + 1 \in a + 1 .. L + 1
    BY <1>0, <1>4, <1>6
  <2>4. /\ f \in [a + 1 .. L + 1 -> Nat]
        /\ \A i \in a + 1 .. L + 1 :
             f[i] = IF i > L THEN 0 ELSE (s[i] % Base) + Base * f[i + 1]
    <3> HIDE DEF L
    <3>1. L + 1 - (m - 1) = a + 1
      BY <2>3
    <3> HIDE DEF a
    <3> QED BY <2>2, <3>1, Zenon
  <2>5. s[a] \in Nat /\ f[a + 1] \in Nat /\ ~(a > L)
    <3>1. s[a] \in Nat /\ ~(a > L)
      BY <1>0, <2>3
    <3> HIDE DEF a
    <3>2. f[a + 1] \in Nat
      BY <2>3, <2>4
    <3> QED BY <3>1, <3>2
  <2>6. (s[a] % Base) + Base * f[a + 1] \in Nat
    BY <2>5, Digit
  <2> HIDE DEF From
  <2>7. \A i \in a .. L + 1 : i = a \/ (i # a /\ i \in a + 1 .. L + 1)
    BY <2>3
  <2>8. g \in [a .. L + 1 -> Nat]
    BY <2>4, <2>6, <2>7
  <2>9. \A i \in a + 1 .. L + 1 : g[i] = f[i] /\ (i <= L => g[i + 1] = f[i + 1])
    BY <2>3
  <2>10. ASSUME NEW i \in a .. L + 1
         PROVE  g[i] = IF i > L THEN 0 ELSE (s[i] % Base) + Base * g[i + 1]
    <3>1. CASE i = a
      <4>1. g[a] = (s[a] % Base) + Base * f[a + 1] /\ g[a + 1] = f[a + 1]
        BY <2>3
      <4> QED BY <2>5, <3>1, <4>1
    <3>2. CASE i # a
      <4>1. i \in a + 1 .. L + 1
        BY <2>7, <3>2
      <4>2. i > L \/ i <= L
        BY <1>0, <2>3
      <4> HIDE DEF g
      <4> QED BY <2>4, <2>9, <4>1, <4>2
    <3> QED BY <3>1, <3>2
  <2>11. From(m, g)
    <3> HIDE DEF g
    <3> QED BY <2>8, <2>10 DEF From
  <2> QED BY <1>4, <2>11
<1> QED BY <1>5, <1>6

\* It has only one.
LEMMA WeightUnique ==
  ASSUME NEW s \in Seq(Nat), NEW f, NEW g, Weighs(s, f), Weighs(s, g)
  PROVE  f[1] = g[1]
<1> DEFINE L == Len(s)
           T == {k \in 0 .. L : f[L + 1 - k] # g[L + 1 - k]}
<1>0. L \in Nat
  OBVIOUS
<1>1. SUFFICES ASSUME T # {} PROVE FALSE
  <2>1. L \in 0 .. L /\ L + 1 - L = 1
    BY <1>0
  <2> QED BY <1>1, <2>1
<1>2. PICK m \in T : \A n \in T : m <= n
  <2>1. T \in SUBSET Nat
    OBVIOUS
  <2> HIDE DEF T
  <2> QED BY <1>1, <2>1, Least
<1> DEFINE a == L + 1 - m
<1>3. m \in 0 .. L /\ a \in 1 .. L + 1 /\ f[a] # g[a]
  BY <1>0
<1>4. /\ f[a] = IF a > L THEN 0 ELSE (s[a] % Base) + Base * f[a + 1]
      /\ g[a] = IF a > L THEN 0 ELSE (s[a] % Base) + Base * g[a + 1]
  BY <1>3 DEF Weighs
<1>5. ~(a > L)
  BY <1>3, <1>4
<1>6. m - 1 \in 0 .. L /\ L + 1 - (m - 1) = a + 1 /\ m - 1 \notin T
  BY <1>0, <1>2, <1>3, <1>5
<1>7. f[a + 1] = g[a + 1]
  BY <1>6
<1> QED BY <1>3, <1>4, <1>5, <1>7

\* So Value is the first of the weights.
LEMMA ValueIs ==
  ASSUME NEW s \in Seq(Nat), NEW f, Weighs(s, f)
  PROVE  Value(s) = f[1]
<1> DEFINE Body(g) == [i \in 1 .. Len(s) + 1 |->
                         IF i > Len(s) THEN 0 ELSE (s[i] % Base) + Base * g[i + 1]]
<1>1. PICK w \in [1 .. Len(s) + 1 -> Nat] : Weighs(s, w)
  BY WeightExists
<1>2. w = Body(w)
  <2>1. w = [i \in 1 .. Len(s) + 1 |-> w[i]]
    OBVIOUS
  <2> QED BY <1>1, <2>1 DEF Weighs
<1> DEFINE h == CHOOSE g : g = Body(g)
<1>3. h = Body(h)
  <2> HIDE DEF Body
  <2> QED BY <1>2, Zenon
<1>4. Value(s) = h[1]
  BY DEF Value
<1> HIDE DEF h
<1>5. Weighs(s, h)
  BY <1>3 DEF Weighs
<1> HIDE DEF Body
<1> QED BY <1>4, <1>5, WeightUnique

\* Value is a number.
LEMMA ValueType == ASSUME NEW s \in Seq(Nat) PROVE Value(s) \in Nat
<1>1. PICK w \in [1 .. Len(s) + 1 -> Nat] : Weighs(s, w)
  BY WeightExists
<1> QED BY <1>1, ValueIs

\* What a varint means when a digit is put before it.
LEMMA ValueStep ==
  ASSUME NEW b \in Nat, NEW t \in Seq(Nat)
  PROVE  Value(<<b>> \o t) = (b % Base) + Base * Value(t)
<1> DEFINE s == <<b>> \o t
<1>1. PICK f \in [1 .. Len(t) + 1 -> Nat] : Weighs(t, f)
  BY WeightExists
<1>2. Value(t) = f[1]
  BY <1>1, ValueIs
<1> DEFINE g == [i \in 1 .. Len(t) + 2 |-> IF i = 1 THEN (b % Base) + Base * f[1] ELSE f[i - 1]]
<1>3. /\ s \in Seq(Nat) /\ Len(s) = Len(t) + 1 /\ s[1] = b /\ Len(t) \in Nat
      /\ \A i \in 2 .. Len(t) + 1 : s[i] = t[i - 1]
  OBVIOUS
<1> HIDE DEF s
<1>4. g[1] = (b % Base) + Base * f[1] /\ \A i \in 2 .. Len(t) + 2 : g[i] = f[i - 1]
  BY <1>3
<1> HIDE DEF g
<1>5. ASSUME NEW i \in 1 .. Len(t) + 2
      PROVE  g[i] = IF i > Len(s) THEN 0 ELSE (s[i] % Base) + Base * g[i + 1]
  <2>1. CASE i = 1
    <3>1. g[2] = f[1] /\ ~(i > Len(s))
      BY <1>3, <1>4, <2>1
    <3> QED BY <1>3, <1>4, <2>1, <3>1
  <2>2. CASE i # 1
    <3>1. /\ i \in 2 .. Len(t) + 2 /\ i - 1 \in 1 .. Len(t) + 1 /\ (i - 1) + 1 = i
          /\ (i > Len(s)) = (i - 1 > Len(t)) /\ (~(i > Len(s)) => i + 1 \in 2 .. Len(t) + 2)
          /\ (i + 1) - 1 = i
          /\ (~(i > Len(s)) => i \in 2 .. Len(t) + 1)
      BY <1>3, <2>2
    <3>2. f[i - 1] = IF i - 1 > Len(t) THEN 0 ELSE (t[i - 1] % Base) + Base * f[(i - 1) + 1]
      BY <1>1, <3>1 DEF Weighs
    <3>3. g[i] = f[i - 1] /\ (~(i > Len(s)) => s[i] = t[i - 1] /\ g[i + 1] = f[i])
      BY <1>3, <1>4, <3>1
    <3> QED BY <3>1, <3>2, <3>3
  <2> QED BY <2>1, <2>2
<1>6. Weighs(s, g)
  BY <1>3, <1>5 DEF Weighs
<1>7. Value(s) = g[1]
  BY <1>3, <1>6, ValueIs
<1> QED BY <1>2, <1>4, <1>7 DEF s

\* What a varint of one byte means.
LEMMA ValueOne == ASSUME NEW b \in Nat PROVE Value(<<b>>) = b % Base
<1> DEFINE f == [i \in 1 .. 2 |-> IF i = 1 THEN b % Base ELSE 0]
<1>1. f[1] = b % Base /\ f[2] = 0 /\ <<b>> \in Seq(Nat) /\ Len(<<b>>) = 1 /\ <<b>>[1] = b
  OBVIOUS
<1> HIDE DEF f
<1>2. b % Base \in Nat /\ Base * 0 = 0
  BY BaseAssumption
<1>3. Weighs(<<b>>, f)
  BY <1>1, <1>2 DEF Weighs
<1> QED BY <1>1, <1>3, ValueIs

\* What is written of a length: bytes with the continuation bit, one without.
Varint(s) ==
  /\ s \in Seq(Nat) /\ Len(s) >= 1 /\ s[Len(s)] < Base
  /\ \A i \in 1 .. Len(s) - 1 : s[i] >= Base

\* binary.ReadUvarint reads what binary.PutUvarint wrote, for every length.
LEMMA Encoding == ASSUME NEW n \in Nat PROVE Varint(Uvarint[n]) /\ Value(Uvarint[n]) = n
<1> DEFINE Good(k) == Varint(Uvarint[k]) /\ Value(Uvarint[k]) = k
           T == {k \in Nat : ~Good(k)}
<1>1. SUFFICES ASSUME T # {} PROVE FALSE
  OBVIOUS
<1>2. PICK m \in T : \A k \in T : m <= k
  <2>1. T \in SUBSET Nat
    OBVIOUS
  <2> HIDE DEF T
  <2> QED BY <1>1, <2>1, Least
<1>3. m \in Nat /\ ~Good(m)
  OBVIOUS
<1>4. Uvarint[m] = Digits(Uvarint, m)
  BY <1>3, UvarintDef
<1>5. CASE m < Base
  <2>1. Uvarint[m] = <<m>>
    BY <1>4, <1>5 DEF Digits
  <2>2. Varint(<<m>>)
    BY <1>3, <1>5 DEF Varint
  <2>3. m % Base = m
    BY <1>3, <1>5, BaseAssumption
  <2> QED BY <1>3, <2>1, <2>2, <2>3, ValueOne
<1>6. CASE ~(m < Base)
  <2> DEFINE q == m \div Base
             b == Base + (m % Base)
             t == Uvarint[q]
  <2>1. Base \in Nat /\ Base > 1 /\ m >= Base
    BY <1>3, <1>6, BaseAssumption
  <2>2. q \in Nat /\ q < m /\ m % Base \in 0 .. (Base - 1) /\ m = Base * q + (m % Base)
    BY <1>3, <2>1, Division
  <2>3. Good(q)
    <3>1. ~(m <= q) /\ q \in Nat
      BY <1>3, <2>2
    <3> HIDE DEF Good, q
    <3> QED BY <1>2, <3>1
  <2>4. Uvarint[m] = <<b>> \o t
    BY <1>4, <1>6, Zenon DEF Digits
  <2>5. b \in Nat /\ b >= Base /\ b % Base = m % Base
    BY <2>1, <2>2
  <2>6. Varint(t) /\ Value(t) = q
    BY <2>3
  <2> HIDE DEF b, t, q
  <2>7. Varint(<<b>> \o t)
    <3>1. t \in Seq(Nat) /\ Len(t) \in Nat /\ Len(t) >= 1
      BY <2>6 DEF Varint
    <3>2. /\ <<b>> \o t \in Seq(Nat) /\ Len(<<b>> \o t) = Len(t) + 1 /\ (<<b>> \o t)[1] = b
          /\ \A i \in 2 .. Len(t) + 1 : (<<b>> \o t)[i] = t[i - 1]
      BY <2>5, <3>1
    <3> QED BY <2>5, <2>6, <3>1, <3>2 DEF Varint
  <2>8. Value(<<b>> \o t) = (m % Base) + Base * q
    BY <2>5, <2>6, ValueStep DEF Varint
  <2> QED BY <1>3, <2>1, <2>2, <2>4, <2>7, <2>8
<1> QED BY <1>5, <1>6

\* Length finds the end of a varint, whatever follows it.
LEMMA LengthFound ==
  ASSUME NEW u, Varint(u), NEW s \in Seq(Nat), Len(u) <= Len(s),
         \A i \in 1 .. Len(u) : s[i] = u[i]
  PROVE  Length(s) = Len(u)
<1> DEFINE I == {i \in 1 .. Len(s) : s[i] < Base}
<1>1. Length(s) = IF I # {} THEN Min(I) ELSE 0
  BY DEF Length, SelectInSeq
<1>2. Len(u) \in Nat /\ Len(u) \in 1 .. Len(s) /\ u \in Seq(Nat) /\ Base \in Nat
  BY BaseAssumption DEF Varint
<1>3. Len(u) \in I
  BY <1>2 DEF Varint
<1>4. \A i \in I : i >= Len(u)
  BY <1>2 DEF Varint
<1>5. \A i \in I : i \in Nat
  OBVIOUS
<1> HIDE DEF I
<1>6. Min(I) \in I /\ \A i \in I : Min(I) <= i
  <2>1. \A i \in I : Len(u) <= i
    BY <1>2, <1>4, <1>5
  <2>2. \E m \in I : \A i \in I : m <= i
    BY <1>3, <2>1, Zenon
  <2> QED BY <2>2, Zenon DEF Min
<1>7. Min(I) = Len(u)
  BY <1>2, <1>3, <1>4, <1>5, <1>6
<1> QED BY <1>1, <1>3, <1>7

\* Length finds nothing (0) or a place in the bytes.
LEMMA LengthType ==
  ASSUME NEW s \in Seq(Nat)
  PROVE  Length(s) \in 0 .. Len(s)
<1> DEFINE I == {i \in 1 .. Len(s) : s[i] < Base}
<1>1. Length(s) = IF I # {} THEN Min(I) ELSE 0
  BY DEF Length, SelectInSeq
<1>2. I \in SUBSET Nat /\ Len(s) \in Nat
  OBVIOUS
<1>3. CASE I = {}
  BY <1>1, <1>2, <1>3
<1>4. CASE I # {}
  <2>1. I \subseteq 1 .. Len(s)
    OBVIOUS
  <2> HIDE DEF I
  <2>2. \E m \in I : \A i \in I : m <= i
    BY <1>2, <1>4, Least
  <2>3. Min(I) \in I
    BY <2>2, Zenon DEF Min
  <2>4. Length(s) = Min(I) /\ Min(I) \in 1 .. Len(s)
    BY <1>1, <1>4, <2>1, <2>3, Zenon
  <2> QED BY <1>2, <2>4
<1> QED BY <1>3, <1>4

\* The first n of some bytes.
LEMMA Prefix ==
  ASSUME NEW s \in Seq(Nat), NEW n \in Nat, n <= Len(s)
  PROVE  /\ SubSeq(s, 1, n) \in Seq(Nat) /\ Len(SubSeq(s, 1, n)) = n
         /\ \A j \in 1 .. n : SubSeq(s, 1, n)[j] = s[j]
<1>1. (\A j \in 1 .. n : s[j] \in Nat) /\ 1 \in Int /\ n \in Int
  OBVIOUS
<1>2. /\ SubSeq(s, 1, n) \in Seq(Nat)
      /\ Len(SubSeq(s, 1, n)) = IF 1 <= n THEN n - 1 + 1 ELSE 0
      /\ \A j \in 1 .. n - 1 + 1 : SubSeq(s, 1, n)[j] = s[1 + j - 1]
  BY <1>1, SubSeqProperties
<1>3. n - 1 + 1 = n /\ (IF 1 <= n THEN n - 1 + 1 ELSE 0) = n /\ \A j \in 1 .. n : 1 + j - 1 = j
  OBVIOUS
<1> QED BY <1>2, <1>3

\* The bytes after the first n.
LEMMA Suffix ==
  ASSUME NEW s \in Seq(Nat), NEW n \in Nat, n <= Len(s)
  PROVE  /\ SubSeq(s, n + 1, Len(s)) \in Seq(Nat)
         /\ Len(SubSeq(s, n + 1, Len(s))) = Len(s) - n
         /\ \A j \in 1 .. Len(s) - n : SubSeq(s, n + 1, Len(s))[j] = s[n + j]
<1> DEFINE m == n + 1
           k == Len(s)
<1>1. (\A j \in m .. k : s[j] \in Nat) /\ m \in Int /\ k \in Int /\ m = n + 1 /\ k \in Nat
  OBVIOUS
<1> HIDE DEF m, k
<1>2. /\ SubSeq(s, m, k) \in Seq(Nat)
      /\ Len(SubSeq(s, m, k)) = IF m <= k THEN k - m + 1 ELSE 0
      /\ \A j \in 1 .. k - m + 1 : SubSeq(s, m, k)[j] = s[m + j - 1]
  BY <1>1, SubSeqProperties
<1>3. /\ k - m + 1 = k - n /\ (IF m <= k THEN k - m + 1 ELSE 0) = k - n
      /\ \A j \in 1 .. k - n : m + j - 1 = n + j
  BY <1>1 DEF k
<1>4. /\ SubSeq(s, m, k) \in Seq(Nat) /\ Len(SubSeq(s, m, k)) = k - n
      /\ \A j \in 1 .. k - n : SubSeq(s, m, k)[j] = s[n + j]
  BY <1>2, <1>3
<1> QED BY <1>4 DEF m, k

\* The array after io.ReadFull put have of size bytes into it.
Filled(body, have, size) ==
  SubSeq(body, 1, have) \o SubSeq(Resized(size), have + 1, Len(Resized(size)))

\* Next returns the bytes it read and none the array held before.
LEMMA ReadBytes ==
  ASSUME data \in Seq(Nat), NEW body \in Seq(Nat), NEW size \in Nat, NEW have \in Nat,
         have <= Len(body), have <= size
  PROVE  /\ Filled(body, have, size) \in Seq(Nat)
         /\ have = size =>
              /\ Slice(Filled(body, have, size), size) \in Seq(Nat)
              /\ Len(Slice(Filled(body, have, size), size)) = size
              /\ \A j \in 1 .. size : Slice(Filled(body, have, size), size)[j] = body[j]
<1> DEFINE r == Resized(size)
           p == SubSeq(body, 1, have)
           q == SubSeq(r, have + 1, Len(r))
           nd == Filled(body, have, size)
<1>1. r \in Seq(Nat) /\ Len(r) \in Nat /\ size <= Len(r) /\ have <= Len(r)
  <2>1. [i \in 1 .. size |-> 0] \in Seq(Nat) /\ Len([i \in 1 .. size |-> 0]) = size
    OBVIOUS
  <2> QED BY <2>1 DEF Resized
<1>2. p \in Seq(Nat) /\ Len(p) = have /\ \A j \in 1 .. have : p[j] = body[j]
  BY Prefix
<1> HIDE DEF r
<1>3. q \in Seq(Nat)
  BY <1>1, Suffix
<1> HIDE DEF p, q
<1>4. nd = p \o q
  BY DEF Filled, p, q, r
<1> HIDE DEF nd
<1>5. nd \in Seq(Nat) /\ Len(nd) >= have /\ \A j \in 1 .. have : nd[j] = body[j]
  <2>1. /\ p \o q \in Seq(Nat) /\ Len(p \o q) = Len(p) + Len(q) /\ Len(q) \in Nat
        /\ \A j \in 1 .. Len(p) : (p \o q)[j] = p[j]
    BY <1>2, <1>3
  <2>2. nd \in Seq(Nat) /\ Len(nd) = have + Len(q)
    BY <1>2, <1>4, <2>1, Zenon
  <2>3. \A j \in 1 .. have : nd[j] = body[j]
    BY <1>2, <1>4, <2>1, Zenon
  <2>4. have + Len(q) >= have
    BY <2>1
  <2> QED BY <2>2, <2>3, <2>4
<1>6. SubSeq(nd, 1, have) \in Seq(Nat) /\ Len(SubSeq(nd, 1, have)) = have
      /\ \A j \in 1 .. have : SubSeq(nd, 1, have)[j] = nd[j]
  BY <1>5, Prefix
<1> QED BY <1>5, <1>6 DEF Slice, nd

(***************************************************************************)
(* The inductive invariant.                                                *)
(***************************************************************************)

Result == [record : Seq(Nat), n : Nat, ok : BOOLEAN]

RecordsType ==
  /\ sink \in Seq(Nat) /\ record \in Seq(Nat) /\ result \in Seq(Result)
  /\ wpc \in {"idle", "length", "data", "closed"}
  /\ pos \in Nat /\ pos <= Len(sink) /\ data \in Seq(Nat) /\ got \in Seq(Seq(Nat))
  /\ rpc \in {"reading", "EOF", "ErrUnexpectedEOF"}

\* The bytes e are in the pipe s after the first p.
At(s, p, e) == p + Len(e) <= Len(s) /\ \A j \in 1 .. Len(e) : s[p + j] = e[j]

\* off[i] is where the i-th record ends, for those before the first failure.
Laid(off) ==
  \A i \in Sound :
    /\ off[i] = off[i - 1] + Len(Encoded(result[i].record))
    /\ At(sink, off[i - 1], Encoded(result[i].record))

\* After the last record there is nothing, or the length of the next one.
LengthOnly(p) ==
  Len(sink) = p + Len(Uvarint[Len(record)]) /\ At(sink, p, Uvarint[Len(record)])

Written(off) ==
  AllComplete =>
    /\ wpc \in {"idle", "length"} => Len(sink) = off[Len(result)]
    /\ wpc = "data" => LengthOnly(off[Len(result)])
    /\ wpc = "closed" => Len(sink) = off[Len(result)] \/ LengthOnly(off[Len(result)])

\* An empty record was read before its Put returned.
Ahead ==
  /\ Len(got) = Len(result) + 1 /\ wpc \in {"data", "closed"} /\ record = << >>
  /\ got[Len(got)] = << >>

\* Up to the first failure the reader is at the end of a record.
Read(off) ==
  rpc = "reading" =>
    /\ Len(got) \in {0} \cup Sound => pos = off[Len(got)]
    /\ AllComplete /\ Len(got) > Len(result) => Ahead /\ pos = Len(sink)
                                                     /\ LengthOnly(off[Len(result)])

Over ==
  rpc # "reading" =>
    wpc = "closed" /\ (AllComplete => Len(got) = Len(result) \/ Ahead)

Placed(off) ==
  /\ off \in [0 .. Len(result) -> Nat] /\ off[0] = 0
  /\ Laid(off) /\ Written(off) /\ Read(off)

PlacesInv == \E off : Placed(off)

RecordsInv == RecordsType /\ Intact /\ Over /\ PlacesInv

(***************************************************************************)
(* What the reader finds.                                                  *)
(***************************************************************************)

\* What Put writes: the length, then the record.
LEMMA Encodes ==
  ASSUME NEW r \in Seq(Nat)
  PROVE  /\ Len(r) \in Nat /\ Uvarint[Len(r)] \in Seq(Nat) /\ Len(Uvarint[Len(r)]) \in Nat \ {0}
         /\ Varint(Uvarint[Len(r)]) /\ Value(Uvarint[Len(r)]) = Len(r)
         /\ Encoded(r) \in Seq(Nat) /\ Len(Encoded(r)) = Len(Uvarint[Len(r)]) + Len(r)
         /\ \A j \in 1 .. Len(Uvarint[Len(r)]) : Encoded(r)[j] = Uvarint[Len(r)][j]
         /\ \A j \in 1 .. Len(r) : Encoded(r)[Len(Uvarint[Len(r)]) + j] = r[j]
<1> DEFINE u == Uvarint[Len(r)]
<1>1. Len(r) \in Nat /\ Varint(u) /\ Value(u) = Len(r)
  <2>1. Len(r) \in Nat
    OBVIOUS
  <2> QED BY <2>1, Encoding
<1>2. u \in Seq(Nat) /\ Len(u) \in Nat \ {0}
  BY <1>1 DEF Varint
<1> HIDE DEF u
<1>3. Encoded(r) = u \o r
  BY DEF Encoded, u
<1>4. /\ u \o r \in Seq(Nat) /\ Len(u \o r) = Len(u) + Len(r)
      /\ \A i \in 1 .. Len(u) + Len(r) : (u \o r)[i] = IF i <= Len(u) THEN u[i] ELSE r[i - Len(u)]
  BY <1>2, ConcatProperties
<1>5. \A j \in 1 .. Len(u) : (u \o r)[j] = u[j]
  BY <1>1, <1>2, <1>4
<1>6. ASSUME NEW j \in 1 .. Len(r) PROVE (u \o r)[Len(u) + j] = r[j]
  <2>1. Len(u) + j \in 1 .. Len(u) + Len(r) /\ ~(Len(u) + j <= Len(u)) /\ Len(u) + j - Len(u) = j
    BY <1>1, <1>2
  <2> QED BY <1>4, <2>1
<1> QED BY <1>1, <1>2, <1>3, <1>4, <1>5, <1>6 DEF u

\* What the reader has not taken.
LEMMA RestIs ==
  ASSUME RecordsType
  PROVE  /\ Rest \in Seq(Nat) /\ Len(Rest) = Len(sink) - pos /\ Len(Rest) \in Nat
         /\ Len(sink) \in Nat
         /\ \A j \in 1 .. Len(sink) - pos : Rest[j] = sink[pos + j]
<1>1. sink \in Seq(Nat) /\ pos \in Nat /\ pos <= Len(sink) /\ Len(sink) \in Nat
  BY DEF RecordsType
<1>2. Rest = SubSeq(sink, pos + 1, Len(sink))
  BY DEF Rest
<1> DEFINE rest == Rest
<1> HIDE DEF rest
<1>3. /\ rest \in Seq(Nat) /\ Len(rest) = Len(sink) - pos
      /\ \A j \in 1 .. Len(sink) - pos : rest[j] = sink[pos + j]
  BY <1>1, <1>2, Suffix, Zenon DEF rest
<1>4. Len(rest) \in Nat
  BY <1>1, <1>3
<1> QED BY <1>1, <1>3, <1>4 DEF rest

\* A reader before a length finds that length.
LEMMA LengthRead ==
  ASSUME RecordsType, NEW r \in Seq(Nat), At(sink, pos, Uvarint[Len(r)])
  PROVE  /\ Length(Rest) = Len(Uvarint[Len(r)])
         /\ Value(SubSeq(Rest, 1, Length(Rest))) = Len(r)
<1> DEFINE u == Uvarint[Len(r)]
<1>1. u \in Seq(Nat) /\ Len(u) \in Nat \ {0} /\ Varint(u) /\ Value(u) = Len(r)
  BY Encodes
<1>2. At(sink, pos, u)
  OBVIOUS
<1>3. pos \in Nat /\ pos <= Len(sink)
  BY DEF RecordsType
<1> HIDE DEF u
<1>4. Len(u) <= Len(Rest) /\ \A j \in 1 .. Len(u) : Rest[j] = u[j]
  BY <1>1, <1>2, <1>3, RestIs DEF At
<1>5. Length(Rest) = Len(u)
  BY <1>1, <1>4, LengthFound, RestIs
<1>6. /\ SubSeq(Rest, 1, Len(u)) \in Seq(Nat) /\ Len(SubSeq(Rest, 1, Len(u))) = Len(u)
      /\ \A j \in 1 .. Len(u) : SubSeq(Rest, 1, Len(u))[j] = Rest[j]
  BY <1>1, <1>4, Prefix, RestIs
<1>7. SubSeq(Rest, 1, Len(u)) = u
  BY <1>1, <1>4, <1>6, SeqEqual
<1> QED BY <1>1, <1>5, <1>7 DEF u

\* What Next does when it finds a length of head bytes, saying size, and have
\* of the bytes that follow.
Reads(head, size, have, body) ==
  /\ head = Length(Rest) /\ head > 0 /\ head <= Len(Rest)
  /\ size = Value(SubSeq(Rest, 1, head))
  /\ Len(body) = Len(sink) - pos - head
  /\ \A j \in 1 .. Len(body) : body[j] = sink[pos + head + j]
  /\ have = IF Len(body) < size THEN Len(body) ELSE size
  /\ have < size => wpc = "closed"
  /\ pos' = pos + head + have /\ pos' <= Len(sink) /\ data' \in Seq(Nat)
  /\ UNCHANGED writer /\ rpc = "reading"
  /\ \/ /\ have = size /\ UNCHANGED rpc
        /\ \E x \in Seq(Nat) : /\ got' = Append(got, x) /\ Len(x) = size
                              /\ \A j \in 1 .. size : x[j] = body[j]
     \/ /\ have < size /\ UNCHANGED got /\ rpc' = ReadFullError(have)

\* A reader whose Next does not end it returns size bytes of what follows the
\* length; otherwise the pipe has ended.
LEMMA NextStep ==
  ASSUME RecordsType, NextRecord
  PROVE  \E head \in Nat, size \in Nat, have \in Nat, body \in Seq(Nat) :
           Reads(head, size, have, body)
<1> DEFINE head == Length(Rest)
           size == Value(SubSeq(Rest, 1, head))
           body == SubSeq(Rest, head + 1, Len(Rest))
           have == IF Len(body) < size THEN Len(body) ELSE size
<1>1. head > 0 /\ head \in Nat /\ head <= Len(Rest)
  <2>1. Length(Rest) \in 0 .. Len(Rest) /\ Len(Rest) \in Nat
    BY LengthType, RestIs
  <2>2. head > 0
    BY DEF NextRecord
  <2> QED BY <2>1, <2>2
<1>2. size \in Nat
  <2>1. SubSeq(Rest, 1, head) \in Seq(Nat)
    BY <1>1, Prefix, RestIs
  <2> QED BY <2>1, ValueType
<1>3. /\ body \in Seq(Nat) /\ Len(body) = Len(Rest) - head
      /\ \A j \in 1 .. Len(Rest) - head : body[j] = Rest[head + j]
  BY <1>1, Suffix, RestIs
<1>4. /\ Available(size, body)
      /\ pos' = pos + head + have
      /\ data' = SubSeq(body, 1, have) \o SubSeq(Resized(size), have + 1, Len(Resized(size)))
      /\ rpc = "reading"
      /\ \/ have = size /\ got' = Append(got, Slice(data', size)) /\ UNCHANGED <<rpc, writer>>
         \/ have < size /\ End(ReadFullError(have))
  BY DEF NextRecord
<1> HIDE DEF head, size, body
<1>5. have \in Nat /\ have <= size /\ have <= Len(body) /\ Len(body) \in Nat
      /\ (have < size => ~(Len(body) >= size))
  BY <1>2, <1>3
<1>6. pos \in Nat /\ data \in Seq(Nat) /\ Len(sink) \in Nat /\ Len(Rest) = Len(sink) - pos
  BY RestIs DEF RecordsType
<1>7. Len(body) = Len(sink) - pos - head
  BY <1>3, <1>6
<1>8. ASSUME NEW j \in 1 .. Len(body) PROVE body[j] = sink[pos + head + j]
  <2>1. head + j \in 1 .. Len(sink) - pos /\ j \in 1 .. Len(Rest) - head
        /\ pos + (head + j) = pos + head + j
    BY <1>1, <1>3, <1>6
  <2> QED BY <1>3, <2>1, RestIs
<1>9. have < size => wpc = "closed"
  BY <1>4, <1>5 DEF Available, Ended
<1> HIDE DEF have
<1>10. /\ data' \in Seq(Nat)
       /\ have = size => /\ Slice(data', size) \in Seq(Nat) /\ Len(Slice(data', size)) = size
                         /\ \A j \in 1 .. size : Slice(data', size)[j] = body[j]
  <2> DEFINE nd == data'
  <2>1. nd = Filled(body, have, size)
    BY <1>4 DEF Filled
  <2>2. body \in Seq(Nat) /\ data \in Seq(Nat) /\ size \in Nat /\ have \in Nat
        /\ have <= Len(body) /\ have <= size
    BY <1>2, <1>3, <1>5, <1>6
  <2> HIDE DEF nd
  <2>3. /\ nd \in Seq(Nat)
        /\ have = size => /\ Slice(nd, size) \in Seq(Nat) /\ Len(Slice(nd, size)) = size
                          /\ \A j \in 1 .. size : Slice(nd, size)[j] = body[j]
    BY <2>1, <2>2, ReadBytes
  <2> QED BY <2>3 DEF nd
<1>11. pos' <= Len(sink)
  BY <1>1, <1>4, <1>5, <1>6, <1>7
<1>12. UNCHANGED writer
  BY <1>4 DEF End
<1>13. have = IF Len(body) < size THEN Len(body) ELSE size
  BY DEF have
<1>14. \/ /\ have = size /\ UNCHANGED rpc
          /\ \E x \in Seq(Nat) : /\ got' = Append(got, x) /\ Len(x) = size
                                /\ \A j \in 1 .. size : x[j] = body[j]
       \/ /\ have < size /\ UNCHANGED got /\ rpc' = ReadFullError(have)
  <2>1. CASE have = size /\ got' = Append(got, Slice(data', size)) /\ UNCHANGED <<rpc, writer>>
    BY <1>10, <2>1
  <2>2. CASE have < size /\ End(ReadFullError(have))
    BY <2>2 DEF End
  <2> QED BY <1>4, <2>1, <2>2
<1>15. head = Length(Rest) /\ size = Value(SubSeq(Rest, 1, head))
  BY DEF head, size
<1>16. /\ head \in Nat /\ size \in Nat /\ have \in Nat /\ body \in Seq(Nat)
       /\ head = Length(Rest) /\ head > 0 /\ head <= Len(Rest)
       /\ size = Value(SubSeq(Rest, 1, head))
       /\ Len(body) = Len(sink) - pos - head
       /\ \A j \in 1 .. Len(body) : body[j] = sink[pos + head + j]
       /\ have = IF Len(body) < size THEN Len(body) ELSE size
  BY <1>1, <1>2, <1>3, <1>5, <1>7, <1>8, <1>13, <1>15, Zenon
<1>17. /\ have < size => wpc = "closed"
       /\ pos' = pos + head + have /\ pos' <= Len(sink) /\ data' \in Seq(Nat)
       /\ UNCHANGED writer /\ rpc = "reading"
  BY <1>4, <1>9, <1>10, <1>11, <1>12, Zenon
<1>18. Reads(head, size, have, body)
  BY <1>14, <1>16, <1>17, Zenon DEF Reads
<1> QED BY <1>16, <1>18, Zenon

(***************************************************************************)
(* The calls that succeeded before the first failure.                      *)
(***************************************************************************)

\* The calls before the first failure are a beginning of all calls.
LEMMA SoundIs ==
  ASSUME RecordsType
  PROVE  /\ DOMAIN result = 1 .. Len(result) /\ Len(result) \in Nat
         /\ Sound \subseteq 1 .. Len(result)
         /\ AllComplete => Sound = 1 .. Len(result)
         /\ \A i \in Sound, j \in 1 .. Len(result) : j <= i => j \in Sound
<1>1. DOMAIN result = 1 .. Len(result) /\ Len(result) \in Nat
  BY DEF RecordsType
<1>2. Sound \subseteq 1 .. Len(result)
  BY <1>1, Zenon DEF Sound
<1>3. \A i \in 1 .. Len(result) : \A j \in 1 .. i : j \in 1 .. Len(result)
  BY <1>1
<1>4. AllComplete => Sound = 1 .. Len(result)
  BY <1>1, <1>3, Zenon DEF AllComplete, Sound
<1>5. \A i \in 1 .. Len(result), j \in 1 .. Len(result) :
        j <= i => \A k \in 1 .. j : k \in 1 .. i
  BY <1>1
<1>6. \A i \in 1 .. Len(result) : i \in 1 .. i
  BY <1>1
<1>7. \A i \in Sound, j \in 1 .. Len(result) : j <= i => j \in Sound
  BY <1>1, <1>2, <1>5, Zenon DEF Sound
<1> QED BY <1>1, <1>2, <1>4, <1>7, Zenon

\* One more call with the answer b.
LEMMA SoundGrows ==
  ASSUME RecordsType, NEW x \in Result, NEW b \in BOOLEAN, x.ok = b,
         result' = Append(result, x)
  PROVE  /\ result' \in Seq(Result) /\ Len(result') = Len(result) + 1
         /\ \A i \in 1 .. Len(result) : result'[i] = result[i]
         /\ result'[Len(result) + 1] = x
         /\ AllComplete' <=> (AllComplete /\ b)
         /\ \A i \in 1 .. Len(result) : i \in Sound' => i \in Sound
         /\ Len(result) + 1 \in Sound' => AllComplete /\ b
<1>1. DOMAIN result = 1 .. Len(result) /\ Len(result) \in Nat /\ result \in Seq(Result)
  BY DEF RecordsType
<1>2. /\ result' \in Seq(Result) /\ Len(result') = Len(result) + 1
      /\ \A i \in 1 .. Len(result) : result'[i] = result[i]
      /\ result'[Len(result) + 1] = x
  BY <1>1
<1>3. DOMAIN result' = 1 .. Len(result) + 1
  BY <1>1, <1>2
<1>4. /\ \A i \in 1 .. Len(result) + 1 : i \in 1 .. Len(result) \/ i = Len(result) + 1
      /\ \A i \in 1 .. Len(result) : i \in 1 .. Len(result) + 1
      /\ Len(result) + 1 \in 1 .. Len(result) + 1
      /\ \A i \in 1 .. Len(result) : \A j \in 1 .. i : j \in 1 .. Len(result)
  BY <1>1
<1>5. AllComplete' <=> (AllComplete /\ b)
  BY <1>1, <1>2, <1>3, <1>4, Zenon DEF AllComplete
<1>6. \A i \in 1 .. Len(result) : i \in Sound' => i \in Sound
  BY <1>1, <1>2, <1>3, <1>4, Zenon DEF Sound
<1>7. Len(result) + 1 \in Sound' => AllComplete /\ b
  BY <1>1, <1>2, <1>3, <1>4, Zenon DEF Sound, AllComplete
<1> QED BY <1>2, <1>5, <1>6, <1>7, Zenon

(***************************************************************************)
(* What is in the pipe stays there.                                        *)
(***************************************************************************)

\* Writing more moves nothing.
LEMMA AtKept ==
  ASSUME NEW s \in Seq(Nat), NEW t \in Seq(Nat), NEW p \in Nat, NEW e \in Seq(Nat), At(s, p, e)
  PROVE  At(s \o t, p, e)
<1>1. /\ Len(s \o t) = Len(s) + Len(t)
      /\ \A i \in 1 .. Len(s) + Len(t) : (s \o t)[i] = IF i <= Len(s) THEN s[i] ELSE t[i - Len(s)]
  BY ConcatProperties
<1>2. Len(s) \in Nat /\ Len(t) \in Nat /\ Len(e) \in Nat /\ p + Len(e) <= Len(s)
  BY DEF At
<1>3. ASSUME NEW j \in 1 .. Len(e) PROVE (s \o t)[p + j] = e[j]
  <2>1. p + j \in 1 .. Len(s) + Len(t) /\ p + j <= Len(s)
    BY <1>2
  <2>2. s[p + j] = e[j]
    BY DEF At
  <2> QED BY <1>1, <2>1, <2>2
<1>4. p + Len(e) <= Len(s \o t)
  BY <1>1, <1>2
<1> QED BY <1>3, <1>4 DEF At

\* What was at the end goes on with what is written next.
LEMMA AtJoined ==
  ASSUME NEW s \in Seq(Nat), NEW p \in Nat, NEW u \in Seq(Nat), NEW r \in Seq(Nat),
         At(s, p, u), Len(s) = p + Len(u)
  PROVE  At(s \o r, p, u \o r) /\ Len(s \o r) = p + Len(u \o r)
<1>1. /\ Len(s \o r) = Len(s) + Len(r)
      /\ \A i \in 1 .. Len(s) + Len(r) : (s \o r)[i] = IF i <= Len(s) THEN s[i] ELSE r[i - Len(s)]
  BY ConcatProperties
<1>2. /\ Len(u \o r) = Len(u) + Len(r)
      /\ \A i \in 1 .. Len(u) + Len(r) : (u \o r)[i] = IF i <= Len(u) THEN u[i] ELSE r[i - Len(u)]
  BY ConcatProperties
<1>3. Len(s) \in Nat /\ Len(u) \in Nat /\ Len(r) \in Nat
  OBVIOUS
<1>4. ASSUME NEW j \in 1 .. Len(u) + Len(r) PROVE (s \o r)[p + j] = (u \o r)[j]
  <2>1. CASE j <= Len(u)
    <3>1. p + j \in 1 .. Len(s) + Len(r) /\ p + j <= Len(s) /\ j \in 1 .. Len(u)
      BY <1>3, <2>1
    <3>2. (s \o r)[p + j] = s[p + j] /\ s[p + j] = u[j]
      BY <1>1, <3>1, Zenon DEF At
    <3>3. (u \o r)[j] = u[j]
      BY <1>2, <2>1, Zenon
    <3> QED BY <3>2, <3>3, Zenon
  <2>2. CASE ~(j <= Len(u))
    <3>1. p + j \in 1 .. Len(s) + Len(r) /\ ~(p + j <= Len(s))
      BY <1>3, <2>2
    <3>2. (s \o r)[p + j] = r[p + j - Len(s)]
      <4>1. \A i \in 1 .. Len(s) + Len(r) : ~(i <= Len(s)) => (s \o r)[i] = r[i - Len(s)]
        BY <1>1
      <4> DEFINE q == p + j
      <4>2. q \in 1 .. Len(s) + Len(r) /\ ~(q <= Len(s))
        BY <3>1
      <4> HIDE DEF q
      <4>3. (s \o r)[q] = r[q - Len(s)]
        BY <4>1, <4>2, Zenon
      <4> QED BY <4>3 DEF q
    <3>3. p + j - Len(s) = j - Len(u)
      <4>1. \A a \in Nat, b \in Nat : p + a - (p + b) = a - b
        OBVIOUS
      <4>2. j \in Nat
        BY <1>3
      <4>3. p + j - (p + Len(u)) = j - Len(u)
        BY <1>3, <4>1, <4>2, Zenon
      <4> QED BY <4>3, Zenon
    <3>4. (u \o r)[j] = r[j - Len(u)]
      BY <1>2, <2>2, Zenon
    <3> QED BY <3>2, <3>3, <3>4, Zenon
  <2> QED BY <2>1, <2>2, Zenon
<1>5. Len(s \o r) = p + Len(u \o r) /\ p + Len(u \o r) <= Len(s \o r)
  BY <1>1, <1>2, <1>3
<1> QED BY <1>2, <1>4, <1>5, Zenon DEF At

\* Where something is, its beginning is.
LEMMA AtBegun ==
  ASSUME NEW s \in Seq(Nat), NEW p \in Nat, NEW u \in Seq(Nat), NEW r \in Seq(Nat),
         At(s, p, u \o r)
  PROVE  At(s, p, u)
<1>1. /\ Len(u \o r) = Len(u) + Len(r)
      /\ \A i \in 1 .. Len(u) + Len(r) : (u \o r)[i] = IF i <= Len(u) THEN u[i] ELSE r[i - Len(u)]
  BY ConcatProperties
<1>2. Len(s) \in Nat /\ Len(u) \in Nat /\ Len(r) \in Nat /\ p + Len(u \o r) <= Len(s)
  BY DEF At
<1>3. p + Len(u) <= Len(s)
  BY <1>1, <1>2
<1>4. ASSUME NEW j \in 1 .. Len(u) PROVE s[p + j] = u[j]
  <2>1. j \in 1 .. Len(u) + Len(r) /\ j <= Len(u)
    BY <1>2
  <2>2. s[p + j] = (u \o r)[j]
    BY <1>1, <2>1, Zenon DEF At
  <2> QED BY <1>1, <2>1, <2>2, Zenon
<1> QED BY <1>3, <1>4, Zenon DEF At

\* After its length a record completes its encoding, and an encoding begins
\* with the length.
LEMMA AtWhole ==
  ASSUME NEW s \in Seq(Nat), NEW p \in Nat, NEW r \in Seq(Nat)
  PROVE  /\ At(s, p, Uvarint[Len(r)]) /\ Len(s) = p + Len(Uvarint[Len(r)]) =>
              At(s \o r, p, Encoded(r)) /\ Len(s \o r) = p + Len(Encoded(r))
         /\ At(s, p, Encoded(r)) => At(s, p, Uvarint[Len(r)])
<1> DEFINE u == Uvarint[Len(r)]
<1>1. u \in Seq(Nat)
  BY Encodes
<1>2. Encoded(r) = u \o r
  BY DEF Encoded
<1> HIDE DEF u
<1>3. At(s, p, u) /\ Len(s) = p + Len(u) => At(s \o r, p, u \o r) /\ Len(s \o r) = p + Len(u \o r)
  BY <1>1, AtJoined
<1>4. At(s, p, u \o r) => At(s, p, u)
  BY <1>1, AtBegun
<1> QED BY <1>2, <1>3, <1>4, Zenon DEF u

(***************************************************************************)
(* The steps of the writer.                                                *)
(***************************************************************************)

\* The writer only adds to the pipe.
LEMMA Grown ==
  ASSUME RecordsType, NEW t \in Seq(Nat), sink' = sink \o t
  PROVE  /\ sink' \in Seq(Nat) /\ Len(sink') = Len(sink) + Len(t)
         /\ pos \in Nat /\ pos <= Len(sink') /\ Len(sink) \in Nat /\ Len(t) \in Nat
<1>1. sink \in Seq(Nat) /\ pos \in Nat /\ pos <= Len(sink)
  BY DEF RecordsType
<1>2. sink \o t \in Seq(Nat) /\ Len(sink \o t) = Len(sink) + Len(t)
  BY <1>1
<1>3. Len(sink) \in Nat /\ Len(t) \in Nat
  BY <1>1
<1> QED BY <1>1, <1>2, <1>3

\* A place and the record that ends there.
LEMMA SoundPlace ==
  ASSUME RecordsType, NEW off \in [0 .. Len(result) -> Nat], NEW i \in Sound
  PROVE  /\ i \in 1 .. Len(result) /\ i - 1 \in 0 .. Len(result) /\ i \in 0 .. Len(result)
         /\ off[i - 1] \in Nat /\ off[i] \in Nat
         /\ result[i].record \in Seq(Nat) /\ Encoded(result[i].record) \in Seq(Nat)
<1>1. i \in 1 .. Len(result) /\ Len(result) \in Nat
  BY SoundIs
<1>2. i - 1 \in 0 .. Len(result) /\ i \in 0 .. Len(result)
  BY <1>1
<1>3. result[i] \in Result
  BY <1>1 DEF RecordsType
<1>4. result[i].record \in Seq(Nat)
  BY <1>3, Zenon DEF Result
<1>5. Encoded(result[i].record) \in Seq(Nat)
  BY <1>4, Encodes
<1> QED BY <1>1, <1>2, <1>4, <1>5

\* The records stay where they are when the writer adds to the pipe.
LEMMA LaidKept ==
  ASSUME RecordsType, NEW off \in [0 .. Len(result) -> Nat], Laid(off),
         NEW t \in Seq(Nat), sink' = sink \o t
  PROVE  \A i \in Sound : At(sink', off[i - 1], Encoded(result[i].record))
<1> SUFFICES ASSUME NEW i \in Sound
             PROVE  At(sink', off[i - 1], Encoded(result[i].record))
  OBVIOUS
<1>1. At(sink, off[i - 1], Encoded(result[i].record))
  BY DEF Laid
<1>2. off[i - 1] \in Nat /\ Encoded(result[i].record) \in Seq(Nat)
  BY SoundPlace
<1>3. sink \in Seq(Nat)
  BY DEF RecordsType
<1> QED BY <1>1, <1>2, <1>3, AtKept

\* Steps of the writer that answer no call of Put.
LEMMA SameCalls ==
  ASSUME RecordsInv, wpc # "closed", NEW t \in Seq(Nat), sink' = sink \o t,
         UNCHANGED <<result, reader>>
  PROVE  /\ Intact' /\ Over' /\ rpc = "reading" /\ (AllComplete' <=> AllComplete)
         /\ \A off : Placed(off) => off \in [0 .. Len(result)' -> Nat] /\ Laid(off)'
<1>1. rpc = "reading" /\ rpc' = rpc /\ result' = result /\ got' = got /\ pos' = pos /\ data' = data
  BY DEF RecordsInv, Over, reader
<1>2. Sound' = Sound /\ (AllComplete' <=> AllComplete)
  BY <1>1, Zenon DEF Sound, AllComplete
<1>3. Intact'
  <2>1. Intact
    BY DEF RecordsInv
  <2> QED BY <1>1, <1>2, <2>1, Zenon DEF Intact
<1>4. Over'
  BY <1>1 DEF Over
<1>5. ASSUME NEW off, Placed(off) PROVE off \in [0 .. Len(result)' -> Nat] /\ Laid(off)'
  <2>1. off \in [0 .. Len(result) -> Nat] /\ Laid(off) /\ RecordsType
    BY <1>5 DEF Placed, RecordsInv
  <2>2. \A i \in Sound : At(sink', off[i - 1], Encoded(result[i].record))
    BY <2>1, LaidKept
  <2>3. \A i \in Sound : off[i] = off[i - 1] + Len(Encoded(result[i].record))
    BY <2>1, Zenon DEF Laid
  <2>4. Laid(off)'
    BY <1>1, <1>2, <2>2, <2>3, Zenon DEF Laid
  <2> QED BY <1>1, <2>1, <2>4, Zenon
<1> QED BY <1>1, <1>2, <1>3, <1>4, <1>5, Zenon

\* Before a length is written the reader has not gone past the last record.
LEMMA NotAhead ==
  ASSUME RecordsInv, wpc \in {"idle", "length"}, AllComplete
  PROVE  ~(Len(got) > Len(result))
<1>1. rpc = "reading"
  BY DEF RecordsInv, Over
<1>2. PICK off : Read(off)
  BY DEF RecordsInv, PlacesInv, Placed
<1> QED BY <1>1, <1>2, Zenon DEF Read, Ahead

\* A call of Put begins: nothing is written.
LEMMA PutKeeps ==
  ASSUME RecordsInv, Put PROVE RecordsInv'
<1>1. /\ wpc = "idle" /\ record' \in RecordSet /\ wpc' = "length" /\ sink' = sink
      /\ result' = result /\ pos' = pos /\ data' = data /\ got' = got /\ rpc' = rpc
  BY DEF Put, reader
<1>2. RecordsType
  BY DEF RecordsInv
<1>3. record' \in Seq(Nat)
  <2>1. Byte \subseteq Nat
    BY BaseAssumption DEF Byte
  <2>2. record' \in Seq(Byte)
    BY <1>1, RecordsAssumption
  <2> HIDE DEF Byte
  <2>3. \A x \in Seq(Byte) : x \in Seq(Nat)
    <3> SUFFICES ASSUME NEW x \in Seq(Byte) PROVE x \in Seq(Nat)
      OBVIOUS
    <3>1. Len(x) \in Nat /\ x = [i \in 1 .. Len(x) |-> x[i]] /\ \A i \in 1 .. Len(x) : x[i] \in Byte
      OBVIOUS
    <3>2. x \in [1 .. Len(x) -> Nat]
      BY <2>1, <3>1
    <3> QED BY <3>1, <3>2
  <2> QED BY <2>2, <2>3
<1>4. RecordsType'
  BY <1>1, <1>2, <1>3 DEF RecordsType
<1>5. sink' = sink \o << >> /\ << >> \in Seq(Nat) /\ wpc # "closed" /\ UNCHANGED <<result, reader>>
  BY <1>1, <1>2 DEF RecordsType, reader
<1>6. /\ Intact' /\ Over' /\ rpc = "reading" /\ (AllComplete' <=> AllComplete)
      /\ \A off : Placed(off) => off \in [0 .. Len(result)' -> Nat] /\ Laid(off)'
  BY <1>5, SameCalls
<1>7. PICK off : Placed(off)
  BY DEF RecordsInv, PlacesInv
<1>8. Written(off)'
  <2>1. AllComplete => Len(sink) = off[Len(result)]
    BY <1>1, <1>7, Zenon DEF Placed, Written
  <2> QED BY <1>1, <1>6, <2>1, Zenon DEF Written
<1>9. Read(off)'
  <2>1. Sound' = Sound
    BY <1>1, Zenon DEF Sound
  <2>2. Len(got) \in {0} \cup Sound => pos = off[Len(got)]
    BY <1>6, <1>7, Zenon DEF Placed, Read
  <2>3. AllComplete => ~(Len(got) > Len(result))
    BY <1>1, NotAhead
  <2> QED BY <1>1, <1>6, <2>1, <2>2, <2>3, Zenon DEF Read
<1>10. Placed(off)'
  BY <1>6, <1>7, <1>8, <1>9, Zenon DEF Placed
<1> QED BY <1>4, <1>6, <1>10, Zenon DEF RecordsInv, PlacesInv

\* The length is written where the last record ended.
LEMMA WriteLengthKeeps ==
  ASSUME RecordsInv, WriteLength PROVE RecordsInv'
<1> DEFINE u == Uvarint[Len(record)]
<1>1. /\ wpc = "length" /\ wpc' = "data" /\ sink' = sink \o u /\ record' = record
      /\ result' = result /\ pos' = pos /\ data' = data /\ got' = got /\ rpc' = rpc
  BY DEF WriteLength, reader
<1>2. RecordsType
  BY DEF RecordsInv
<1>3. record \in Seq(Nat) /\ u \in Seq(Nat) /\ sink \in Seq(Nat) /\ Len(u) \in Nat
  BY <1>2, Encodes DEF RecordsType
<1> HIDE DEF u
<1>4. /\ sink' \in Seq(Nat) /\ Len(sink') = Len(sink) + Len(u) /\ pos <= Len(sink')
      /\ Len(sink) \in Nat
  BY <1>1, <1>2, <1>3, Grown
<1>5. RecordsType'
  BY <1>1, <1>2, <1>4 DEF RecordsType
<1>6. wpc # "closed" /\ UNCHANGED <<result, reader>>
  BY <1>1 DEF reader
<1>7. /\ Intact' /\ Over' /\ rpc = "reading" /\ (AllComplete' <=> AllComplete)
      /\ \A off : Placed(off) => off \in [0 .. Len(result)' -> Nat] /\ Laid(off)'
  BY <1>1, <1>3, <1>6, SameCalls
<1>8. PICK off : Placed(off)
  BY DEF RecordsInv, PlacesInv
<1>9. Written(off)'
  <2>1. SUFFICES ASSUME AllComplete PROVE LengthOnly(off[Len(result)])'
    BY <1>1, <1>7, Zenon DEF Written
  <2>2. Len(sink) = off[Len(result)]
    BY <1>1, <1>8, <2>1, Zenon DEF Placed, Written
  <2>3. At(sink', Len(sink), u)
    <3>1. /\ Len(sink \o u) = Len(sink) + Len(u)
          /\ \A i \in 1 .. Len(sink) + Len(u) :
               (sink \o u)[i] = IF i <= Len(sink) THEN sink[i] ELSE u[i - Len(sink)]
      BY <1>3, ConcatProperties
    <3>2. ASSUME NEW j \in 1 .. Len(u) PROVE (sink \o u)[Len(sink) + j] = u[j]
      <4>1. /\ Len(sink) + j \in 1 .. Len(sink) + Len(u) /\ ~(Len(sink) + j <= Len(sink))
            /\ Len(sink) + j - Len(sink) = j
        BY <1>3, <1>4
      <4>2. (sink \o u)[Len(sink) + j] = u[Len(sink) + j - Len(sink)]
        BY <3>1, <4>1
      <4> QED BY <4>1, <4>2
    <3>3. Len(sink) + Len(u) <= Len(sink \o u)
      BY <1>3, <1>4, <3>1
    <3> QED BY <1>1, <3>2, <3>3, Zenon DEF At
  <2> QED BY <1>1, <1>4, <2>2, <2>3, Zenon DEF LengthOnly, u
<1>10. Read(off)'
  <2>1. Sound' = Sound
    BY <1>1, Zenon DEF Sound
  <2>2. Len(got) \in {0} \cup Sound => pos = off[Len(got)]
    BY <1>7, <1>8, Zenon DEF Placed, Read
  <2>3. AllComplete => ~(Len(got) > Len(result))
    BY <1>1, NotAhead
  <2> QED BY <1>1, <1>7, <2>1, <2>2, <2>3, Zenon DEF Read
<1>11. Placed(off)'
  BY <1>7, <1>8, <1>9, <1>10, Zenon DEF Placed
<1> QED BY <1>5, <1>7, <1>11, Zenon DEF RecordsInv, PlacesInv

\* The writer ends, between two records or between a length and its record.
LEMMA CloseKeeps ==
  ASSUME RecordsInv, Close PROVE RecordsInv'
<1>1. /\ wpc # "closed" /\ wpc' = "closed" /\ sink' = sink /\ record' = record
      /\ result' = result /\ pos' = pos /\ data' = data /\ got' = got /\ rpc' = rpc
  BY DEF Close, reader
<1>2. RecordsType
  BY DEF RecordsInv
<1>3. RecordsType'
  BY <1>1, <1>2 DEF RecordsType
<1>4. sink' = sink \o << >> /\ << >> \in Seq(Nat) /\ UNCHANGED <<result, reader>>
  BY <1>1, <1>2 DEF RecordsType, reader
<1>5. /\ Intact' /\ Over' /\ rpc = "reading" /\ (AllComplete' <=> AllComplete)
      /\ \A off : Placed(off) => off \in [0 .. Len(result)' -> Nat] /\ Laid(off)'
  BY <1>1, <1>4, SameCalls
<1>6. PICK off : Placed(off)
  BY DEF RecordsInv, PlacesInv
<1>7. \A p : LengthOnly(p)' <=> LengthOnly(p)
  BY <1>1, Zenon DEF LengthOnly
<1>8. Written(off)'
  <2>1. wpc \in {"idle", "length"} \/ wpc = "data"
    BY <1>1, <1>2 DEF RecordsType
  <2>2. AllComplete => Len(sink) = off[Len(result)] \/ LengthOnly(off[Len(result)])
    BY <1>6, <2>1, Zenon DEF Placed, Written
  <2> QED BY <1>1, <1>5, <1>7, <2>2, Zenon DEF Written
<1>9. Read(off)'
  <2>1. Sound' = Sound
    BY <1>1, Zenon DEF Sound
  <2>2. Ahead => Ahead'
    BY <1>1, Zenon DEF Ahead
  <2>3. Read(off)
    BY <1>6, Zenon DEF Placed
  <2> QED BY <1>1, <1>5, <1>7, <2>1, <2>2, <2>3, Zenon DEF Read
<1>10. Placed(off)'
  BY <1>5, <1>6, <1>8, <1>9, Zenon DEF Placed
<1> QED BY <1>3, <1>5, <1>10, Zenon DEF RecordsInv, PlacesInv

\* The places with one more, e, for the call that is answered.
Extended(off, e) == [i \in 0 .. Len(result) + 1 |-> IF i <= Len(result) THEN off[i] ELSE e]

\* The places n after an answer of Put: those of off and e.
Continues(n, off, e) ==
  /\ n \in [0 .. Len(result)' -> Nat] /\ n[0] = 0
  /\ \A i \in 0 .. Len(result) : n[i] = off[i]
  /\ n[Len(result) + 1] = e
  /\ \A i \in Sound' : i # Len(result) + 1 =>
        /\ i \in Sound /\ result'[i] = result[i]
        /\ n[i] = n[i - 1] + Len(Encoded(result'[i].record))
        /\ At(sink', n[i - 1], Encoded(result'[i].record))

\* An answer of Put leaves the records before it where they are.
LEMMA Answered ==
  ASSUME RecordsInv, wpc # "closed", NEW t \in Seq(Nat), sink' = sink \o t,
         NEW x \in Result, NEW b \in BOOLEAN, x.ok = b, result' = Append(result, x),
         UNCHANGED <<record, reader>>, wpc' = "idle",
         NEW off, Placed(off), NEW e \in Nat
  PROVE  RecordsType' /\ rpc = "reading" /\ Over' /\ \E n : Continues(n, off, e)
<1>1. /\ RecordsType /\ off \in [0 .. Len(result) -> Nat] /\ off[0] = 0 /\ Laid(off)
      /\ Len(result) \in Nat /\ rpc = "reading"
  <2>1. RecordsType /\ rpc = "reading"
    BY DEF RecordsInv, Over
  <2>2. Len(result) \in Nat
    BY <2>1, SoundIs
  <2> QED BY <2>1, <2>2 DEF Placed
<1>2. /\ pos' = pos /\ data' = data /\ got' = got /\ rpc' = rpc /\ record' = record
  BY DEF reader
<1>3. RecordsType'
  <2>1. sink' \in Seq(Nat) /\ pos <= Len(sink')
    BY <1>1, Grown
  <2>2. result' \in Seq(Result)
    BY <1>1, SoundGrows
  <2> QED BY <1>1, <1>2, <2>1, <2>2 DEF RecordsType
<1>4. Over'
  BY <1>1, <1>2 DEF Over
<1>5. /\ Len(result') = Len(result) + 1
      /\ \A i \in 1 .. Len(result) : result'[i] = result[i]
      /\ \A i \in 1 .. Len(result) : i \in Sound' => i \in Sound
  BY <1>1, SoundGrows
<1>6. /\ Extended(off, e) \in [0 .. Len(result)' -> Nat]
      /\ \A i \in 0 .. Len(result) : Extended(off, e)[i] = off[i]
      /\ Extended(off, e)[Len(result) + 1] = e
  BY <1>1, <1>5 DEF Extended
<1>7. Extended(off, e)[0] = 0
  <2>1. 0 \in 0 .. Len(result)
    BY <1>1
  <2> QED BY <1>1, <1>6, <2>1, Zenon
<1>8. ASSUME NEW i \in Sound', i # Len(result) + 1
      PROVE  /\ i \in Sound /\ result'[i] = result[i]
             /\ Extended(off, e)[i] = Extended(off, e)[i - 1] + Len(Encoded(result'[i].record))
             /\ At(sink', Extended(off, e)[i - 1], Encoded(result'[i].record))
  <2>1. i \in 1 .. Len(result)
    <3>1. Sound' \subseteq 1 .. Len(result')
      <4>1. DOMAIN result' = 1 .. Len(result')
        BY <1>3 DEF RecordsType
      <4> QED BY <4>1, Zenon DEF Sound
    <3>2. i \in 1 .. Len(result) + 1
      BY <1>5, <3>1
    <3> QED BY <1>1, <1>8, <3>2
  <2>2. i \in Sound /\ result'[i] = result[i]
    BY <1>5, <2>1
  <2>3. i - 1 \in 0 .. Len(result) /\ i \in 0 .. Len(result)
    BY <1>1, <2>1
  <2>4. off[i] = off[i - 1] + Len(Encoded(result[i].record))
    BY <1>1, <2>2, Zenon DEF Laid
  <2>5. At(sink', off[i - 1], Encoded(result[i].record))
    BY <1>1, <2>2, LaidKept
  <2>6. Extended(off, e)[i] = off[i] /\ Extended(off, e)[i - 1] = off[i - 1]
    BY <1>6, <2>3, Zenon
  <2> QED BY <2>2, <2>4, <2>5, <2>6, Zenon
<1>9. Continues(Extended(off, e), off, e)
  BY <1>6, <1>7, <1>8, Zenon DEF Continues
<1> QED BY <1>1, <1>3, <1>4, <1>9, Zenon

\* A failed Put: whatever reached the pipe, no more is promised.
LEMMA FailureKeeps ==
  ASSUME RecordsInv, wpc # "closed", NEW t \in Seq(Nat), sink' = sink \o t,
         NEW x \in Result, x.ok = FALSE, result' = Append(result, x),
         UNCHANGED <<record, reader>>, wpc' = "idle"
  PROVE  RecordsInv'
<1>1. PICK off : Placed(off)
  BY DEF RecordsInv, PlacesInv
<1>2. RecordsType' /\ rpc = "reading" /\ Over' /\ \E n : Continues(n, off, 0)
  <2>1. FALSE \in BOOLEAN /\ 0 \in Nat
    OBVIOUS
  <2> QED BY <1>1, <2>1, Answered
<1>3. RecordsType /\ Intact /\ got' = got /\ pos' = pos /\ rpc' = rpc
  BY DEF RecordsInv, reader
<1>4. PICK n : Continues(n, off, 0)
  BY <1>2
<1>5. ~AllComplete' /\ ~(Len(result) + 1 \in Sound')
  BY <1>3, SoundGrows
<1>6. \A i \in Sound' : i \in Sound /\ result'[i] = result[i]
  BY <1>4, <1>5, Zenon DEF Continues
<1>7. Laid(n)'
  <2>1. \A i \in Sound' : /\ n[i] = n[i - 1] + Len(Encoded(result'[i].record))
                          /\ At(sink', n[i - 1], Encoded(result'[i].record))
    BY <1>4, <1>5, Zenon DEF Continues
  <2> QED BY <2>1, Zenon DEF Laid
<1>8. Intact'
  BY <1>3, <1>6, Zenon DEF Intact
<1>9. Read(n)'
  <2>1. ASSUME Len(got) \in {0} \cup Sound' PROVE pos = n[Len(got)]
    <3>1. Len(got) \in {0} \cup Sound
      BY <1>6, <2>1, Zenon
    <3>2. pos = off[Len(got)]
      BY <1>1, <1>2, <3>1, Zenon DEF Placed, Read
    <3>3. Len(got) \in 0 .. Len(result)
      BY <1>3, <3>1, SoundIs
    <3> QED BY <1>4, <3>2, <3>3, Zenon DEF Continues
  <2> QED BY <1>3, <1>5, <2>1, Zenon DEF Read
<1>10. Placed(n)'
  BY <1>4, <1>5, <1>7, <1>9, Zenon DEF Continues, Placed, Written
<1> QED BY <1>2, <1>8, <1>10, Zenon DEF RecordsInv, PlacesInv

\* The answers of Put.
LEMMA AnswerType ==
  ASSUME NEW r \in Seq(Nat), NEW n \in Nat, NEW b \in BOOLEAN
  PROVE  /\ [record |-> r, n |-> n, ok |-> b] \in Result
         /\ [record |-> r, n |-> n, ok |-> b].ok = b
         /\ [record |-> r, n |-> n, ok |-> b].record = r
         /\ [record |-> r, n |-> n, ok |-> FALSE] \in Result
         /\ [record |-> r, n |-> n, ok |-> FALSE].ok = FALSE
         /\ [record |-> r, n |-> n, ok |-> TRUE] \in Result
         /\ [record |-> r, n |-> n, ok |-> TRUE].ok = TRUE
<1>1. FALSE \in BOOLEAN /\ TRUE \in BOOLEAN
  OBVIOUS
<1> QED BY <1>1, Zenon DEF Result

\* A short write.
LEMMA ShortIs ==
  ASSUME NEW s \in Seq(Nat), NEW part \in ShortOf(s)
  PROVE  /\ part \in Seq(Nat) /\ Len(part) \in Nat /\ Len(part) < Len(s)
         /\ \A j \in 1 .. Len(part) : part[j] = s[j]
<1>1. PICK k \in 0 .. Len(s) - 1 : part = SubSeq(s, 1, k)
  BY DEF ShortOf
<1>2. k \in Nat /\ k <= Len(s) /\ k < Len(s)
  OBVIOUS
<1>3. part \in Seq(Nat) /\ Len(part) = k /\ \A j \in 1 .. k : part[j] = s[j]
  BY <1>1, <1>2, Prefix
<1> QED BY <1>2, <1>3

\* The first write of Put fails.
LEMMA LengthFailsKeeps ==
  ASSUME RecordsInv, LengthFails PROVE RecordsInv'
<1> DEFINE u == Uvarint[Len(record)]
<1>1. record \in Seq(Nat)
  BY DEF RecordsInv, RecordsType
<1>2. u \in Seq(Nat)
  BY <1>1, Encodes
<1>3. PICK t \in ShortOf(u) : sink' = sink \o t
  BY DEF LengthFails
<1>4. t \in Seq(Nat)
  BY <1>2, ShortIs
<1> DEFINE x == [record |-> record, n |-> 0, ok |-> FALSE]
<1>5. x \in Result /\ x.ok = FALSE
  <2>1. 0 \in Nat /\ FALSE \in BOOLEAN
    OBVIOUS
  <2> QED BY <1>1, <2>1, AnswerType, Zenon
<1>6. wpc # "closed" /\ result' = Append(result, x) /\ wpc' = "idle"
  BY DEF LengthFails, Returned
<1>7. UNCHANGED <<record, reader>>
  BY DEF LengthFails
<1> HIDE DEF x
<1> QED BY <1>3, <1>4, <1>5, <1>6, <1>7, FailureKeeps

\* The second write of Put fails.
LEMMA DataFailsKeeps ==
  ASSUME RecordsInv, DataFails PROVE RecordsInv'
<1> DEFINE k == Len(Uvarint[Len(record)])
<1>1. record \in Seq(Nat)
  BY DEF RecordsInv, RecordsType
<1>2. k \in Nat
  BY <1>1, Encodes
<1>3. PICK t \in ShortOf(record) : sink' = sink \o t
  BY DEF DataFails
<1>4. t \in Seq(Nat)
  BY <1>1, ShortIs
<1> DEFINE x == [record |-> record, n |-> k, ok |-> FALSE]
<1>5. x \in Result /\ x.ok = FALSE
  <2>1. FALSE \in BOOLEAN
    OBVIOUS
  <2> HIDE DEF k
  <2> QED BY <1>1, <1>2, <2>1, AnswerType, Zenon
<1>6. wpc # "closed" /\ result' = Append(result, x) /\ wpc' = "idle"
  BY DEF DataFails, Returned
<1>7. UNCHANGED <<record, reader>>
  BY DEF DataFails
<1> HIDE DEF x
<1> QED BY <1>3, <1>4, <1>5, <1>6, <1>7, FailureKeeps

\* What the invariant says of a reader that has all the records and perhaps
\* one more.
LEMMA ReadFacts ==
  ASSUME RecordsInv, NEW off, Placed(off), rpc = "reading"
  PROVE  /\ Len(got) \in {0} \cup Sound => pos = off[Len(got)]
         /\ AllComplete /\ Len(got) > Len(result) =>
              /\ Len(got) = Len(result) + 1 /\ wpc \in {"data", "closed"} /\ record = << >>
              /\ got[Len(got)] = << >> /\ pos = Len(sink)
              /\ Len(sink) = off[Len(result)] + Len(Uvarint[Len(record)])
         /\ Len(got) \in Nat /\ DOMAIN got = 1 .. Len(got)
<1>1. Len(got) \in Nat /\ DOMAIN got = 1 .. Len(got)
  BY DEF RecordsInv, RecordsType
<1> QED BY <1>1, Zenon DEF Placed, Read, Ahead, LengthOnly

\* The record is written: one more place, and a reader that was ahead with an
\* empty record is at it.
LEMMA WriteDataKeeps ==
  ASSUME RecordsInv, WriteData PROVE RecordsInv'
<1>1. /\ wpc = "data" /\ sink' = sink \o record /\ wpc' = "idle"
      /\ record' = record /\ got' = got /\ pos' = pos /\ rpc' = rpc
      /\ UNCHANGED <<record, reader>>
  BY DEF WriteData, Returned, reader
<1>2. RecordsType /\ Intact /\ rpc = "reading" /\ record \in Seq(Nat) /\ sink \in Seq(Nat)
  BY <1>1 DEF RecordsInv, Over, RecordsType
<1>3. PICK off : Placed(off)
  BY DEF RecordsInv, PlacesInv
<1>4. /\ Len(result) \in Nat /\ off[Len(result)] \in Nat /\ Len(record) \in Nat
      /\ Len(Uvarint[Len(record)]) \in Nat /\ Len(Encoded(record)) \in Nat
      /\ Len(Encoded(record)) = Len(Uvarint[Len(record)]) + Len(record)
  <2>1. Len(result) \in Nat /\ Len(result) \in 0 .. Len(result)
    BY <1>2, SoundIs
  <2>2. off[Len(result)] \in Nat
    BY <1>3, <2>1 DEF Placed
  <2>3. /\ Len(record) \in Nat /\ Len(Uvarint[Len(record)]) \in Nat
        /\ Len(Encoded(record)) = Len(Uvarint[Len(record)]) + Len(record)
    BY <1>2, Encodes
  <2> QED BY <2>1, <2>2, <2>3
<1>5. PICK e \in Nat : e = off[Len(result)] + Len(Encoded(record))
  BY <1>4
<1>6. PICK x \in Result : x.ok = TRUE /\ x.record = record /\ result' = Append(result, x)
  <2> DEFINE k == Len(Uvarint[Len(record)]) + Len(record)
             y == [record |-> record, n |-> k, ok |-> TRUE]
  <2>1. k \in Nat
    BY <1>4
  <2>2. result' = Append(result, y)
    BY DEF WriteData, Returned
  <2> HIDE DEF k
  <2>3. y \in Result /\ y.ok = TRUE
    BY <1>2, <2>1, AnswerType, Zenon
  <2>4. y.record = record
    OBVIOUS
  <2> HIDE DEF y
  <2> QED BY <2>2, <2>3, <2>4, Zenon
<1>7. RecordsType' /\ Over' /\ \E n : Continues(n, off, e)
  <2>1. TRUE \in BOOLEAN
    OBVIOUS
  <2> QED BY <1>1, <1>2, <1>3, <1>6, <2>1, Answered
<1>8. PICK n : Continues(n, off, e)
  BY <1>7
<1>9. /\ Len(result') = Len(result) + 1 /\ result'[Len(result) + 1] = x
      /\ AllComplete' <=> AllComplete
      /\ Len(result) + 1 \in Sound' => AllComplete
  <2>1. TRUE \in BOOLEAN
    OBVIOUS
  <2> QED BY <1>2, <1>6, <2>1, SoundGrows
<1>10. AllComplete => At(sink', off[Len(result)], Encoded(record)) /\ Len(sink') = e
  <2>1. SUFFICES ASSUME AllComplete
                 PROVE  At(sink', off[Len(result)], Encoded(record)) /\ Len(sink') = e
    OBVIOUS
  <2>2. /\ Len(sink) = off[Len(result)] + Len(Uvarint[Len(record)])
        /\ At(sink, off[Len(result)], Uvarint[Len(record)])
    BY <1>1, <1>3, <2>1, Zenon DEF Placed, Written, LengthOnly
  <2> QED BY <1>1, <1>2, <1>4, <1>5, <2>2, AtWhole, Zenon
<1>11. Laid(n)'
  <2>1. Len(result) + 1 - 1 = Len(result) /\ Len(result) \in 0 .. Len(result)
    BY <1>4
  <2>2. ASSUME Len(result) + 1 \in Sound'
        PROVE  /\ n[Len(result) + 1]
                    = n[Len(result) + 1 - 1] + Len(Encoded(result'[Len(result) + 1].record))
               /\ At(sink', n[Len(result) + 1 - 1], Encoded(result'[Len(result) + 1].record))
    <3>1. n[Len(result)] = off[Len(result)] /\ n[Len(result) + 1] = e
      BY <1>8, <2>1, Zenon DEF Continues
    <3>2. result'[Len(result) + 1].record = record
      BY <1>6, <1>9, Zenon
    <3>3. At(sink', off[Len(result)], Encoded(record))
      BY <1>9, <1>10, <2>2
    <3> QED BY <1>5, <2>1, <3>1, <3>2, <3>3, Zenon
  <2>3. ASSUME NEW i \in Sound'
        PROVE  /\ n[i] = n[i - 1] + Len(Encoded(result'[i].record))
               /\ At(sink', n[i - 1], Encoded(result'[i].record))
    <3>1. CASE i # Len(result) + 1
      BY <1>8, <3>1, Zenon DEF Continues
    <3>2. CASE i = Len(result) + 1
      <4>1. Len(result) + 1 \in Sound'
        BY <2>3, <3>2
      <4>2. i = Len(result) + 1 /\ i - 1 = Len(result) + 1 - 1
        BY <3>2
      <4> QED BY <2>2, <4>1, <4>2
    <3> QED BY <3>1, <3>2
  <2> QED BY <2>3, Zenon DEF Laid
<1>12. AllComplete /\ Len(got) > Len(result) =>
         /\ Len(got) = Len(result) + 1 /\ record = << >>
         /\ got[Len(got)] = << >> /\ pos = Len(sink)
         /\ Len(sink) = off[Len(result)] + Len(Uvarint[Len(record)])
  BY <1>2, <1>3, ReadFacts
<1>13. Intact'
  <2> SUFFICES ASSUME NEW i \in Sound', i \in DOMAIN got
               PROVE  got[i] = result'[i].record
    BY <1>1, Zenon DEF Intact
  <2>1. CASE i # Len(result) + 1
    BY <1>2, <1>8, <2>1, Zenon DEF Intact, Continues
  <2>2. CASE i = Len(result) + 1
    <3>1. AllComplete
      BY <1>9, <2>2, Zenon
    <3>2. Len(got) > Len(result)
      <4>1. DOMAIN got = 1 .. Len(got) /\ Len(got) \in Nat
        BY <1>2 DEF RecordsType
      <4> QED BY <1>4, <2>2, <4>1
    <3>3. got[i] = record
      BY <1>12, <2>2, <3>1, <3>2, Zenon
    <3>4. result'[i].record = record
      BY <1>6, <1>9, <2>2, Zenon
    <3> QED BY <3>3, <3>4
  <2> QED BY <2>1, <2>2
<1>14. Written(n)'
  <2>1. n[Len(result')] = e
    BY <1>8, <1>9, Zenon DEF Continues
  <2>2. wpc' # "data" /\ wpc' # "closed"
    BY <1>1
  <2> QED BY <1>9, <1>10, <2>1, <2>2, Zenon DEF Written
<1>15. Read(n)'
  <2>1. ASSUME Len(got) \in {0} \cup Sound' PROVE pos = n[Len(got)]
    <3>1. CASE Len(got) # Len(result) + 1
      <4>1. Len(got) \in {0} \cup Sound
        BY <1>8, <2>1, <3>1, Zenon DEF Continues
      <4>2. pos = off[Len(got)]
        BY <1>2, <1>3, <4>1, ReadFacts
      <4>3. Len(got) \in 0 .. Len(result)
        BY <1>2, <4>1, SoundIs
      <4> QED BY <1>8, <4>2, <4>3, Zenon DEF Continues
    <3>2. CASE Len(got) = Len(result) + 1
      <4>1. Len(got) > Len(result) /\ Len(result) + 1 # 0
        BY <1>4, <3>2
      <4>2. AllComplete
        BY <1>9, <2>1, <3>2, <4>1, Zenon
      <4>3. pos = off[Len(result)] + Len(Uvarint[Len(record)]) /\ Len(record) = 0
        BY <1>12, <4>1, <4>2
      <4>4. pos = e
        BY <1>4, <1>5, <4>3
      <4> QED BY <1>8, <3>2, <4>4, Zenon DEF Continues
    <3> QED BY <3>1, <3>2
  <2>2. ~(AllComplete' /\ Len(got) > Len(result'))
    <3>1. SUFFICES ASSUME AllComplete, Len(got) > Len(result) + 1 PROVE FALSE
      BY <1>9, Zenon
    <3>2. Len(got) > Len(result) /\ Len(got) # Len(result) + 1
      <4>1. Len(got) \in Nat
        BY <1>2 DEF RecordsType
      <4> QED BY <1>4, <3>1, <4>1
    <3> QED BY <1>12, <3>1, <3>2, Zenon
  <2> QED BY <1>1, <2>1, <2>2, Zenon DEF Read
<1>16. Placed(n)'
  BY <1>8, <1>11, <1>14, <1>15, Zenon DEF Continues, Placed
<1> QED BY <1>7, <1>13, <1>16, Zenon DEF RecordsInv, PlacesInv

(***************************************************************************)
(* The steps of the reader.                                                *)
(***************************************************************************)

\* Before a record put without a failure Next finds its length.
LEMMA NextSound ==
  ASSUME RecordsInv, NEW off, Placed(off), rpc = "reading", Len(got) + 1 \in Sound,
         NEW r, r = result[Len(got) + 1].record
  PROVE  /\ r \in Seq(Nat) /\ pos = off[Len(got)] /\ At(sink, pos, Encoded(r))
         /\ off[Len(got) + 1] = pos + Len(Encoded(r))
         /\ Length(Rest) = Len(Uvarint[Len(r)])
         /\ Value(SubSeq(Rest, 1, Length(Rest))) = Len(r)
<1>1. /\ RecordsType /\ off \in [0 .. Len(result) -> Nat] /\ Laid(off)
      /\ Len(got) \in Nat /\ Len(result) \in Nat
  BY ReadFacts, SoundIs DEF RecordsInv, Placed
<1>2. Len(got) + 1 - 1 = Len(got) /\ Len(got) + 1 \in 1 .. Len(result)
  BY <1>1, SoundIs
<1>3. r \in Seq(Nat)
  BY <1>1, SoundPlace
<1>4. Len(got) \in {0} \cup Sound
  <2>1. CASE Len(got) = 0
    BY <2>1
  <2>2. CASE Len(got) # 0
    <3>1. Len(got) \in 1 .. Len(result) /\ Len(got) <= Len(got) + 1
      BY <1>1, <1>2, <2>2
    <3> QED BY <1>1, <3>1, SoundIs
  <2> QED BY <2>1, <2>2
<1>5. pos = off[Len(got)]
  BY <1>4, ReadFacts
<1>6. /\ off[Len(got) + 1] = off[Len(got) + 1 - 1] + Len(Encoded(r))
      /\ At(sink, off[Len(got) + 1 - 1], Encoded(r))
  <2>1. \A i \in Sound : /\ off[i] = off[i - 1] + Len(Encoded(result[i].record))
                         /\ At(sink, off[i - 1], Encoded(result[i].record))
    BY <1>1, Zenon DEF Laid
  <2> QED BY <2>1
<1>7. off[Len(got) + 1] = pos + Len(Encoded(r)) /\ At(sink, pos, Encoded(r))
  BY <1>2, <1>5, <1>6
<1>8. At(sink, pos, Uvarint[Len(r)])
  <2>1. sink \in Seq(Nat) /\ pos \in Nat
    BY <1>1 DEF RecordsType
  <2> QED BY <1>3, <1>7, <2>1, AtWhole
<1>9. Length(Rest) = Len(Uvarint[Len(r)]) /\ Value(SubSeq(Rest, 1, Length(Rest))) = Len(r)
  BY <1>1, <1>3, <1>8, LengthRead
<1> QED BY <1>3, <1>5, <1>7, <1>9

\* A step of the reader leaves the records where they are.
LEMMA WriterKept ==
  ASSUME UNCHANGED writer
  PROVE  /\ sink' = sink /\ wpc' = wpc /\ record' = record /\ result' = result
         /\ Sound' = Sound /\ (AllComplete' <=> AllComplete)
         /\ \A off : (Laid(off)' <=> Laid(off)) /\ (Written(off)' <=> Written(off))
         /\ \A p : LengthOnly(p)' <=> LengthOnly(p)
<1>1. sink' = sink /\ wpc' = wpc /\ record' = record /\ result' = result
  BY DEF writer
<1>2. Sound' = Sound /\ (AllComplete' <=> AllComplete)
  BY <1>1, Zenon DEF Sound, AllComplete
<1>3. \A off : Laid(off)' <=> Laid(off)
  BY <1>1, <1>2, Zenon DEF Laid
<1>4. \A p : LengthOnly(p)' <=> LengthOnly(p)
  BY <1>1, Zenon DEF LengthOnly
<1>5. \A off : Written(off)' <=> Written(off)
  BY <1>1, <1>2, <1>4, Zenon DEF Written
<1> QED BY <1>1, <1>2, <1>3, <1>4, <1>5, Zenon

\* The reader ends where no length is: it has all the records.
LEMMA NoLengthKeeps ==
  ASSUME RecordsInv, NoLength PROVE RecordsInv'
<1>1. /\ rpc = "reading" /\ wpc = "closed" /\ Length(Rest) = 0 /\ got' = got
      /\ pos' = Len(sink) /\ data' = data /\ rpc' \in {"EOF", "ErrUnexpectedEOF"}
      /\ UNCHANGED writer
  <2>1. PICK err \in {"EOF", "ErrUnexpectedEOF"} : rpc' = err /\ got' = got /\ UNCHANGED writer
    BY DEF NoLength, End
  <2>2. /\ rpc = "reading" /\ wpc = "closed" /\ Length(Rest) = 0
        /\ pos' = Len(sink) /\ data' = data
    BY DEF NoLength, Exhausted, Ended
  <2> QED BY <2>1, <2>2, Zenon
<1>2. /\ sink' = sink /\ wpc' = wpc /\ record' = record /\ result' = result
      /\ Sound' = Sound /\ (AllComplete' <=> AllComplete)
      /\ \A off : (Laid(off)' <=> Laid(off)) /\ (Written(off)' <=> Written(off))
  BY <1>1, WriterKept
<1>3. RecordsType /\ Intact
  BY DEF RecordsInv
<1>4. RecordsType'
  BY <1>1, <1>2, <1>3 DEF RecordsType
<1>5. Intact'
  BY <1>1, <1>2, <1>3, Zenon DEF Intact
<1>6. PICK off : Placed(off)
  BY DEF RecordsInv, PlacesInv
<1>7. rpc' # "reading"
  BY <1>1
<1>8. Placed(off)'
  BY <1>2, <1>6, <1>7, Zenon DEF Placed, Read
<1>9. ASSUME AllComplete PROVE Len(got) = Len(result) \/ Ahead
  <2>1. Len(got) \in Nat /\ Len(result) \in Nat /\ Sound = 1 .. Len(result)
    BY <1>1, <1>3, <1>6, <1>9, ReadFacts, SoundIs
  <2>2. CASE Len(got) > Len(result)
    BY <1>1, <1>6, <1>9, <2>2, ReadFacts, Zenon DEF Ahead
  <2>3. CASE Len(got) < Len(result)
    <3>1. Len(got) + 1 \in Sound
      BY <2>1, <2>3
    <3>2. PICK r : r = result[Len(got) + 1].record
      OBVIOUS
    <3>3. r \in Seq(Nat) /\ Length(Rest) = Len(Uvarint[Len(r)])
      BY <1>1, <1>6, <3>1, <3>2, NextSound
    <3>4. Len(Uvarint[Len(r)]) # 0
      BY <3>3, Encodes
    <3> QED BY <1>1, <3>3, <3>4
  <2> QED BY <2>1, <2>2, <2>3
<1>10. Ahead => Ahead'
  BY <1>1, <1>2, Zenon DEF Ahead
<1>11. Over'
  BY <1>1, <1>2, <1>9, <1>10, Zenon DEF Over
<1> QED BY <1>4, <1>5, <1>8, <1>11, Zenon DEF RecordsInv, PlacesInv

\* The reader takes the record put at this place, or an empty one that is not
\* yet answered, or ends within a record whose Put never returned.
LEMMA NextRecordKeeps ==
  ASSUME RecordsInv, NextRecord PROVE RecordsInv'
<1>1. RecordsType /\ Intact
  BY DEF RecordsInv
<1>2. PICK head \in Nat, size \in Nat, have \in Nat, body \in Seq(Nat) :
         Reads(head, size, have, body)
  BY <1>1, NextStep
<1>3. /\ head = Length(Rest) /\ head > 0 /\ head <= Len(Rest)
      /\ size = Value(SubSeq(Rest, 1, Length(Rest)))
      /\ Len(body) = Len(sink) - pos - head
      /\ \A j \in 1 .. Len(body) : body[j] = sink[pos + head + j]
      /\ have = IF Len(body) < size THEN Len(body) ELSE size
      /\ have < size => wpc = "closed"
      /\ pos' = pos + head + have /\ pos' <= Len(sink) /\ data' \in Seq(Nat)
      /\ UNCHANGED writer /\ rpc = "reading"
  BY <1>2, Zenon DEF Reads
<1>4. /\ sink' = sink /\ wpc' = wpc /\ record' = record /\ result' = result
      /\ Sound' = Sound /\ (AllComplete' <=> AllComplete)
      /\ \A off : (Laid(off)' <=> Laid(off)) /\ (Written(off)' <=> Written(off))
      /\ \A p : LengthOnly(p)' <=> LengthOnly(p)
  BY <1>3, WriterKept
<1>5. PICK off : Placed(off)
  BY DEF RecordsInv, PlacesInv
<1>6. /\ got \in Seq(Seq(Nat)) /\ Len(got) \in Nat /\ DOMAIN got = 1 .. Len(got)
      /\ Len(result) \in Nat /\ Sound \subseteq 1 .. Len(result)
      /\ Len(sink) \in Nat /\ pos \in Nat /\ Len(Rest) = Len(sink) - pos
      /\ sink \in Seq(Nat) /\ Len(body) \in Nat
  BY <1>1, SoundIs, RestIs DEF RecordsType
<1>7. /\ head > 0 /\ have = IF Len(body) < size THEN Len(body) ELSE size
      /\ Len(body) = Len(sink) - pos - head /\ pos' = pos + head + have
      /\ Len(sink) \in Nat /\ pos \in Nat /\ Len(body) \in Nat
      /\ pos' \in Nat
  <2>1. \A a \in Nat, b \in Nat, c \in Nat : a + b + c \in Nat
    OBVIOUS
  <2>2. pos' \in Nat
    BY <1>3, <1>6, <2>1, Zenon
  <2> QED BY <1>3, <1>6, <2>2, Zenon
<1>8. ASSUME rpc' \in {"reading", "EOF", "ErrUnexpectedEOF"}, got' \in Seq(Seq(Nat))
      PROVE  RecordsType'
  <2>1. pos' <= Len(sink') /\ data' \in Seq(Nat)
    BY <1>3, <1>4, Zenon
  <2> QED BY <1>1, <1>4, <1>7, <1>8, <2>1, Zenon DEF RecordsType
\* What the last Put that returned left of the pipe, when all succeeded.
<1>9. ASSUME AllComplete, Len(got) + 1 \notin Sound
      PROVE  /\ Len(got) = Len(result) /\ wpc \in {"data", "closed"}
             /\ LengthOnly(pos) /\ pos = off[Len(result)] /\ record \in Seq(Nat)
             /\ size = Len(record) /\ have = 0 /\ pos + head = Len(sink)
  <2>1. Sound = 1 .. Len(result)
    BY <1>1, <1>9, SoundIs
  <2>2. ~(Len(got) > Len(result))
    <3> SUFFICES ASSUME Len(got) > Len(result) PROVE FALSE
      OBVIOUS
    <3>1. pos = Len(sink)
      BY <1>3, <1>5, <1>9, ReadFacts
    <3> QED BY <1>3, <1>6, <3>1
  <2>3. Len(got) = Len(result)
    BY <1>6, <1>9, <2>1, <2>2
  <2>4. pos = off[Len(result)]
    <3>1. Len(got) \in {0} \cup Sound
      BY <1>6, <2>1, <2>3
    <3> QED BY <1>3, <1>5, <2>3, <3>1, ReadFacts
  <2>5. Len(sink) # off[Len(result)]
    BY <1>3, <1>6, <2>4
  <2>6. wpc \in {"data", "closed"} /\ LengthOnly(off[Len(result)])
    <3>1. wpc \in {"idle", "length"} \/ wpc = "data" \/ wpc = "closed"
      BY <1>1 DEF RecordsType
    <3>2. wpc \notin {"idle", "length"}
      BY <1>5, <1>9, <2>5, Zenon DEF Placed, Written
    <3>3. LengthOnly(off[Len(result)])
      BY <1>5, <1>9, <2>5, <3>1, <3>2, Zenon DEF Placed, Written
    <3> QED BY <3>1, <3>2, <3>3
  <2>7. LengthOnly(pos)
    BY <2>4, <2>6, Zenon
  <2>8. record \in Seq(Nat) /\ At(sink, pos, Uvarint[Len(record)])
        /\ Len(sink) = pos + Len(Uvarint[Len(record)])
    BY <1>1, <2>7 DEF RecordsType, LengthOnly
  <2>9. head = Len(Uvarint[Len(record)]) /\ size = Len(record)
    BY <1>1, <1>3, <2>8, LengthRead
  <2>10. pos + head = Len(sink) /\ Len(body) = 0
    BY <1>3, <1>6, <2>8, <2>9
  <2>11. have = 0
    BY <1>3, <2>10
  <2> QED BY <2>3, <2>4, <2>6, <2>7, <2>8, <2>9, <2>10, <2>11
<1>10. CASE have < size
  <2>1. got' = got /\ rpc' \in {"EOF", "ErrUnexpectedEOF"}
    <3>1. have # size
      BY <1>10
    <3>2. got' = got /\ rpc' = ReadFullError(have)
      BY <1>2, <3>1, Zenon DEF Reads
    <3> QED BY <3>2 DEF ReadFullError
  <2>2. RecordsType'
    <3>1. rpc' \in {"reading", "EOF", "ErrUnexpectedEOF"} /\ got' \in Seq(Seq(Nat))
      BY <1>6, <2>1
    <3> QED BY <1>8, <3>1
  <2>3. Intact'
    BY <1>1, <1>4, <2>1, Zenon DEF Intact
  <2>4. rpc' # "reading"
    BY <2>1
  <2>5. Placed(off)'
    BY <1>4, <1>5, <2>4, Zenon DEF Placed, Read
  <2>6. Len(got) + 1 \notin Sound
    <3> SUFFICES ASSUME Len(got) + 1 \in Sound PROVE FALSE
      OBVIOUS
    <3>1. PICK r : r = result[Len(got) + 1].record
      OBVIOUS
    <3>2. /\ r \in Seq(Nat) /\ At(sink, pos, Encoded(r))
          /\ Length(Rest) = Len(Uvarint[Len(r)])
          /\ Value(SubSeq(Rest, 1, Length(Rest))) = Len(r)
      BY <1>3, <1>5, <3>1, NextSound
    <3>3. Len(r) \in Nat /\ Len(Encoded(r)) = Len(Uvarint[Len(r)]) + Len(r)
      BY <3>2, Encodes
    <3>4. pos + Len(Encoded(r)) <= Len(sink)
      BY <3>2 DEF At
    <3>5. head = Len(Uvarint[Len(r)]) /\ size = Len(r)
      BY <1>3, <3>2
    <3>6. pos + (Len(Uvarint[Len(r)]) + Len(r)) <= Len(sink) /\ Len(r) \in Nat
      BY <3>3, <3>4, Zenon
    <3>7. pos + (head + size) <= Len(sink)
      BY <3>5, <3>6, Zenon
    <3> QED BY <1>10, <1>7, <3>7
  <2>7. Over'
    <3>1. wpc = "closed" /\ (AllComplete => Len(got) = Len(result))
      BY <1>3, <1>9, <1>10, <2>6
    <3> QED BY <1>4, <2>1, <3>1, Zenon DEF Over
  <2> QED BY <2>2, <2>3, <2>5, <2>7, Zenon DEF RecordsInv, PlacesInv
<1>11. CASE have = size
  <2>1. /\ rpc' = rpc
        /\ \E x \in Seq(Nat) : /\ got' = Append(got, x) /\ Len(x) = size
                              /\ \A j \in 1 .. size : x[j] = body[j]
    <3>1. ~(have < size)
      BY <1>11
    <3> QED BY <1>2, <3>1, Zenon DEF Reads
  <2>2. PICK x \in Seq(Nat) : /\ got' = Append(got, x) /\ Len(x) = size
                              /\ \A j \in 1 .. size : x[j] = body[j]
    BY <2>1
  <2>3. /\ got' \in Seq(Seq(Nat)) /\ Len(got') = Len(got) + 1
        /\ \A i \in 1 .. Len(got) : got'[i] = got[i]
        /\ got'[Len(got) + 1] = x /\ DOMAIN got' = 1 .. Len(got) + 1
    BY <1>6, <2>2
  <2>4. RecordsType'
    <3>1. rpc' \in {"reading", "EOF", "ErrUnexpectedEOF"}
      BY <1>3, <2>1
    <3> QED BY <1>8, <2>3, <3>1
  <2>5. Over'
    BY <1>3, <2>1, Zenon DEF Over
  <2>6. ASSUME Len(got) + 1 \in Sound
        PROVE  x = result[Len(got) + 1].record /\ pos' = off[Len(got) + 1]
    <3>1. PICK r : r = result[Len(got) + 1].record
      OBVIOUS
    <3>2. /\ r \in Seq(Nat) /\ At(sink, pos, Encoded(r))
          /\ off[Len(got) + 1] = pos + Len(Encoded(r))
          /\ Length(Rest) = Len(Uvarint[Len(r)])
          /\ Value(SubSeq(Rest, 1, Length(Rest))) = Len(r)
      BY <1>3, <1>5, <2>6, <3>1, NextSound
    <3>3. /\ Len(r) \in Nat /\ Len(Encoded(r)) = Len(Uvarint[Len(r)]) + Len(r)
          /\ Len(Uvarint[Len(r)]) \in Nat
          /\ \A j \in 1 .. Len(r) : Encoded(r)[Len(Uvarint[Len(r)]) + j] = r[j]
      BY <3>2, Encodes
    <3>4. head = Len(Uvarint[Len(r)]) /\ size = Len(r)
      BY <1>3, <3>2
    <3>5. pos' = off[Len(got) + 1]
      <4>1. off[Len(got) + 1] = pos + (head + size)
        BY <3>2, <3>3, <3>4, Zenon
      <4>2. pos \in Nat /\ pos' = pos + head + have
        BY <1>7
      <4>3. pos' = pos + (head + size)
        BY <1>11, <4>2
      <4> QED BY <4>1, <4>3
    <3>6. \A j \in 1 .. Len(Encoded(r)) : sink[pos + j] = Encoded(r)[j]
      BY <3>2 DEF At
    <3>7. ASSUME NEW j \in 1 .. size PROVE x[j] = r[j]
      <4>1. /\ head + j \in 1 .. Len(Encoded(r)) /\ pos + (head + j) = pos + head + j
            /\ j \in 1 .. Len(body) /\ j \in 1 .. Len(r)
        <5>1. Len(Encoded(r)) = head + size
          BY <3>3, <3>4, Zenon
        <5>2. /\ head + j \in 1 .. head + size /\ pos + (head + j) = pos + head + j
              /\ j \in 1 .. Len(body)
          BY <1>11, <1>7
        <5> QED BY <3>4, <5>1, <5>2, Zenon
      <4>2. x[j] = sink[pos + head + j]
        BY <1>3, <2>2, <4>1, Zenon
      <4>3. sink[pos + (head + j)] = Encoded(r)[head + j]
        BY <3>6, <4>1, Zenon
      <4>4. Encoded(r)[head + j] = r[j]
        BY <3>3, <3>4, <4>1, Zenon
      <4> QED BY <4>1, <4>2, <4>3, <4>4, Zenon
    <3>8. x = r
      BY <2>2, <3>2, <3>4, <3>7, SeqEqual
    <3> QED BY <3>1, <3>5, <3>8
  <2>7. Intact'
    <3> SUFFICES ASSUME NEW i \in Sound, i \in DOMAIN got'
                 PROVE  got'[i] = result[i].record
      BY <1>4, Zenon DEF Intact
    <3>1. CASE i = Len(got) + 1
      BY <2>3, <2>6, <3>1
    <3>2. CASE i # Len(got) + 1
      <4>1. i \in 1 .. Len(got)
        BY <1>6, <2>3, <3>2
      <4>2. got[i] = result[i].record
        BY <1>1, <1>6, <4>1, Zenon DEF Intact
      <4> QED BY <2>3, <4>1, <4>2
    <3> QED BY <3>1, <3>2
  <2>8. Read(off)'
    <3>1. Len(got') \in {0} \cup Sound => pos' = off[Len(got')]
      <4>1. Len(got') # 0
        BY <1>6, <2>3
      <4> QED BY <2>3, <2>6, <4>1, Zenon
    <3>2. ASSUME AllComplete, Len(got') > Len(result)
          PROVE  Ahead' /\ pos' = Len(sink) /\ LengthOnly(off[Len(result)])
      <4>1. Len(got) + 1 \notin Sound
        BY <1>6, <2>3, <3>2
      <4>2. /\ Len(got) = Len(result) /\ wpc \in {"data", "closed"}
            /\ LengthOnly(pos) /\ pos = off[Len(result)] /\ record \in Seq(Nat)
            /\ size = Len(record) /\ have = 0 /\ pos + head = Len(sink)
        BY <1>9, <3>2, <4>1
      <4>3. record = << >> /\ x = << >>
        <5>1. Len(record) = 0 /\ Len(x) = 0
          BY <1>11, <2>2, <4>2
        <5> QED BY <4>2, <5>1
      <4>4. Len(got') = Len(result) + 1 /\ got'[Len(got')] = << >>
        BY <2>3, <4>2, <4>3
      <4>5. Ahead'
        BY <1>4, <4>2, <4>3, <4>4, Zenon DEF Ahead
      <4>6. pos' = Len(sink)
        <5>1. \A a \in Nat : a + 0 = a
          OBVIOUS
        <5> QED BY <1>7, <4>2, <5>1, Zenon
      <4> QED BY <4>2, <4>5, <4>6
    <3> QED BY <1>4, <3>1, <3>2, Zenon DEF Read
  <2>9. Placed(off)'
    BY <1>4, <1>5, <2>8, Zenon DEF Placed
  <2> QED BY <2>4, <2>5, <2>7, <2>9, Zenon DEF RecordsInv, PlacesInv
<1>12. have < size \/ have = size
  BY <1>3, <1>6
<1> QED BY <1>10, <1>11, <1>12

(***************************************************************************)
(* What is read.                                                           *)
(***************************************************************************)

\* Nothing is written and nothing read.
LEMMA RecordsInit == Init => RecordsInv
<1> SUFFICES ASSUME Init PROVE RecordsInv
  OBVIOUS
<1>1. /\ sink = << >> /\ wpc = "idle" /\ record = << >> /\ result = << >> /\ pos = 0
      /\ data = << >> /\ got = << >> /\ rpc = "reading"
  BY DEF Init
<1>2. RecordsType
  BY <1>1 DEF RecordsType
<1>3. Sound = {} /\ Len(result) = 0 /\ Len(got) = 0 /\ Len(sink) = 0
  <2>1. DOMAIN result = {} /\ Len(result) = 0 /\ Len(got) = 0 /\ Len(sink) = 0
    BY <1>1
  <2> QED BY <2>1, Zenon DEF Sound
<1>4. Intact /\ Over
  BY <1>1, <1>3 DEF Intact, Over
<1>5. PICK off \in [0 .. 0 -> Nat] : off[0] = 0
  <2>1. [i \in 0 .. 0 |-> 0] \in [0 .. 0 -> Nat] /\ [i \in 0 .. 0 |-> 0][0] = 0
    OBVIOUS
  <2> QED BY <2>1
<1>6. Placed(off)
  <2>1. Laid(off)
    BY <1>3, Zenon DEF Laid
  <2>2. Written(off)
    BY <1>1, <1>3, <1>5 DEF Written
  <2>3. Read(off)
    BY <1>1, <1>3, <1>5 DEF Read
  <2> QED BY <1>3, <1>5, <2>1, <2>2, <2>3, Zenon DEF Placed
<1> QED BY <1>2, <1>4, <1>6, Zenon DEF RecordsInv, PlacesInv

\* A step of something else.
LEMMA RecordsStutter ==
  ASSUME RecordsInv, UNCHANGED vars PROVE RecordsInv'
<1>1. /\ pos' = pos /\ data' = data /\ got' = got /\ rpc' = rpc /\ UNCHANGED writer
  BY DEF vars, reader
<1>2. /\ sink' = sink /\ wpc' = wpc /\ record' = record /\ result' = result
      /\ Sound' = Sound /\ (AllComplete' <=> AllComplete)
      /\ \A off : (Laid(off)' <=> Laid(off)) /\ (Written(off)' <=> Written(off))
      /\ \A p : LengthOnly(p)' <=> LengthOnly(p)
  BY <1>1, WriterKept
<1>3. Ahead' <=> Ahead
  BY <1>1, <1>2, Zenon DEF Ahead
<1>4. RecordsType'
  BY <1>1, <1>2 DEF RecordsInv, RecordsType
<1>5. Intact' /\ Over'
  BY <1>1, <1>2, <1>3, Zenon DEF RecordsInv, Intact, Over
<1>6. \A off : Placed(off) => Placed(off)'
  BY <1>1, <1>2, <1>3, Zenon DEF Placed, Read
<1> QED BY <1>4, <1>5, <1>6, Zenon DEF RecordsInv, PlacesInv

\* The invariant holds in every run.
LEMMA RecordsInvariant == Spec => []RecordsInv
<1>1. RecordsInv /\ [Next]_vars => RecordsInv'
  <2> SUFFICES ASSUME RecordsInv, [Next]_vars PROVE RecordsInv'
    OBVIOUS
  <2>1. CASE Put
    BY <2>1, PutKeeps
  <2>2. CASE WriteLength
    BY <2>2, WriteLengthKeeps
  <2>3. CASE WriteData
    BY <2>3, WriteDataKeeps
  <2>4. CASE LengthFails
    BY <2>4, LengthFailsKeeps
  <2>5. CASE DataFails
    BY <2>5, DataFailsKeeps
  <2>6. CASE Close
    BY <2>6, CloseKeeps
  <2>7. CASE NoLength
    BY <2>7, NoLengthKeeps
  <2>8. CASE NextRecord
    BY <2>8, NextRecordKeeps
  <2>9. CASE UNCHANGED vars
    BY <2>9, RecordsStutter
  <2> QED
    BY <2>1, <2>2, <2>3, <2>4, <2>5, <2>6, <2>7, <2>8, <2>9 DEF Next, WriterStep, ReaderStep
<1> QED BY RecordsInit, <1>1, PTL DEF Spec

\* Every record read is the record put at its place, up to the first Put that
\* failed, whatever was written short and however the array was used before.
THEOREM ReadsAsPut == Spec => []Intact
<1>1. RecordsInv => Intact
  BY DEF RecordsInv
<1> QED BY RecordsInvariant, <1>1, PTL

\* A reader that has ended has all the records of a writer whose every Put
\* succeeded, and at most one empty record more.
THEOREM ReadsAll == Spec => []NothingLost
<1>1. RecordsInv => NothingLost
  <2> SUFFICES ASSUME RecordsInv, rpc # "reading", AllComplete
               PROVE  \/ Len(got) = Len(result)
                      \/ Len(got) = Len(result) + 1 /\ record = << >> /\ Last(got) = << >>
    BY DEF NothingLost
  <2>1. Len(got) = Len(result) \/ Ahead
    BY DEF RecordsInv, Over
  <2>2. CASE Len(got) = Len(result)
    BY <2>2
  <2>3. CASE Ahead
    BY <2>3, Zenon DEF Ahead, Last
  <2> QED BY <2>1, <2>2, <2>3
<1> QED BY RecordsInvariant, <1>1, PTL

(***************************************************************************)
(* What a reader makes of the bytes after a failed Put.                    *)
(***************************************************************************)

\* f adds up the bytes of the records s.
Sums(s, f) == f[0] = 0 /\ \A i \in 1 .. Len(s) : f[i] = f[i - 1] + Len(Encoded(s[i]))

\* There is such a sum.
LEMMA SumExists ==
  ASSUME NEW s \in Seq(Seq(Nat))
  PROVE  \E f \in [0 .. Len(s) -> Nat] : Sums(s, f)
<1> DEFINE L == Len(s)
           To(k, f) == /\ f \in [0 .. k -> Nat] /\ f[0] = 0
                       /\ \A i \in 1 .. k : f[i] = f[i - 1] + Len(Encoded(s[i]))
           T == {k \in 0 .. L : ~\E f : To(k, f)}
<1>0. L \in Nat
  OBVIOUS
<1>1. SUFFICES T = {}
  <2>1. L \in 0 .. L
    BY <1>0
  <2>2. \E f : To(L, f)
    BY <1>1, <2>1
  <2> QED BY <2>2 DEF Sums
<1>2. SUFFICES ASSUME T # {} PROVE FALSE
  OBVIOUS
<1>3. PICK m \in T : \A n \in T : m <= n
  <2>1. T \in SUBSET Nat
    OBVIOUS
  <2> HIDE DEF T
  <2> QED BY <1>2, <2>1, Least
<1>4. m \in 0 .. L /\ ~\E f : To(m, f)
  OBVIOUS
<1>5. CASE m = 0
  <2>1. To(0, [i \in 0 .. 0 |-> 0])
    OBVIOUS
  <2> QED BY <1>4, <1>5, <2>1
<1>6. CASE m # 0
  <2>1. m - 1 \in 0 .. L /\ m - 1 \notin T
    <3>1. m - 1 \in 0 .. L /\ ~(m <= m - 1)
      BY <1>0, <1>4, <1>6
    <3> HIDE DEF T
    <3> QED BY <1>3, <3>1
  <2>2. PICK f : To(m - 1, f)
    BY <2>1, Zenon
  <2>3. s[m] \in Seq(Nat) /\ Len(Encoded(s[m])) \in Nat
    <3>1. m \in 1 .. L
      BY <1>0, <1>4, <1>6
    <3>2. s[m] \in Seq(Nat)
      BY <3>1
    <3>3. Encoded(s[m]) \in Seq(Nat)
      BY <3>2, Encodes
    <3> QED BY <3>2, <3>3
  <2>4. f[m - 1] \in Nat
    <3>1. m - 1 \in 0 .. m - 1
      BY <1>4, <1>6
    <3> QED BY <2>2, <3>1
  <2> DEFINE e == f[m - 1] + Len(Encoded(s[m]))
             g == [i \in 0 .. m |-> IF i = m THEN e ELSE f[i]]
  <2>5. e \in Nat
    BY <2>3, <2>4
  <2>6. \A i \in 0 .. m : i = m \/ i \in 0 .. m - 1
    BY <1>4
  <2>7. g \in [0 .. m -> Nat] /\ g[m] = e /\ \A i \in 0 .. m - 1 : g[i] = f[i]
    <3> HIDE DEF e
    <3>1. m \in 0 .. m /\ \A i \in 0 .. m - 1 : i \in 0 .. m /\ i # m
      BY <1>4, <1>6
    <3> QED BY <2>2, <2>5, <2>6, <3>1
  <2> HIDE DEF g
  <2>8. g[0] = 0
    <3>1. 0 \in 0 .. m - 1
      BY <1>4, <1>6
    <3> QED BY <2>2, <2>7, <3>1
  <2>9. ASSUME NEW i \in 1 .. m PROVE g[i] = g[i - 1] + Len(Encoded(s[i]))
    <3>1. i - 1 \in 0 .. m - 1
      BY <1>4
    <3>2. CASE i = m
      BY <2>7, <3>1, <3>2
    <3>3. CASE i # m
      <4>1. i \in 1 .. m - 1 /\ i \in 0 .. m - 1
        BY <1>4, <3>3
      <4> QED BY <2>2, <2>7, <3>1, <4>1
    <3> QED BY <3>2, <3>3
  <2>10. To(m, g)
    BY <2>7, <2>8, <2>9
  <2> QED BY <1>4, <2>10
<1> QED BY <1>5, <1>6

\* And Size is what it comes to.
LEMMA SizeIs ==
  ASSUME NEW s \in Seq(Seq(Nat)), NEW f, Sums(s, f)
  PROVE  Size(s) = f[Len(s)]
<1> DEFINE L == Len(s)
           Body(g) == [i \in 0 .. L |-> IF i = 0 THEN 0 ELSE g[i - 1] + Len(Encoded(s[i]))]
           w == [i \in 0 .. L |-> f[i]]
           h == CHOOSE g : g = Body(g)
           T == {k \in 0 .. L : h[k] # f[k]}
<1>0. L \in Nat /\ L \in 0 .. L /\ 0 \in 0 .. L
  OBVIOUS
<1>1. w = Body(w)
  <2>1. \A i \in 0 .. L : i # 0 => i \in 1 .. L /\ i - 1 \in 0 .. L
    BY <1>0
  <2>2. \A i \in 0 .. L : f[i] = IF i = 0 THEN 0 ELSE w[i - 1] + Len(Encoded(s[i]))
    BY <2>1 DEF Sums
  <2> QED BY <2>2
<1>2. h = Body(h)
  <2> HIDE DEF Body
  <2> QED BY <1>1, Zenon
<1>3. Size(s) = h[L]
  BY DEF Size
<1> HIDE DEF h
<1>4. SUFFICES ASSUME T # {} PROVE FALSE
  <2>1. h[L] = f[L]
    BY <1>0, <1>4
  <2> QED BY <1>3, <2>1
<1>5. PICK m \in T : \A n \in T : m <= n
  <2>1. T \in SUBSET Nat
    OBVIOUS
  <2> HIDE DEF T
  <2> QED BY <1>4, <2>1, Least
<1>6. m \in 0 .. L /\ h[m] # f[m]
  OBVIOUS
<1>7. \A i \in 0 .. L : h[i] = IF i = 0 THEN 0 ELSE h[i - 1] + Len(Encoded(s[i]))
  BY <1>2
<1>8. m # 0
  BY <1>0, <1>6, <1>7 DEF Sums
<1>9. m - 1 \in 0 .. L /\ m \in 1 .. L /\ ~(m <= m - 1)
  BY <1>0, <1>6, <1>8
<1>10. h[m - 1] = f[m - 1]
  <2>1. m - 1 \notin T
    <3> HIDE DEF T
    <3> QED BY <1>5, <1>9
  <2> QED BY <1>9, <2>1
<1>11. h[m] = h[m - 1] + Len(Encoded(s[m])) /\ f[m] = f[m - 1] + Len(Encoded(s[m]))
  BY <1>6, <1>7, <1>8, <1>9 DEF Sums
<1> QED BY <1>6, <1>10, <1>11

\* One more record takes its bytes.
LEMMA SizeStep ==
  ASSUME NEW s \in Seq(Seq(Nat)), NEW x \in Seq(Nat)
  PROVE  Size(s) \in Nat /\ Size(Append(s, x)) = Size(s) + Len(Encoded(x))
<1>1. PICK f \in [0 .. Len(s) -> Nat] : Sums(s, f)
  BY SumExists
<1>2. Len(s) \in Nat /\ Len(s) \in 0 .. Len(s)
  OBVIOUS
<1>3. Size(s) = f[Len(s)] /\ f[Len(s)] \in Nat
  BY <1>1, <1>2, SizeIs
<1>4. /\ Append(s, x) \in Seq(Seq(Nat)) /\ Len(Append(s, x)) = Len(s) + 1
      /\ \A i \in 1 .. Len(s) : Append(s, x)[i] = s[i]
      /\ Append(s, x)[Len(s) + 1] = x
  OBVIOUS
<1> DEFINE e == f[Len(s)] + Len(Encoded(x))
           g == [i \in 0 .. Len(s) + 1 |-> IF i <= Len(s) THEN f[i] ELSE e]
<1>5. g[Len(s) + 1] = e /\ \A i \in 0 .. Len(s) : g[i] = f[i]
  <2> HIDE DEF e
  <2> QED BY <1>2
<1> HIDE DEF g
<1>6. Sums(Append(s, x), g)
  <2>1. g[0] = 0
    <3>1. 0 \in 0 .. Len(s)
      BY <1>2
    <3> QED BY <1>1, <1>5, <3>1 DEF Sums
  <2>2. ASSUME NEW i \in 1 .. Len(s) + 1
        PROVE  g[i] = g[i - 1] + Len(Encoded(Append(s, x)[i]))
    <3>1. i - 1 \in 0 .. Len(s)
      BY <1>2
    <3>2. CASE i = Len(s) + 1
      <4>1. i - 1 = Len(s)
        BY <1>2, <3>2
      <4> QED BY <1>4, <1>5, <3>1, <3>2, <4>1
    <3>3. CASE i # Len(s) + 1
      <4>1. i \in 1 .. Len(s) /\ i \in 0 .. Len(s)
        BY <1>2, <3>3
      <4> QED BY <1>1, <1>4, <1>5, <3>1, <4>1 DEF Sums
    <3> QED BY <3>2, <3>3
  <2> QED BY <1>4, <2>1, <2>2 DEF Sums
<1>7. Size(Append(s, x)) = g[Len(s) + 1]
  BY <1>4, <1>6, SizeIs
<1> QED BY <1>3, <1>5, <1>7

\* The last digit of a length is 0 for the length 0 only.
LEMMA TopDigit ==
  ASSUME NEW n \in Nat
  PROVE  n > 0 => Uvarint[n][Len(Uvarint[n])] > 0
<1> DEFINE Top(k) == k > 0 => Uvarint[k][Len(Uvarint[k])] > 0
           T == {k \in Nat : ~Top(k)}
<1>1. SUFFICES ASSUME T # {} PROVE FALSE
  OBVIOUS
<1>2. PICK m \in T : \A k \in T : m <= k
  <2>1. T \in SUBSET Nat
    OBVIOUS
  <2> HIDE DEF T
  <2> QED BY <1>1, <2>1, Least
<1>3. m \in Nat /\ ~Top(m) /\ m > 0
  OBVIOUS
<1>4. Uvarint[m] = Digits(Uvarint, m)
  BY <1>3, UvarintDef
<1>5. CASE m < Base
  <2>1. Uvarint[m] = <<m>>
    BY <1>4, <1>5 DEF Digits
  <2>2. Len(<<m>>) = 1 /\ <<m>>[1] = m
    OBVIOUS
  <2> QED BY <1>3, <2>1, <2>2
<1>6. CASE ~(m < Base)
  <2> DEFINE q == m \div Base
             b == Base + (m % Base)
             t == Uvarint[q]
  <2>1. Base \in Nat /\ Base > 1 /\ m >= Base
    BY <1>3, <1>6, BaseAssumption
  <2>2. q \in Nat /\ q < m /\ m % Base \in 0 .. (Base - 1) /\ m = Base * q + (m % Base)
    BY <1>3, <2>1, Division
  <2>3. q > 0
    <3> SUFFICES ASSUME q = 0 PROVE FALSE
      <4> HIDE DEF q
      <4> QED BY <2>2
    <3>1. Base * 0 = 0
      BY <2>1
    <3> HIDE DEF q
    <3> QED BY <2>1, <2>2, <3>1
  <2>4. Top(q)
    <3>1. ~(m <= q) /\ q \in Nat
      <4> HIDE DEF q
      <4> QED BY <1>3, <2>2
    <3> HIDE DEF Top, q
    <3> QED BY <1>2, <3>1
  <2>5. Uvarint[m] = <<b>> \o t
    BY <1>4, <1>6, Zenon DEF Digits
  <2>6. Varint(t)
    BY <2>2, Encoding
  <2>7. t[Len(t)] > 0
    BY <2>3, <2>4
  <2>8. b \in Nat
    BY <2>1, <2>2
  <2> HIDE DEF b, t, q
  <2>9. t \in Seq(Nat) /\ Len(t) \in Nat /\ Len(t) >= 1
    BY <2>6 DEF Varint
  <2>10. Len(<<b>> \o t) = Len(t) + 1 /\ (<<b>> \o t)[Len(t) + 1] = t[Len(t)]
    BY <2>8, <2>9
  <2> QED BY <1>3, <2>5, <2>7, <2>10
<1> QED BY <1>5, <1>6

\* A length whose last digit is not 0 is not 0.
LEMMA ValuePositive ==
  ASSUME NEW s \in Seq(Nat), Len(s) >= 1, s[Len(s)] % Base > 0
  PROVE  Value(s) > 0
<1> DEFINE L == Len(s)
<1>1. PICK f \in [1 .. L + 1 -> Nat] : Weighs(s, f)
  BY WeightExists
<1>2. L \in Nat /\ L >= 1 /\ Base \in Nat /\ Base > 1
  BY BaseAssumption
<1>3. ASSUME NEW i \in 1 .. L
      PROVE  /\ f[i] = (s[i] % Base) + Base * f[i + 1]
             /\ f[i] \in Nat /\ f[i + 1] \in Nat /\ s[i] % Base \in Nat
  <2>1. i \in 1 .. L + 1 /\ i + 1 \in 1 .. L + 1 /\ ~(i > L) /\ s[i] \in Nat
    BY <1>2
  <2>2. s[i] % Base \in Nat
    BY <1>2, <2>1
  <2> QED BY <1>1, <2>1, <2>2 DEF Weighs
<1> DEFINE T == {k \in 0 .. L - 1 : ~(f[L - k] > 0)}
<1>4. SUFFICES ASSUME T # {} PROVE FALSE
  <2>1. L - 1 \in 0 .. L - 1 /\ L - (L - 1) = 1
    BY <1>2
  <2>2. f[1] > 0
    BY <1>4, <2>1
  <2> QED BY <1>1, <2>2, ValueIs
<1>5. PICK m \in T : \A n \in T : m <= n
  <2>1. T \in SUBSET Nat
    BY <1>2
  <2> HIDE DEF T
  <2> QED BY <1>4, <2>1, Least
<1>6. m \in 0 .. L - 1 /\ ~(f[L - m] > 0) /\ L - m \in 1 .. L
  BY <1>2
<1>7. PICK i \in 1 .. L : i = L - m
  BY <1>6
<1>8. ASSUME NEW a \in Nat, NEW v \in Nat, NEW y \in Nat, y = a + Base * v, a > 0 \/ v > 0
      PROVE  y > 0
  <2>1. Base * v \in Nat
    BY <1>2
  <2>2. v > 0 => Base * v >= 2 * v
    BY <1>2
  <2> QED BY <1>8, <2>1, <2>2
<1>9. CASE m = 0
  <2>1. i = L
    BY <1>2, <1>7, <1>9
  <2>2. f[i] > 0
    BY <1>3, <1>8, <2>1
  <2> QED BY <1>6, <1>7, <2>2
<1>10. CASE m # 0
  <2>1. m - 1 \in 0 .. L - 1 /\ ~(m <= m - 1) /\ L - (m - 1) = i + 1
    BY <1>2, <1>6, <1>7, <1>10
  <2>2. m - 1 \notin T
    <3> HIDE DEF T
    <3> QED BY <1>5, <2>1
  <2>3. f[i + 1] > 0
    BY <2>1, <2>2
  <2>4. f[i] > 0
    BY <1>3, <1>8, <2>3
  <2> QED BY <1>6, <1>7, <2>4
<1> QED BY <1>9, <1>10

\* What Length finds is the first byte without the continuation bit.
LEMMA LengthMeans ==
  ASSUME NEW s \in Seq(Nat)
  PROVE  /\ Length(s) \in Nat /\ Length(s) <= Len(s)
         /\ Length(s) = 0 => \A j \in 1 .. Len(s) : s[j] >= Base
         /\ Length(s) > 0 => /\ s[Length(s)] < Base
                             /\ \A j \in 1 .. Length(s) - 1 : s[j] >= Base
<1> DEFINE I == {i \in 1 .. Len(s) : s[i] < Base}
<1>1. Length(s) = IF I # {} THEN Min(I) ELSE 0
  BY DEF Length, SelectInSeq
<1>2. Len(s) \in Nat /\ Base \in Nat /\ \A j \in 1 .. Len(s) : s[j] \in Nat
  BY BaseAssumption
<1>3. \A j \in 1 .. Len(s) : j \notin I => s[j] >= Base
  BY <1>2
<1>4. \A j \in I : j \in 1 .. Len(s) /\ j \in Nat /\ j > 0 /\ s[j] < Base
  BY <1>2
<1>5. I \in SUBSET Nat
  OBVIOUS
<1> HIDE DEF I
<1>6. CASE I = {}
  BY <1>1, <1>2, <1>3, <1>6
<1>7. CASE I # {}
  <2>1. \E m \in I : \A i \in I : m <= i
    BY <1>5, <1>7, Least
  <2>2. Min(I) \in I /\ \A i \in I : Min(I) <= i
    BY <2>1, Zenon DEF Min
  <2>3. PICK m \in I : m = Length(s) /\ \A i \in I : m <= i
    BY <1>1, <1>7, <2>2, Zenon
  <2>4. m \in Nat /\ m > 0 /\ m <= Len(s) /\ s[m] < Base
    BY <1>4, <1>2
  <2>5. ASSUME NEW j \in 1 .. m - 1 PROVE s[j] >= Base
    <3>1. j \in 1 .. Len(s) /\ ~(m <= j)
      BY <1>2, <2>4
    <3> QED BY <1>3, <2>3, <3>1
  <2> QED BY <2>3, <2>4, <2>5
<1> QED BY <1>6, <1>7

\* The length 0 is one byte.
LEMMA NoBytes == Uvarint[0] = <<0>> /\ Len(Uvarint[0]) = 1
<1>1. Uvarint[0] = Digits(Uvarint, 0) /\ 0 < Base
  BY UvarintDef, BaseAssumption
<1>2. Digits(Uvarint, 0) = <<0>>
  BY <1>1, Zenon DEF Digits
<1> QED BY <1>1, <1>2

\* The bytes after p are the beginning of one length, or nothing.
LengthCut(p) == p <= Len(sink) /\ \A j \in p + 1 .. Len(sink) : sink[j] >= Base

\* The bytes after p are no more than one length.
Whole(p) == p <= Len(sink) /\ \A j \in p + 1 .. Len(sink) - 1 : sink[j] >= Base

\* They are one that may begin with the remains of another.
OneLength(p) == p < Len(sink) /\ Whole(p) /\ sink[Len(sink)] < Base

\* They are the end of one that was written in whole.
LastLength(p) == Whole(p) /\ (p < Len(sink) => sink[Len(sink)] \in 1 .. Base - 1)

\* The bytes after p are a length and less than its bytes.
DataCut(p) ==
  \E n \in Nat : At(sink, p, Uvarint[n]) /\ Len(sink) < p + Len(Uvarint[n]) + n

\* After them, from c on, there is one more length.
DataThenLength(p) ==
  \E n \in Nat, c \in Nat :
    /\ At(sink, p, Uvarint[n]) /\ p + Len(Uvarint[n]) <= c /\ c < p + Len(Uvarint[n]) + n
    /\ c < Len(sink) /\ LastLength(c + 1)

\* Where the last Put that returned began to write.
Begun == Size([i \in 1 .. Len(result) - 1 |-> result[i].record])

\* What is in the pipe from there when it failed.
Failed ==
  /\ wpc \in {"idle", "length"} => LengthCut(Begun) \/ DataCut(Begun)
  /\ wpc = "data" => OneLength(Begun) \/ DataThenLength(Begun)
  /\ wpc = "closed" => \/ LengthCut(Begun) \/ DataCut(Begun)
                       \/ OneLength(Begun) \/ DataThenLength(Begun)

\* A reader past the failure took the remains of a length and the next one for
\* the length of an empty record, or the bytes of the next length for data.
Past ==
  /\ wpc \in {"data", "closed"}
  /\ \/ pos = Len(sink) /\ Whole(Size(got))
     \/ pos = Size(got) /\ LastLength(pos)

ShortInv ==
  Stopped =>
    /\ rpc = "EOF" => Whole(Size(got))
    /\ ~AllComplete => Failed /\ (rpc = "reading" /\ Len(got) >= Len(result) => Past)

\* The bytes of two writes, one after the other.
LEMMA Joined ==
  ASSUME NEW s \in Seq(Nat), NEW t \in Seq(Nat)
  PROVE  /\ s \o t \in Seq(Nat) /\ Len(s \o t) = Len(s) + Len(t)
         /\ Len(s) \in Nat /\ Len(t) \in Nat
         /\ \A j \in 1 .. Len(s) : (s \o t)[j] = s[j]
         /\ \A j \in Len(s) + 1 .. Len(s) + Len(t) : (s \o t)[j] = t[j - Len(s)]
<1>1. /\ s \o t \in Seq(Nat) /\ Len(s \o t) = Len(s) + Len(t)
      /\ Len(s) \in Nat /\ Len(t) \in Nat
      /\ \A i \in 1 .. Len(s) + Len(t) : (s \o t)[i] = IF i <= Len(s) THEN s[i] ELSE t[i - Len(s)]
  BY ConcatProperties
<1>2. \A j \in 1 .. Len(s) : j \in 1 .. Len(s) + Len(t) /\ j <= Len(s)
  BY <1>1
<1>3. \A j \in Len(s) + 1 .. Len(s) + Len(t) : j \in 1 .. Len(s) + Len(t) /\ ~(j <= Len(s))
  BY <1>1
<1> QED BY <1>1, <1>2, <1>3, Zenon

\* What is left of one length at the most has Length find all of it or nothing.
LEMMA WholeIsShort ==
  ASSUME RecordsType, NEW p \in Nat, Whole(p)
  PROVE  Length(SubSeq(sink, p + 1, Len(sink))) \in {0, Len(SubSeq(sink, p + 1, Len(sink)))}
<1> DEFINE s == SubSeq(sink, p + 1, Len(sink))
<1>1. sink \in Seq(Nat) /\ p <= Len(sink) /\ Len(sink) \in Nat
  BY DEF RecordsType, Whole
<1>2. s \in Seq(Nat) /\ Len(s) = Len(sink) - p /\ \A j \in 1 .. Len(sink) - p : s[j] = sink[p + j]
  BY <1>1, Suffix
<1> HIDE DEF s
<1>3. ASSUME NEW j \in 1 .. Len(s) - 1 PROVE s[j] >= Base
  <2>1. j \in 1 .. Len(sink) - p /\ p + j \in p + 1 .. Len(sink) - 1
    BY <1>1, <1>2
  <2>2. sink[p + j] >= Base
    BY <2>1 DEF Whole
  <2> QED BY <1>2, <2>1, <2>2
<1>4. /\ Length(s) \in Nat /\ Length(s) <= Len(s) /\ Len(s) \in Nat
      /\ Length(s) > 0 => s[Length(s)] < Base
  BY <1>1, <1>2, LengthMeans
<1>5. Length(s) > 0 => s[Length(s)] \in Nat
  BY <1>2, <1>4
<1>6. Length(s) > 0 => ~(s[Length(s)] >= Base)
  BY <1>4, <1>5, BaseAssumption
<1>7. Length(s) > 0 /\ Length(s) # Len(s) => Length(s) \in 1 .. Len(s) - 1
  BY <1>4
<1>8. Length(s) \in {0, Len(s)}
  BY <1>3, <1>4, <1>6, <1>7
<1> QED BY <1>8 DEF s

\* What Length says of the pipe.
LEMMA RestMeans ==
  ASSUME RecordsType
  PROVE  /\ Length(Rest) \in Nat /\ pos + Length(Rest) <= Len(sink)
         /\ Length(Rest) = 0 => LengthCut(pos)
         /\ Length(Rest) > 0 =>
              /\ ~(sink[pos + Length(Rest)] >= Base)
              /\ \A j \in pos + 1 .. pos + Length(Rest) - 1 : sink[j] >= Base
<1> DEFINE s == Rest
           h == Length(Rest)
<1>1. /\ s \in Seq(Nat) /\ Len(s) = Len(sink) - pos /\ Len(s) \in Nat /\ Len(sink) \in Nat
      /\ \A j \in 1 .. Len(sink) - pos : s[j] = sink[pos + j]
  BY RestIs
<1>2. pos \in Nat /\ pos <= Len(sink)
  BY DEF RecordsType
<1>3. h = Length(s)
  OBVIOUS
<1> HIDE DEF s, h
<1>4. /\ h \in Nat /\ h <= Len(s)
      /\ h = 0 => \A j \in 1 .. Len(s) : s[j] >= Base
      /\ h > 0 => s[h] < Base /\ \A j \in 1 .. h - 1 : s[j] >= Base
  BY <1>1, <1>3, LengthMeans
<1>5. \A j \in pos + 1 .. Len(sink) :
        j - pos \in 1 .. Len(sink) - pos /\ j - pos \in 1 .. Len(s) /\ pos + (j - pos) = j
  BY <1>1, <1>2
<1>6. \A j \in pos + 1 .. Len(sink) : s[j - pos] = sink[j]
  <2> SUFFICES ASSUME NEW j \in pos + 1 .. Len(sink) PROVE s[j - pos] = sink[j]
    OBVIOUS
  <2>1. PICK k : k = j - pos
    OBVIOUS
  <2>2. k \in 1 .. Len(sink) - pos /\ pos + k = j
    BY <1>5, <2>1
  <2>3. s[k] = sink[pos + k]
    BY <1>1, <2>2
  <2> QED BY <2>1, <2>2, <2>3
<1>7. pos + h <= Len(sink)
  BY <1>1, <1>2, <1>4
<1>8. h = 0 => LengthCut(pos)
  BY <1>2, <1>4, <1>5, <1>6, Zenon DEF LengthCut
<1>9. ASSUME h > 0
      PROVE  ~(sink[pos + h] >= Base) /\ \A j \in pos + 1 .. pos + h - 1 : sink[j] >= Base
  <2>1. h \in 1 .. Len(sink) - pos
    BY <1>1, <1>4, <1>9
  <2>2. sink[pos + h] = s[h] /\ s[h] \in Nat
    BY <1>1, <1>4, <2>1
  <2>3. ~(sink[pos + h] >= Base)
    BY <1>4, <1>9, <2>2, BaseAssumption
  <2>4. \A j \in pos + 1 .. pos + h - 1 : j \in pos + 1 .. Len(sink) /\ j - pos \in 1 .. h - 1
    BY <1>2, <1>4, <1>7
  <2>5. \A j \in pos + 1 .. pos + h - 1 : sink[j] >= Base
    BY <1>4, <1>6, <1>9, <2>4, Zenon
  <2> QED BY <2>3, <2>5
<1> QED BY <1>4, <1>7, <1>8, <1>9 DEF h

\* A reader before a length that was written in whole finds it.
LEMMA LengthAt ==
  ASSUME RecordsType, NEW n \in Nat, At(sink, pos, Uvarint[n])
  PROVE  /\ Length(Rest) = Len(Uvarint[n])
         /\ Value(SubSeq(Rest, 1, Length(Rest))) = n
<1>1. [i \in 1 .. n |-> 0] \in Seq(Nat) /\ Len([i \in 1 .. n |-> 0]) = n
  OBVIOUS
<1>2. PICK r \in Seq(Nat) : Len(r) = n
  BY <1>1, Zenon
<1>3. At(sink, pos, Uvarint[Len(r)])
  BY <1>2, Zenon
<1> QED BY <1>2, <1>3, LengthRead

(***************************************************************************)
(* Where the reader and the failed Put are.                                *)
(***************************************************************************)

\* The first n records before a failure take off[n] bytes.
LEMMA SizePut ==
  ASSUME RecordsType, NEW off \in [0 .. Len(result) -> Nat], off[0] = 0, Laid(off),
         NEW s \in Seq(Seq(Nat)), Len(s) \in {0} \cup Sound,
         \A i \in 1 .. Len(s) : s[i] = result[i].record
  PROVE  Size(s) = off[Len(s)]
<1>1. Len(s) \in Nat
  OBVIOUS
<1>2. ASSUME NEW i \in 1 .. Len(s) PROVE off[i] = off[i - 1] + Len(Encoded(s[i]))
  <2>1. Len(s) \in Sound /\ i <= Len(s) /\ i \in 1 .. Len(result)
    <3>1. Len(s) \in Sound
      BY <1>1
    <3>2. Len(s) \in 1 .. Len(result) /\ Len(result) \in Nat
      BY <3>1, SoundIs
    <3> QED BY <1>1, <3>1, <3>2
  <2>2. i \in Sound
    BY <2>1, SoundIs
  <2>3. off[i] = off[i - 1] + Len(Encoded(result[i].record))
    BY <2>2, Zenon DEF Laid
  <2> QED BY <2>3
<1>3. Sums(s, off)
  BY <1>2 DEF Sums
<1> QED BY <1>3, SizeIs

\* What the reader has returned are the first records put, and where it stands
\* comes after their bytes.
LEMMA Taken ==
  ASSUME RecordsInv, rpc = "reading", Stopped, AllComplete \/ Len(got) < Len(result)
  PROVE  Size(got) = pos
<1>1. PICK off : Placed(off)
  BY DEF RecordsInv, PlacesInv
<1>2. /\ RecordsType /\ off \in [0 .. Len(result) -> Nat] /\ off[0] = 0 /\ Laid(off) /\ Intact
  BY <1>1 DEF RecordsInv, Placed
<1>3. /\ got \in Seq(Seq(Nat)) /\ Len(got) \in Nat /\ DOMAIN got = 1 .. Len(got)
      /\ Len(result) \in Nat /\ DOMAIN result = 1 .. Len(result)
  BY <1>2, SoundIs DEF RecordsType
<1>4. CASE Len(got) \in {0} \cup Sound
  <2>1. \A i \in 1 .. Len(got) : got[i] = result[i].record
    <3> SUFFICES ASSUME NEW i \in 1 .. Len(got) PROVE got[i] = result[i].record
      OBVIOUS
    <3>1. Len(got) \in Sound /\ Len(got) \in 1 .. Len(result)
      <4>1. Len(got) \in Sound
        BY <1>3, <1>4
      <4> QED BY <1>2, <4>1, SoundIs
    <3>2. i \in 1 .. Len(result) /\ i <= Len(got)
      BY <1>3, <3>1
    <3>3. i \in Sound
      BY <1>2, <3>1, <3>2, SoundIs
    <3> QED BY <1>2, <1>3, <3>3, Zenon DEF Intact
  <2>2. Size(got) = off[Len(got)]
    BY <1>2, <1>3, <1>4, <2>1, SizePut
  <2>3. pos = off[Len(got)]
    BY <1>1, <1>4, ReadFacts
  <2> QED BY <2>2, <2>3
<1>5. CASE ~(Len(got) \in {0} \cup Sound)
  <2>1. AllComplete /\ Len(got) > Len(result)
    <3>1. CASE AllComplete
      <4>1. Sound = 1 .. Len(result)
        BY <1>2, <3>1, SoundIs
      <4> QED BY <1>3, <1>5, <3>1, <4>1
    <3>2. CASE ~AllComplete
      <4>1. Len(got) < Len(result) /\ Len(got) # 0
        BY <1>5, <3>2
      <4>2. /\ Len(got) \in 1 .. Len(result)
            /\ \A j \in 1 .. Len(got) : j \in 1 .. Len(result) /\ j # Len(result)
        <5>1. \A m, n \in Nat : m < n /\ m # 0 =>
                m \in 1 .. n /\ \A j \in 1 .. m : j \in 1 .. n /\ j # n
          OBVIOUS
        <5> QED BY <1>3, <4>1, <5>1, Zenon
      <4>3. Len(got) \in Sound
        BY <1>3, <4>2, Zenon DEF Stopped, Sound
      <4> QED BY <1>5, <4>3
    <3> QED BY <3>1, <3>2
  <2>2. /\ Len(got) = Len(result) + 1 /\ record = << >>
        /\ got[Len(got)] = << >> /\ pos = Len(sink)
        /\ Len(sink) = off[Len(result)] + Len(Uvarint[Len(record)])
    BY <1>1, <2>1, ReadFacts
  <2> DEFINE s == [i \in 1 .. Len(result) |-> got[i]]
  <2>3. /\ s \in Seq(Seq(Nat)) /\ Len(s) = Len(result)
        /\ \A i \in 1 .. Len(result) : s[i] = got[i]
    <3>1. \A i \in 1 .. Len(result) : got[i] \in Seq(Nat)
      BY <1>3, <2>2
    <3> QED BY <1>3, <3>1
  <2> HIDE DEF s
  <2>4. Append(s, << >>) = got
    <3>1. /\ Append(s, << >>) \in Seq(Seq(Nat)) /\ Len(Append(s, << >>)) = Len(result) + 1
          /\ \A i \in 1 .. Len(result) : Append(s, << >>)[i] = s[i]
          /\ Append(s, << >>)[Len(result) + 1] = << >>
      BY <2>3
    <3>2. \A i \in 1 .. Len(result) + 1 : i \in 1 .. Len(result) \/ i = Len(result) + 1
      BY <1>3
    <3>3. \A i \in 1 .. Len(got) : Append(s, << >>)[i] = got[i]
      BY <2>2, <2>3, <3>1, <3>2, Zenon
    <3> QED BY <1>3, <2>2, <3>1, <3>3, SeqEqual
  <2>5. Len(s) \in {0} \cup Sound /\ \A i \in 1 .. Len(s) : s[i] = result[i].record
    <3>1. Sound = 1 .. Len(result)
      BY <1>2, <2>1, SoundIs
    <3>2. \A i \in 1 .. Len(result) : i \in DOMAIN got
      BY <1>3, <2>2
    <3>3. \A i \in 1 .. Len(result) : got[i] = result[i].record
      BY <1>2, <3>1, <3>2, Zenon DEF Intact
    <3> QED BY <1>3, <2>3, <3>1, <3>3
  <2>6. Size(s) = off[Len(result)]
    BY <1>2, <2>3, <2>5, SizePut
  <2>7. << >> \in Seq(Nat) /\ Len(<< >>) = 0
    OBVIOUS
  <2>8. Size(got) = Size(s) + Len(Encoded(<< >>))
    BY <2>3, <2>4, <2>7, SizeStep
  <2>9. Len(Encoded(<< >>)) = Len(Uvarint[Len(<< >>)]) + Len(<< >>) /\ Len(Uvarint[Len(<< >>)]) \in Nat
    BY <2>7, Encodes
  <2>10. Len(Encoded(<< >>)) = Len(Uvarint[Len(record)])
    BY <2>2, <2>7, <2>9
  <2> QED BY <2>2, <2>6, <2>8, <2>10
<1> QED BY <1>4, <1>5

\* The records before the failed Put, and where it began.
LEMMA BegunIs ==
  ASSUME RecordsInv, Stopped, ~AllComplete, NEW off, Placed(off)
  PROVE  /\ Len(result) \in Nat \ {0} /\ Len(result) - 1 \in {0} \cup Sound
         /\ Begun = off[Len(result) - 1] /\ Begun \in Nat
<1>1. /\ RecordsType /\ off \in [0 .. Len(result) -> Nat] /\ off[0] = 0 /\ Laid(off)
  BY DEF RecordsInv, Placed
<1>2. DOMAIN result = 1 .. Len(result) /\ Len(result) \in Nat
  BY <1>1, SoundIs
<1>3. Len(result) \in Nat \ {0}
  <2>1. PICK i \in DOMAIN result : ~result[i].ok
    BY DEF AllComplete
  <2> QED BY <1>2, <2>1
<1>4. Len(result) - 1 \in {0} \cup Sound
  <2> SUFFICES ASSUME Len(result) - 1 # 0 PROVE Len(result) - 1 \in Sound
    OBVIOUS
  <2>1. /\ Len(result) - 1 \in 1 .. Len(result)
        /\ \A j \in 1 .. Len(result) - 1 : j \in 1 .. Len(result) /\ j # Len(result)
    <3>1. \A n \in Nat \ {0} : n - 1 # 0 =>
            n - 1 \in 1 .. n /\ \A j \in 1 .. n - 1 : j \in 1 .. n /\ j # n
      OBVIOUS
    <3> QED BY <1>3, <3>1, Zenon
  <2> QED BY <1>2, <2>1, Zenon DEF Stopped, Sound
<1> DEFINE s == [i \in 1 .. Len(result) - 1 |-> result[i].record]
<1>5. /\ s \in Seq(Seq(Nat)) /\ Len(s) = Len(result) - 1
      /\ \A i \in 1 .. Len(s) : s[i] = result[i].record
  <2>1. \A i \in 1 .. Len(result) - 1 : result[i].record \in Seq(Nat)
    <3> SUFFICES ASSUME NEW i \in 1 .. Len(result) - 1 PROVE result[i].record \in Seq(Nat)
      OBVIOUS
    <3>1. result[i] \in Result
      BY <1>1, <1>2 DEF RecordsType
    <3> QED BY <3>1, Zenon DEF Result
  <2> QED BY <1>3, <2>1
<1>6. Begun = Size(s)
  BY DEF Begun
<1> HIDE DEF s
<1>7. Size(s) = off[Len(s)]
  BY <1>1, <1>4, <1>5, SizePut
<1>8. off[Len(result) - 1] \in Nat
  BY <1>1, <1>3
<1> QED BY <1>3, <1>4, <1>5, <1>6, <1>7, <1>8

\* Begun is a number, and a reader that has only the records before the
\* failure stands there.
LEMMA AtFailure ==
  ASSUME RecordsInv, Stopped, ~AllComplete
  PROVE  /\ Begun \in Nat /\ Len(result) \in Nat \ {0}
         /\ rpc = "reading" /\ Len(got) + 1 = Len(result) => pos = Begun /\ Size(got) = Begun
<1>1. PICK off : Placed(off)
  BY DEF RecordsInv, PlacesInv
<1>2. /\ Len(result) \in Nat \ {0} /\ Len(result) - 1 \in {0} \cup Sound
      /\ Begun = off[Len(result) - 1] /\ Begun \in Nat
  BY <1>1, BegunIs
<1>3. ASSUME rpc = "reading", Len(got) + 1 = Len(result) PROVE pos = Begun /\ Size(got) = Begun
  <2>1. Len(got) \in Nat
    BY DEF RecordsInv, RecordsType
  <2>2. Len(got) = Len(result) - 1 /\ Len(got) < Len(result)
    BY <1>2, <1>3, <2>1
  <2>3. pos = off[Len(got)]
    BY <1>1, <1>2, <1>3, <2>2, ReadFacts
  <2>4. Size(got) = pos
    BY <1>3, <2>2, Taken
  <2> QED BY <1>2, <2>2, <2>3, <2>4
<1> QED BY <1>2, <1>3

\* A reader stands after the records it has returned, or at the end of the pipe.
LEMMA ReaderPlace ==
  ASSUME RecordsInv, ShortInv, Stopped, rpc = "reading"
  PROVE  Size(got) \in Nat /\ (Size(got) = pos \/ (pos = Len(sink) /\ Whole(Size(got))))
<1>1. Size(got) \in Nat
  <2>1. got \in Seq(Seq(Nat)) /\ << >> \in Seq(Nat)
    BY DEF RecordsInv, RecordsType
  <2> QED BY <2>1, SizeStep
<1>2. CASE AllComplete \/ Len(got) < Len(result)
  BY <1>1, <1>2, Taken
<1>3. CASE ~(AllComplete \/ Len(got) < Len(result))
  <2>1. Len(got) \in Nat /\ Len(result) \in Nat
    BY SoundIs DEF RecordsInv, RecordsType
  <2>2. ~AllComplete /\ Len(got) >= Len(result)
    BY <1>3, <2>1
  <2>3. Past
    BY <2>2 DEF ShortInv
  <2> QED BY <1>1, <2>3 DEF Past
<1> QED BY <1>2, <1>3

\* While the pipe and the answers stay, so does what is known of a failure.
LEMMA SamePipe ==
  ASSUME sink' = sink, result' = result
  PROVE  /\ (Stopped' <=> Stopped) /\ (AllComplete' <=> AllComplete) /\ Begun' = Begun
         /\ LengthCut(Begun)' <=> LengthCut(Begun)
         /\ DataCut(Begun)' <=> DataCut(Begun)
         /\ OneLength(Begun)' <=> OneLength(Begun)
         /\ DataThenLength(Begun)' <=> DataThenLength(Begun)
         /\ \A p : (Whole(p)' <=> Whole(p)) /\ (LastLength(p)' <=> LastLength(p))
<1>1. (Stopped' <=> Stopped) /\ (AllComplete' <=> AllComplete)
  BY Zenon DEF Stopped, AllComplete
<1>2. Begun' = Begun
  BY DEF Begun
<1>3. \A p : (Whole(p)' <=> Whole(p)) /\ (LengthCut(p)' <=> LengthCut(p))
  BY Zenon DEF Whole, LengthCut
<1>4. \A p : (LastLength(p)' <=> LastLength(p)) /\ (OneLength(p)' <=> OneLength(p))
  BY <1>3, Zenon DEF LastLength, OneLength
<1>5. \A p : (DataCut(p)' <=> DataCut(p)) /\ (DataThenLength(p)' <=> DataThenLength(p))
  BY <1>4, Zenon DEF DataCut, DataThenLength
<1>6. /\ LengthCut(Begun)' <=> LengthCut(Begun)
      /\ OneLength(Begun)' <=> OneLength(Begun)
  BY <1>2, Zenon DEF LengthCut, OneLength, Whole
<1>7. DataCut(Begun)' <=> DataCut(Begun)
  BY <1>2, Zenon DEF DataCut
<1>8. DataThenLength(Begun)' <=> DataThenLength(Begun)
  BY <1>2, Zenon DEF DataThenLength, LastLength, Whole
<1> QED BY <1>1, <1>2, <1>3, <1>4, <1>6, <1>7, <1>8, Zenon

\* One more answer: if the writer stopped at its first failure, the answers
\* before were none.
LEMMA StoppedAnswered ==
  ASSUME RecordsType, NEW x \in Result, result' = Append(result, x)
  PROVE  /\ Stopped' => AllComplete
         /\ x.ok = FALSE => ~AllComplete'
         /\ x.ok = TRUE /\ Stopped' => AllComplete'
         /\ Len(result') = Len(result) + 1
         /\ \A i \in 1 .. Len(result) : result'[i] = result[i]
<1>1. DOMAIN result = 1 .. Len(result) /\ Len(result) \in Nat /\ result \in Seq(Result)
  BY DEF RecordsType
<1>2. /\ Len(result') = Len(result) + 1 /\ DOMAIN result' = 1 .. Len(result) + 1
      /\ \A i \in 1 .. Len(result) : result'[i] = result[i]
      /\ result'[Len(result) + 1] = x
  BY <1>1
<1>3. /\ \A i \in 1 .. Len(result) : i \in 1 .. Len(result) + 1 /\ i # Len(result) + 1
      /\ \A i \in 1 .. Len(result) + 1 : i \in 1 .. Len(result) \/ i = Len(result) + 1
      /\ Len(result) + 1 \in 1 .. Len(result) + 1
  BY <1>1
<1>4. Stopped' => AllComplete
  BY <1>1, <1>2, <1>3, Zenon DEF Stopped, AllComplete
<1>5. x.ok = FALSE => ~AllComplete'
  BY <1>2, <1>3, Zenon DEF AllComplete
<1>6. x.ok = TRUE /\ AllComplete => AllComplete'
  BY <1>1, <1>2, <1>3, Zenon DEF AllComplete
<1> QED BY <1>2, <1>4, <1>5, <1>6, Zenon

\* The Put that failed began at the end of the pipe's records.
LEMMA BegunHere ==
  ASSUME RecordsInv, AllComplete, NEW off, Placed(off), NEW x \in Result,
         result' = Append(result, x)
  PROVE  Begun' = off[Len(result)] /\ Begun' \in Nat
<1>1. /\ RecordsType /\ off \in [0 .. Len(result) -> Nat] /\ off[0] = 0 /\ Laid(off)
  BY DEF RecordsInv, Placed
<1>2. /\ DOMAIN result = 1 .. Len(result) /\ Len(result) \in Nat /\ Sound = 1 .. Len(result)
  BY <1>1, SoundIs
<1> DEFINE s == [i \in 1 .. Len(result) |-> result[i].record]
<1>3. /\ s \in Seq(Seq(Nat)) /\ Len(s) = Len(result)
      /\ \A i \in 1 .. Len(s) : s[i] = result[i].record
  <2>1. \A i \in 1 .. Len(result) : result[i].record \in Seq(Nat)
    <3> SUFFICES ASSUME NEW i \in 1 .. Len(result) PROVE result[i].record \in Seq(Nat)
      OBVIOUS
    <3>1. result[i] \in Result
      BY <1>1, <1>2 DEF RecordsType
    <3> QED BY <3>1, Zenon DEF Result
  <2> QED BY <1>2, <2>1
<1>4. Len(result') = Len(result) + 1 /\ \A i \in 1 .. Len(result) : result'[i] = result[i]
  BY <1>1, StoppedAnswered
<1>5. Begun' = Size(s)
  <2>1. Len(result') - 1 = Len(result)
    BY <1>2, <1>4
  <2>2. [i \in 1 .. Len(result') - 1 |-> result'[i].record] = s
    BY <1>4, <2>1
  <2> HIDE DEF s
  <2>3. Begun' = Size([i \in 1 .. Len(result') - 1 |-> result'[i].record])
    BY DEF Begun
  <2> QED BY <2>2, <2>3
<1> HIDE DEF s
<1>6. Len(s) \in {0} \cup Sound
  BY <1>2, <1>3
<1>7. Size(s) = off[Len(s)]
  BY <1>1, <1>3, <1>6, SizePut
<1>8. off[Len(result)] \in Nat
  BY <1>1, <1>2
<1> QED BY <1>3, <1>5, <1>7, <1>8

(***************************************************************************)
(* The steps of the writer.                                                *)
(***************************************************************************)

\* A step that neither writes nor answers.
LEMMA QuietShort ==
  ASSUME RecordsInv, ShortInv, sink' = sink, result' = result, UNCHANGED reader,
         (wpc = "idle" /\ wpc' = "length") \/ (wpc # "closed" /\ wpc' = "closed")
  PROVE  ShortInv'
<1>1. /\ rpc = "reading" /\ rpc' = rpc /\ got' = got /\ pos' = pos
      /\ wpc \in {"idle", "length", "data", "closed"}
  BY DEF RecordsInv, Over, RecordsType, reader
<1>2. /\ (Stopped' <=> Stopped) /\ (AllComplete' <=> AllComplete) /\ Begun' = Begun
      /\ LengthCut(Begun)' <=> LengthCut(Begun)
      /\ DataCut(Begun)' <=> DataCut(Begun)
      /\ OneLength(Begun)' <=> OneLength(Begun)
      /\ DataThenLength(Begun)' <=> DataThenLength(Begun)
  BY SamePipe
<1>3. SUFFICES ASSUME Stopped, ~AllComplete
               PROVE  Failed' /\ (Len(got) >= Len(result) => Past')
  BY <1>1, <1>2, Zenon DEF ShortInv
<1>4. Failed /\ (Len(got) >= Len(result) => Past)
  BY <1>1, <1>3, Zenon DEF ShortInv
<1>5. Failed'
  <2>1. CASE wpc = "idle" /\ wpc' = "length"
    BY <1>2, <1>4, <2>1 DEF Failed
  <2>2. CASE wpc' = "closed"
    <3>1. \/ LengthCut(Begun) \/ DataCut(Begun) \/ OneLength(Begun) \/ DataThenLength(Begun)
      BY <1>1, <1>4 DEF Failed
    <3> QED BY <1>2, <2>2, <3>1 DEF Failed
  <2> QED BY <2>1, <2>2
<1>6. ASSUME Past PROVE Past'
  <2>1. wpc' \in {"data", "closed"}
    BY <1>6 DEF Past
  <2>2. Whole(Size(got))' <=> Whole(Size(got))
    BY <1>1, Zenon DEF Whole
  <2>3. LastLength(pos)' <=> LastLength(pos)
    BY <1>1, Zenon DEF LastLength, Whole
  <2> QED BY <1>1, <1>6, <2>1, <2>2, <2>3, Zenon DEF Past
<1> QED BY <1>4, <1>5, <1>6

\* The next length is written after the remains of a record or of a length.
LEMMA WriteLengthShort ==
  ASSUME RecordsInv, ShortInv, WriteLength PROVE ShortInv'
<1> DEFINE u == Uvarint[Len(record)]
<1>1. /\ wpc = "length" /\ wpc' = "data" /\ sink' = sink \o u /\ record' = record
      /\ result' = result /\ pos' = pos /\ data' = data /\ got' = got /\ rpc' = rpc
  BY DEF WriteLength, reader
<1>2. /\ RecordsType /\ rpc = "reading" /\ record \in Seq(Nat) /\ sink \in Seq(Nat)
      /\ Len(record) \in Nat
  BY <1>1 DEF RecordsInv, Over, RecordsType
<1>3. Varint(u) /\ (Len(record) > 0 => u[Len(u)] > 0) /\ (Len(record) = 0 => Len(u) = 1)
  BY <1>2, Encoding, TopDigit, NoBytes
<1> HIDE DEF u
<1>4. /\ u \in Seq(Nat) /\ Len(u) \in Nat /\ Len(u) >= 1 /\ u[Len(u)] < Base
      /\ u[Len(u)] \in Nat /\ Base \in Nat /\ \A j \in 1 .. Len(u) - 1 : u[j] >= Base
  <2>1. u \in Seq(Nat) /\ Len(u) \in Nat /\ Len(u) >= 1
    BY <1>3 DEF Varint
  <2>2. u[Len(u)] \in Nat
    BY <2>1
  <2> QED BY <1>3, <2>1, <2>2, BaseAssumption DEF Varint
<1>5. /\ sink' \in Seq(Nat) /\ Len(sink') = Len(sink) + Len(u) /\ Len(sink) \in Nat
      /\ \A j \in 1 .. Len(sink) : sink'[j] = sink[j]
      /\ \A j \in Len(sink) + 1 .. Len(sink) + Len(u) : sink'[j] = u[j - Len(sink)]
  BY <1>1, <1>2, <1>4, Joined
<1>6. /\ \A j \in Len(sink) + 1 .. Len(sink') - 1 : sink'[j] >= Base
      /\ sink'[Len(sink')] = u[Len(u)]
  <2>1. ASSUME NEW j \in Len(sink) + 1 .. Len(sink') - 1 PROVE sink'[j] >= Base
    <3>1. PICK k : k = j - Len(sink)
      OBVIOUS
    <3>2. j \in Len(sink) + 1 .. Len(sink) + Len(u) /\ k \in 1 .. Len(u) - 1
      BY <1>4, <1>5, <3>1
    <3>3. sink'[j] = u[k] /\ u[k] >= Base
      BY <1>4, <1>5, <3>1, <3>2
    <3> QED BY <3>3
  <2>2. sink'[Len(sink')] = u[Len(u)]
    <3>1. PICK k : k = Len(sink')
      OBVIOUS
    <3>2. k \in Len(sink) + 1 .. Len(sink) + Len(u) /\ k - Len(sink) = Len(u)
      BY <1>4, <1>5, <3>1
    <3>3. sink'[k] = u[k - Len(sink)]
      BY <1>5, <3>2
    <3> QED BY <3>1, <3>2, <3>3
  <2> QED BY <2>1, <2>2
<1>7. /\ (Stopped' <=> Stopped) /\ (AllComplete' <=> AllComplete) /\ Begun' = Begun
  BY <1>1, Zenon DEF Stopped, AllComplete, Begun
<1>8. SUFFICES ASSUME Stopped, ~AllComplete
               PROVE  Failed' /\ (Len(got) >= Len(result) => Past')
  BY <1>1, <1>2, <1>7, Zenon DEF ShortInv
<1>9. Failed /\ ~(Len(got) >= Len(result))
  <2>1. Failed /\ (Len(got) >= Len(result) => Past)
    BY <1>2, <1>8, Zenon DEF ShortInv
  <2> QED BY <1>1, <2>1 DEF Past
<1>10. PICK b \in Nat : b = Begun
  BY <1>8, AtFailure
<1>11. LengthCut(b) \/ DataCut(b)
  BY <1>1, <1>9, <1>10 DEF Failed
<1>12. ASSUME LengthCut(b) PROVE OneLength(b)'
  <2>1. b <= Len(sink) /\ \A j \in b + 1 .. Len(sink) : sink[j] >= Base
    BY <1>12, Zenon DEF LengthCut
  <2>2. ASSUME NEW j \in b + 1 .. Len(sink') - 1 PROVE sink'[j] >= Base
    <3>1. CASE j <= Len(sink)
      <4>1. j \in b + 1 .. Len(sink) /\ j \in 1 .. Len(sink)
        BY <1>5, <3>1
      <4> QED BY <1>5, <2>1, <4>1
    <3>2. CASE ~(j <= Len(sink))
      <4>1. j \in Len(sink) + 1 .. Len(sink') - 1
        BY <1>5, <1>4, <3>2
      <4> QED BY <1>6, <4>1
    <3> QED BY <3>1, <3>2
  <2>3. b < Len(sink') /\ b <= Len(sink')
    BY <1>4, <1>5, <2>1
  <2> QED BY <1>4, <1>6, <2>2, <2>3 DEF OneLength, Whole
<1>13. ASSUME DataCut(b) PROVE DataThenLength(b)'
  <2>1. PICK n \in Nat : At(sink, b, Uvarint[n]) /\ Len(sink) < b + Len(Uvarint[n]) + n
    BY <1>13 DEF DataCut
  <2>2. At(sink', b, Uvarint[n])
    <3>1. Uvarint[n] \in Seq(Nat)
      BY Encoding DEF Varint
    <3> QED BY <1>1, <1>2, <1>4, <2>1, <3>1, AtKept
  <2>3. b + Len(Uvarint[n]) <= Len(sink)
    BY <2>1 DEF At
  <2>4. PICK c \in Nat : c = Len(sink)
    BY <1>5
  <2>5. c < Len(sink') /\ c + 1 <= Len(sink')
    BY <1>4, <1>5, <2>4
  <2>6. \A j \in c + 1 + 1 .. Len(sink') - 1 : sink'[j] >= Base
    <3>1. \A j \in c + 1 + 1 .. Len(sink') - 1 : j \in Len(sink) + 1 .. Len(sink') - 1
      BY <1>5, <2>4
    <3> QED BY <1>6, <3>1
  <2>7. c + 1 < Len(sink') => sink'[Len(sink')] \in 1 .. Base - 1
    <3> SUFFICES ASSUME c + 1 < Len(sink') PROVE u[Len(u)] \in 1 .. Base - 1
      BY <1>6
    <3>1. Len(u) # 1
      BY <1>4, <1>5, <2>4
    <3>2. Len(record) > 0
      BY <1>2, <1>3, <3>1
    <3> QED BY <1>3, <1>4, <3>2
  <2>8. LastLength(c + 1)'
    BY <2>5, <2>6, <2>7, Zenon DEF LastLength, Whole
  <2>9. b + Len(Uvarint[n]) <= c /\ c < b + Len(Uvarint[n]) + n
    BY <2>1, <2>3, <2>4
  <2> QED BY <2>2, <2>5, <2>8, <2>9, Zenon DEF DataThenLength
<1>14. Failed'
  <2>1. CASE LengthCut(b)
    <3>1. OneLength(Begun)'
      BY <1>7, <1>10, <1>12, <2>1, Zenon DEF OneLength, Whole
    <3> QED BY <1>1, <3>1 DEF Failed
  <2>2. CASE DataCut(b)
    <3>1. DataThenLength(b)'
      BY <1>13, <2>2
    <3>2. DataThenLength(Begun)'
      BY <1>7, <1>10, <3>1, Zenon DEF DataThenLength
    <3> QED BY <1>1, <3>2 DEF Failed
  <2> QED BY <1>11, <2>1, <2>2
<1> QED BY <1>9, <1>14

\* A Put that succeeds: the writer has not failed before, or it has gone on.
LEMMA WriteDataShort ==
  ASSUME RecordsInv, WriteData PROVE ShortInv'
<1>1. RecordsType /\ record \in Seq(Nat) /\ wpc = "data" /\ rpc = "reading" /\ rpc' = rpc
  BY DEF RecordsInv, RecordsType, WriteData, Over, reader
<1>2. PICK x \in Result : x.ok = TRUE /\ result' = Append(result, x)
  <2> DEFINE k == Len(Uvarint[Len(record)]) + Len(record)
             y == [record |-> record, n |-> k, ok |-> TRUE]
  <2>1. k \in Nat
    BY <1>1, Encodes
  <2>2. result' = Append(result, y)
    BY DEF WriteData, Returned
  <2> HIDE DEF k
  <2>3. y \in Result /\ y.ok = TRUE
    BY <1>1, <2>1, AnswerType, Zenon
  <2> HIDE DEF y
  <2> QED BY <2>2, <2>3, Zenon
<1>3. Stopped' => AllComplete'
  BY <1>1, <1>2, StoppedAnswered
<1>4. rpc' # "EOF"
  BY <1>1
<1> QED BY <1>3, <1>4, Zenon DEF ShortInv

\* A Put that fails: what it wrote is the beginning of a length or of a record,
\* and the reader has not gone past it.
LEMMA FailureShort ==
  ASSUME RecordsInv, wpc # "closed", NEW x \in Result, x.ok = FALSE,
         result' = Append(result, x), UNCHANGED reader, wpc' = "idle",
         NEW off, Placed(off), NEW b, b = off[Len(result)],
         AllComplete => ~(Len(got) > Len(result)) /\ (LengthCut(b)' \/ DataCut(b)')
  PROVE  ShortInv'
<1>1. RecordsType /\ rpc = "reading" /\ rpc' = rpc /\ got' = got
  BY DEF RecordsInv, Over, reader
<1>2. (Stopped' => AllComplete) /\ Len(result') = Len(result) + 1
  BY <1>1, StoppedAnswered
<1>3. SUFFICES ASSUME AllComplete PROVE Failed' /\ ~(Len(got') >= Len(result'))
  <2>1. rpc' # "EOF"
    BY <1>1
  <2> QED BY <1>2, <1>3, <2>1, Zenon DEF ShortInv
<1>4. Begun' = b
  BY <1>3, BegunHere
<1>5. Failed'
  <2>1. LengthCut(b)' \/ DataCut(b)'
    BY <1>3
  <2>2. LengthCut(b)' => LengthCut(Begun)'
    BY <1>4, Zenon DEF LengthCut
  <2>3. DataCut(b)' => DataCut(Begun)'
    BY <1>4, Zenon DEF DataCut
  <2>4. wpc' # "data" /\ wpc' # "closed"
    OBVIOUS
  <2> QED BY <2>1, <2>2, <2>3, <2>4, Zenon DEF Failed
<1>6. ~(Len(got') >= Len(result'))
  <2>1. Len(got) \in Nat /\ Len(result) \in Nat
    BY <1>1, SoundIs DEF RecordsType
  <2> QED BY <1>1, <1>2, <1>3, <2>1
<1> QED BY <1>5, <1>6

\* A length written short has no byte without the continuation bit.
LEMMA LengthFailsShort ==
  ASSUME RecordsInv, LengthFails PROVE ShortInv'
<1> DEFINE u == Uvarint[Len(record)]
<1>1. /\ RecordsType /\ record \in Seq(Nat) /\ sink \in Seq(Nat) /\ wpc = "length"
      /\ UNCHANGED reader /\ wpc' = "idle"
  BY DEF RecordsInv, RecordsType, LengthFails, Returned
<1>2. Varint(u) /\ u \in Seq(Nat)
  BY <1>1, Encodes
<1>3. PICK t \in ShortOf(u) : sink' = sink \o t
  BY DEF LengthFails
<1> HIDE DEF u
<1>4. /\ t \in Seq(Nat) /\ Len(t) \in Nat /\ Len(t) < Len(u) /\ Len(u) \in Nat
      /\ \A j \in 1 .. Len(t) : t[j] = u[j]
  BY <1>2, <1>3, ShortIs
<1>5. \A j \in 1 .. Len(t) : t[j] >= Base
  <2>1. \A j \in 1 .. Len(t) : j \in 1 .. Len(u) - 1
    BY <1>4
  <2>2. \A i \in 1 .. Len(u) - 1 : u[i] >= Base
    BY <1>2, Zenon DEF Varint
  <2> QED BY <1>4, <2>1, <2>2, Zenon
<1>6. PICK x \in Result : x.ok = FALSE /\ result' = Append(result, x)
  <2> DEFINE y == [record |-> record, n |-> 0, ok |-> FALSE]
  <2>1. y \in Result /\ y.ok = FALSE
    <3>1. 0 \in Nat /\ FALSE \in BOOLEAN
      OBVIOUS
    <3> QED BY <1>1, <3>1, AnswerType, Zenon
  <2>2. result' = Append(result, y)
    BY DEF LengthFails, Returned
  <2> HIDE DEF y
  <2> QED BY <2>1, <2>2, Zenon
<1>7. PICK off : Placed(off)
  BY DEF RecordsInv, PlacesInv
<1>8. PICK b : b = off[Len(result)]
  OBVIOUS
<1>9. ASSUME AllComplete PROVE ~(Len(got) > Len(result)) /\ LengthCut(b)'
  <2>1. ~(Len(got) > Len(result))
    BY <1>1, <1>9, NotAhead
  <2>2. b = Len(sink)
    BY <1>1, <1>7, <1>8, <1>9 DEF Placed, Written
  <2>3. /\ Len(sink') = Len(sink) + Len(t) /\ Len(sink) \in Nat
        /\ \A j \in Len(sink) + 1 .. Len(sink) + Len(t) : sink'[j] = t[j - Len(sink)]
    BY <1>1, <1>3, <1>4, Joined
  <2>4. ASSUME NEW j \in b + 1 .. Len(sink') PROVE sink'[j] >= Base
    <3>1. PICK k : k = j - Len(sink)
      OBVIOUS
    <3>2. j \in Len(sink) + 1 .. Len(sink) + Len(t) /\ k \in 1 .. Len(t)
      BY <1>4, <2>2, <2>3, <3>1
    <3>3. sink'[j] = t[k] /\ t[k] >= Base
      BY <1>5, <2>3, <3>1, <3>2
    <3> QED BY <3>3
  <2>5. b <= Len(sink')
    BY <1>4, <2>2, <2>3
  <2> QED BY <2>1, <2>4, <2>5, Zenon DEF LengthCut
<1>10. wpc # "closed"
  BY <1>1
<1> QED BY <1>1, <1>6, <1>7, <1>8, <1>9, <1>10, FailureShort

\* A record written short has its length before it, and none of an empty one
\* can be short.
LEMMA DataFailsShort ==
  ASSUME RecordsInv, DataFails PROVE ShortInv'
<1> DEFINE u == Uvarint[Len(record)]
<1>1. /\ RecordsType /\ record \in Seq(Nat) /\ sink \in Seq(Nat) /\ wpc = "data"
      /\ UNCHANGED reader /\ wpc' = "idle" /\ rpc = "reading" /\ Len(record) \in Nat
  BY DEF RecordsInv, RecordsType, DataFails, Returned, Over
<1>2. u \in Seq(Nat) /\ Len(u) \in Nat
  BY <1>1, Encodes
<1>3. PICK t \in ShortOf(record) : sink' = sink \o t
  BY DEF DataFails
<1>4. t \in Seq(Nat) /\ Len(t) \in Nat /\ Len(t) < Len(record)
  BY <1>1, <1>3, ShortIs
<1>5. PICK x \in Result : x.ok = FALSE /\ result' = Append(result, x)
  <2> DEFINE k == Len(u)
             y == [record |-> record, n |-> k, ok |-> FALSE]
  <2>1. result' = Append(result, y)
    BY DEF DataFails, Returned
  <2>2. k \in Nat
    BY <1>2
  <2> HIDE DEF k
  <2>3. y \in Result /\ y.ok = FALSE
    <3>1. FALSE \in BOOLEAN
      OBVIOUS
    <3> QED BY <1>1, <2>2, <3>1, AnswerType, Zenon
  <2> HIDE DEF y
  <2> QED BY <2>1, <2>3, Zenon
<1>6. PICK off : Placed(off)
  BY DEF RecordsInv, PlacesInv
<1>7. PICK b : b = off[Len(result)]
  OBVIOUS
<1>8. b \in Nat
  <2>1. off \in [0 .. Len(result) -> Nat] /\ Len(result) \in Nat
    BY <1>1, <1>6, SoundIs DEF Placed
  <2> QED BY <1>7, <2>1
<1>9. ASSUME AllComplete PROVE ~(Len(got) > Len(result)) /\ DataCut(b)'
  <2>1. ~(Len(got) > Len(result))
    <3> SUFFICES ASSUME Len(got) > Len(result) PROVE FALSE
      OBVIOUS
    <3>1. record = << >>
      BY <1>1, <1>6, <1>9, ReadFacts
    <3> QED BY <1>4, <3>1
  <2>2. PICK n \in Nat : n = Len(record)
    BY <1>1
  <2>3. Len(sink) = b + Len(u) /\ At(sink, b, u)
    BY <1>1, <1>6, <1>7, <1>9, Zenon DEF Placed, Written, LengthOnly
  <2>4. At(sink', b, Uvarint[n])
    <3>1. At(sink \o t, b, u)
      <4> HIDE DEF u
      <4> QED BY <1>1, <1>2, <1>4, <1>8, <2>3, AtKept
    <3> QED BY <1>3, <2>2, <3>1, Zenon
  <2>5. Len(sink') < b + Len(Uvarint[n]) + n
    <3>1. Len(sink') = Len(sink) + Len(t)
      BY <1>1, <1>3, <1>4, Joined
    <3>2. Len(Uvarint[n]) = Len(u)
      BY <2>2
    <3> HIDE DEF u
    <3> QED BY <1>2, <1>4, <1>8, <2>2, <2>3, <3>1, <3>2
  <2> QED BY <2>1, <2>4, <2>5, Zenon DEF DataCut
<1>10. wpc # "closed"
  BY <1>1
<1> QED BY <1>1, <1>5, <1>6, <1>7, <1>9, <1>10, FailureShort

(***************************************************************************)
(* The steps of the reader.                                                *)
(***************************************************************************)

\* A reader that ends with io.EOF found the pipe empty, or no more than a length.
LEMMA EndShort ==
  ASSUME RecordsInv, ShortInv, rpc = "reading", rpc' # "reading", got' = got,
         UNCHANGED writer,
         rpc' = "EOF" => Whole(pos)
  PROVE  ShortInv'
<1>1. sink' = sink /\ result' = result /\ wpc' = wpc
  BY DEF writer
<1>2. /\ (Stopped' <=> Stopped) /\ (AllComplete' <=> AllComplete)
      /\ LengthCut(Begun)' <=> LengthCut(Begun)
      /\ DataCut(Begun)' <=> DataCut(Begun)
      /\ OneLength(Begun)' <=> OneLength(Begun)
      /\ DataThenLength(Begun)' <=> DataThenLength(Begun)
  BY <1>1, SamePipe
<1>3. Whole(Size(got))' <=> Whole(Size(got))
  BY <1>1, Zenon DEF Whole
<1>4. Failed' <=> Failed
  BY <1>1, <1>2, Zenon DEF Failed
<1>5. Stopped /\ rpc' = "EOF" => Whole(Size(got))
  BY ReaderPlace
<1> QED BY <1>2, <1>3, <1>4, <1>5, Zenon DEF ShortInv

\* The pipe ends where a length would begin, or within one.
LEMMA NoLengthShort ==
  ASSUME RecordsInv, ShortInv, NoLength PROVE ShortInv'
<1>1. PICK err \in {"EOF", "ErrUnexpectedEOF"} : rpc' = err /\ got' = got /\ UNCHANGED writer
  BY DEF NoLength, End
<1>2. rpc = "reading" /\ Length(Rest) = 0 /\ rpc' # "reading"
  BY <1>1 DEF NoLength, Exhausted
<1>3. RecordsType /\ Len(sink) \in Nat
  BY RestIs DEF RecordsInv
<1>4. LengthCut(pos)
  BY <1>2, <1>3, RestMeans
<1>5. Whole(pos)
  <2>1. \A j \in pos + 1 .. Len(sink) - 1 : j \in pos + 1 .. Len(sink)
    BY <1>3 DEF RecordsType
  <2> QED BY <1>4, <2>1, Zenon DEF LengthCut, Whole
<1> QED BY <1>1, <1>2, <1>5, EndShort

\* In what is one length at the most, that length is all there is.
LEMMA WholeRead ==
  ASSUME RecordsType, Whole(pos), Length(Rest) > 0
  PROVE  pos + Length(Rest) = Len(sink)
<1>1. /\ Length(Rest) \in Nat /\ pos + Length(Rest) <= Len(sink)
      /\ ~(sink[pos + Length(Rest)] >= Base)
  BY RestMeans
<1>2. pos \in Nat /\ Len(sink) \in Nat
  BY RestIs DEF RecordsType
<1>3. PICK j : j = pos + Length(Rest)
  OBVIOUS
<1>4. j \notin pos + 1 .. Len(sink) - 1
  BY <1>1, <1>3 DEF Whole
<1> QED BY <1>1, <1>2, <1>3, <1>4

\* The end of a length that was written in whole, read for a length, promises
\* bytes.
LEMMA LastLengthRead ==
  ASSUME RecordsType, LastLength(pos), Length(Rest) > 0
  PROVE  Value(SubSeq(Rest, 1, Length(Rest))) > 0
<1> DEFINE h == Length(Rest)
           s == SubSeq(Rest, 1, h)
<1>1. /\ Rest \in Seq(Nat) /\ Len(Rest) = Len(sink) - pos /\ Len(sink) \in Nat
      /\ \A j \in 1 .. Len(sink) - pos : Rest[j] = sink[pos + j]
  BY RestIs
<1>2. pos \in Nat /\ h \in Nat /\ pos + h = Len(sink)
  BY WholeRead, RestMeans DEF LastLength, RecordsType
<1>3. h > 0
  OBVIOUS
<1> HIDE DEF h
<1>4. /\ s \in Seq(Nat) /\ Len(s) = h /\ \A j \in 1 .. h : s[j] = Rest[j]
  BY <1>1, <1>2, Prefix
<1>5. s[h] = sink[Len(sink)]
  <2>1. h \in 1 .. h /\ h \in 1 .. Len(sink) - pos
    BY <1>1, <1>2, <1>3
  <2> HIDE DEF s
  <2> QED BY <1>1, <1>2, <1>4, <2>1
<1>6. sink[Len(sink)] \in 1 .. Base - 1
  BY <1>1, <1>2, <1>3 DEF LastLength
<1> HIDE DEF s
<1>7. s[Len(s)] % Base > 0
  <2>1. \A d \in 1 .. Base - 1 : d % Base = d /\ d > 0
    BY BaseAssumption
  <2> QED BY <1>4, <1>5, <1>6, <2>1
<1>8. Value(s) > 0
  BY <1>3, <1>4, <1>7, ValuePositive
<1> QED BY <1>8 DEF s, h

\* Next takes the records before the failure; past it, it takes an empty record
\* from padded lengths or one whose last bytes are of the next length; or it ends.
LEMMA NextRecordShort ==
  ASSUME RecordsInv, ShortInv, NextRecord PROVE ShortInv'
<1>1. RecordsType /\ Len(sink) \in Nat /\ pos \in Nat /\ Len(got) \in Nat
  BY RestIs DEF RecordsInv, RecordsType
<1>2. PICK head \in Nat, size \in Nat, have \in Nat, body \in Seq(Nat) :
         Reads(head, size, have, body)
  BY <1>1, NextStep
<1>3. /\ head = Length(Rest) /\ head > 0
      /\ size = Value(SubSeq(Rest, 1, Length(Rest)))
      /\ Len(body) = Len(sink) - pos - head
      /\ have = IF Len(body) < size THEN Len(body) ELSE size
      /\ pos' = pos + head + have /\ pos' <= Len(sink)
      /\ UNCHANGED writer /\ rpc = "reading"
  BY <1>2, Zenon DEF Reads
<1>4. /\ Len(body) \in Nat /\ head > 0 /\ Len(body) = Len(sink) - pos - head
      /\ have = IF Len(body) < size THEN Len(body) ELSE size
      /\ pos' = pos + head + have /\ pos' <= Len(sink)
  <2>1. Len(body) \in Nat
    OBVIOUS
  <2> QED BY <1>3, <2>1, Zenon
<1>5. CASE have < size
  <2>1. got' = got /\ rpc' = ReadFullError(have)
    <3>1. have # size
      BY <1>5
    <3> QED BY <1>2, <3>1, Zenon DEF Reads
  <2>2. rpc' # "reading" /\ (rpc' = "EOF" => have = 0)
    BY <2>1 DEF ReadFullError
  <2>3. ASSUME have = 0 PROVE Whole(pos)
    <3>1. pos + head = Len(sink)
      <4>1. Len(body) = 0
        BY <1>4, <1>5, <2>3
      <4> QED BY <1>1, <1>4, <4>1
    <3>2. \A j \in pos + 1 .. pos + head - 1 : sink[j] >= Base
      BY <1>1, <1>3, RestMeans
    <3>3. pos <= Len(sink)
      BY <1>1 DEF RecordsType
    <3>4. \A j \in pos + 1 .. Len(sink) - 1 : j \in pos + 1 .. pos + head - 1
      BY <1>1, <3>1
    <3>5. \A j \in pos + 1 .. Len(sink) - 1 : sink[j] >= Base
      BY <3>2, <3>4, Zenon
    <3> QED BY <3>3, <3>5, Zenon DEF Whole
  <2> QED BY <1>3, <2>1, <2>2, <2>3, EndShort
<1>6. CASE have = size
  <2>1. ~(have < size)
    BY <1>6
  <2>2. PICK x \in Seq(Nat) : rpc' = rpc /\ got' = Append(got, x) /\ Len(x) = size
    BY <1>2, <2>1, Zenon DEF Reads
  <2>3. sink' = sink /\ result' = result /\ wpc' = wpc
    BY <1>3 DEF writer
  <2>4. /\ (Stopped' <=> Stopped) /\ (AllComplete' <=> AllComplete)
        /\ LengthCut(Begun)' <=> LengthCut(Begun)
        /\ DataCut(Begun)' <=> DataCut(Begun)
        /\ OneLength(Begun)' <=> OneLength(Begun)
        /\ DataThenLength(Begun)' <=> DataThenLength(Begun)
    BY <2>3, SamePipe
  <2>5. Failed' <=> Failed
    BY <2>3, <2>4, Zenon DEF Failed
  <2>6. SUFFICES ASSUME Stopped, ~AllComplete, Len(got') >= Len(result) PROVE Past'
    BY <1>3, <2>2, <2>3, <2>4, <2>5, Zenon DEF ShortInv
  <2>7. Failed /\ (Len(got) >= Len(result) => Past)
    BY <1>3, <2>6, Zenon DEF ShortInv
  <2>8. /\ Begun \in Nat /\ Len(result) \in Nat /\ Len(got') = Len(got) + 1
        /\ got \in Seq(Seq(Nat))
    BY <1>1, <2>2, <2>6, AtFailure DEF RecordsType
  \* Nothing was cut off within what was read.
  <2>9. ASSUME Whole(pos) PROVE size = 0 /\ pos + head = Len(sink) /\ ~LastLength(pos)
    <3>1. pos + head = Len(sink)
      BY <1>1, <1>3, <2>9, WholeRead
    <3>2. size = 0
      BY <1>1, <1>3, <1>4, <1>6, <3>1
    <3>3. ~LastLength(pos)
      BY <1>1, <1>3, <3>2, LastLengthRead
    <3> QED BY <3>1, <3>2, <3>3
  <2>10. ~(Len(got) >= Len(result))
    <3> SUFFICES ASSUME Past PROVE FALSE
      BY <2>7
    <3>1. CASE pos = Len(sink)
      BY <1>1, <1>3, <1>4, <3>1
    <3>2. CASE LastLength(pos)
      BY <2>9, <3>2 DEF LastLength
    <3> QED BY <3>1, <3>2 DEF Past
  <2>11. pos = Begun /\ Size(got) = Begun
    <3>1. Len(got) + 1 = Len(result)
      BY <1>1, <2>6, <2>8, <2>10
    <3> QED BY <1>3, <2>6, <3>1, AtFailure
  <2>12. /\ Size(got') = Size(got) + Len(Encoded(x))
         /\ Len(Encoded(x)) = Len(Uvarint[size]) + size
         /\ Len(Uvarint[size]) \in Nat
    <3>1. Size(Append(got, x)) = Size(got) + Len(Encoded(x))
      BY <2>8, SizeStep
    <3>2. Len(Encoded(x)) = Len(Uvarint[Len(x)]) + Len(x) /\ Len(Uvarint[Len(x)]) \in Nat
      BY Encodes
    <3> QED BY <2>2, <3>1, <3>2, Zenon
  <2>13. ~LengthCut(pos)
    <3> SUFFICES ASSUME LengthCut(pos) PROVE FALSE
      OBVIOUS
    <3>1. PICK j : j = pos + head
      OBVIOUS
    <3>2. j <= Len(sink) /\ ~(sink[j] >= Base)
      BY <1>1, <1>3, <3>1, RestMeans
    <3>3. j \in pos + 1 .. Len(sink)
      BY <1>1, <1>4, <3>1, <3>2
    <3> QED BY <3>2, <3>3 DEF LengthCut
  \* A length that was written in whole is found and its bytes wanted.
  <2>14. ASSUME NEW n \in Nat, At(sink, pos, Uvarint[n])
         PROVE  head = Len(Uvarint[n]) /\ size = n
    BY <1>1, <1>3, <2>14, LengthAt
  <2>15. ~DataCut(pos)
    <3> SUFFICES ASSUME DataCut(pos) PROVE FALSE
      OBVIOUS
    <3>1. PICK n \in Nat : At(sink, pos, Uvarint[n]) /\ Len(sink) < pos + Len(Uvarint[n]) + n
      BY DEF DataCut
    <3>2. head = Len(Uvarint[n]) /\ size = n
      BY <2>14, <3>1
    <3>3. Len(sink) < pos + head + size
      BY <3>1, <3>2
    <3> QED BY <1>1, <1>3, <1>6, <3>3
  <2>16. wpc \in {"data", "closed"} /\ (OneLength(pos) \/ DataThenLength(pos))
    <3>1. wpc \in {"idle", "length", "data", "closed"}
      BY <1>1 DEF RecordsType
    <3>2. Failed /\ ~LengthCut(Begun) /\ ~DataCut(Begun)
      BY <2>7, <2>11, <2>13, <2>15
    <3> QED BY <2>11, <3>1, <3>2, Zenon DEF Failed
  <2>17. PICK q \in Nat : q = Size(got')
    BY <1>1, <2>11, <2>12
  <2>18. PICK p \in Nat : p = pos'
    BY <1>1, <1>3
  <2>19. CASE OneLength(pos)
    <3>1. Whole(pos) /\ size = 0 /\ pos + head = Len(sink)
      BY <2>9, <2>19 DEF OneLength
    <3>2. p = Len(sink)
      BY <1>1, <1>3, <1>6, <2>18, <3>1
    <3>3. q = pos + 1
      <4>1. Len(Uvarint[size]) = 1 /\ size = 0
        BY <3>1, NoBytes
      <4>2. q = pos + (1 + 0)
        BY <2>11, <2>12, <2>17, <4>1, Zenon
      <4> QED BY <1>1, <4>2
    <3>4. q <= Len(sink) /\ \A j \in q + 1 .. Len(sink) - 1 : j \in pos + 1 .. Len(sink) - 1
      BY <1>1, <1>4, <3>1, <3>3
    <3>5. \A j \in q + 1 .. Len(sink) - 1 : sink[j] >= Base
      BY <3>1, <3>4, Zenon DEF Whole
    <3>6. Whole(q)'
      BY <2>3, <3>4, <3>5, Zenon DEF Whole
    <3>7. Whole(Size(got))'
      BY <2>17, <3>6, Zenon DEF Whole
    <3> QED BY <2>3, <2>16, <2>18, <3>2, <3>7, Zenon DEF Past
  <2>20. CASE DataThenLength(pos)
    <3>1. PICK n \in Nat, c \in Nat :
            /\ At(sink, pos, Uvarint[n])
            /\ pos + Len(Uvarint[n]) <= c /\ c < pos + Len(Uvarint[n]) + n
            /\ c < Len(sink) /\ LastLength(c + 1)
      BY <2>20, Zenon DEF DataThenLength
    <3>2. head = Len(Uvarint[n]) /\ size = n
      BY <2>14, <3>1
    <3>3. p = pos + head + size /\ c + 1 <= p /\ p <= Len(sink)
      <4>1. c < pos + head + size
        BY <3>1, <3>2
      <4> QED BY <1>1, <1>3, <1>6, <2>18, <4>1
    <3>4. q = p
      <4>1. Len(Uvarint[size]) = head
        BY <3>2
      <4>2. q = pos + (head + size)
        BY <2>11, <2>12, <2>17, <4>1, Zenon
      <4> QED BY <1>1, <3>3, <4>2
    <3>5. \A j \in p + 1 .. Len(sink) - 1 : j \in c + 1 + 1 .. Len(sink) - 1
      BY <1>1, <3>3
    <3>6. \A j \in p + 1 .. Len(sink) - 1 : sink[j] >= Base
      BY <3>1, <3>5, Zenon DEF LastLength, Whole
    <3>7. p < Len(sink) => sink[Len(sink)] \in 1 .. Base - 1
      <4>1. p < Len(sink) => c + 1 < Len(sink)
        BY <1>1, <3>3
      <4> QED BY <3>1, <4>1, Zenon DEF LastLength
    <3>8. LastLength(p)'
      BY <2>3, <3>3, <3>6, <3>7, Zenon DEF LastLength, Whole
    <3>9. LastLength(pos)'
      BY <2>18, <3>8, Zenon DEF LastLength, Whole
    <3>10. pos' = Size(got)'
      BY <2>17, <2>18, <3>4
    <3> QED BY <2>3, <2>16, <3>9, <3>10, Zenon DEF Past
  <2> QED BY <2>16, <2>19, <2>20
<1>7. have < size \/ have = size
  BY <1>3, <1>4
<1> QED BY <1>5, <1>6, <1>7

\* The invariant holds in every run.
LEMMA ShortInvariant == Spec => []ShortInv
<1>1. Init => ShortInv
  <2> SUFFICES ASSUME Init PROVE ShortInv
    OBVIOUS
  <2>1. result = << >> /\ rpc = "reading"
    BY DEF Init
  <2>2. AllComplete
    BY <2>1 DEF AllComplete
  <2> QED BY <2>1, <2>2 DEF ShortInv
<1>2. RecordsInv /\ ShortInv /\ [Next]_vars => ShortInv'
  <2> SUFFICES ASSUME RecordsInv, ShortInv, [Next]_vars PROVE ShortInv'
    OBVIOUS
  <2>1. CASE Put
    <3>1. sink' = sink /\ result' = result /\ UNCHANGED reader /\ wpc = "idle" /\ wpc' = "length"
      BY <2>1 DEF Put
    <3> QED BY <3>1, QuietShort
  <2>2. CASE WriteLength
    BY <2>2, WriteLengthShort
  <2>3. CASE WriteData
    BY <2>3, WriteDataShort
  <2>4. CASE LengthFails
    BY <2>4, LengthFailsShort
  <2>5. CASE DataFails
    BY <2>5, DataFailsShort
  <2>6. CASE Close
    <3>1. sink' = sink /\ result' = result /\ UNCHANGED reader /\ wpc # "closed" /\ wpc' = "closed"
      BY <2>6 DEF Close
    <3> QED BY <3>1, QuietShort
  <2>7. CASE NoLength
    BY <2>7, NoLengthShort
  <2>8. CASE NextRecord
    BY <2>8, NextRecordShort
  <2>9. CASE UNCHANGED vars
    <3>1. sink' = sink /\ result' = result /\ wpc' = wpc /\ rpc' = rpc /\ got' = got /\ pos' = pos
      BY <2>9 DEF vars, writer, reader
    <3>2. /\ (Stopped' <=> Stopped) /\ (AllComplete' <=> AllComplete)
          /\ LengthCut(Begun)' <=> LengthCut(Begun)
          /\ DataCut(Begun)' <=> DataCut(Begun)
          /\ OneLength(Begun)' <=> OneLength(Begun)
          /\ DataThenLength(Begun)' <=> DataThenLength(Begun)
      BY <3>1, SamePipe
    <3>3. /\ Whole(Size(got))' <=> Whole(Size(got))
          /\ LastLength(pos)' <=> LastLength(pos)
      BY <3>1, Zenon DEF LastLength, Whole
    <3>4. (Past' <=> Past) /\ (Failed' <=> Failed)
      BY <3>1, <3>2, <3>3, Zenon DEF Past, Failed
    <3> QED BY <3>1, <3>2, <3>3, <3>4, Zenon DEF ShortInv
  <2> QED
    BY <2>1, <2>2, <2>3, <2>4, <2>5, <2>6, <2>7, <2>8, <2>9 DEF Next, WriterStep, ReaderStep
<1> QED BY RecordsInvariant, <1>1, <1>2, PTL DEF Spec

\* A clean end of the stream of a writer that stopped at its first failure means
\* that not one byte of a record is lost: what the reader has not returned is a
\* length at the most.
THEOREM ShortRecordsReported == Spec => []ShortReported
<1>1. RecordsInv /\ ShortInv => ShortReported
  <2> SUFFICES ASSUME RecordsInv, ShortInv, rpc = "EOF", Stopped
               PROVE  Length(SubSeq(sink, Size(got) + 1, Len(sink)))
                        \in {0, Len(SubSeq(sink, Size(got) + 1, Len(sink)))}
    BY DEF ShortReported
  <2>1. Whole(Size(got))
    BY DEF ShortInv
  <2>2. RecordsType /\ got \in Seq(Seq(Nat)) /\ << >> \in Seq(Nat)
    BY DEF RecordsInv, RecordsType
  <2>3. Size(got) \in Nat
    BY <2>2, SizeStep
  <2> QED BY <2>1, <2>2, <2>3, WholeIsShort
<1> QED BY RecordsInvariant, ShortInvariant, <1>1, PTL
=============================================================================
