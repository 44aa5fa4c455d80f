----------------------------- MODULE TextProofs -----------------------------
(***************************************************************************)
(* Proofs about the text forms, FieldText and HexText, for every base and  *)
(* every length. The two specifications are about variables of their own   *)
(* and share the lemmas about numbers.                                     *)
(***************************************************************************)
EXTENDS FieldText, HexText, TLAPS, WellFoundedInduction

-----------------------------------------------------------------------------
(* Induction over the natural numbers, by the least counterexample.        *)

LEMMA LessIsWellFounded ==
    IsWellFoundedOn({pair \in Nat \X Nat : pair[1] < pair[2]}, Nat)
BY NatLessThanWellFounded DEF OpToRel

\* A set of numbers that is not empty has a least one.
LEMMA LeastNumber ==
    ASSUME NEW T, T \subseteq Nat, T # {}
    PROVE  \E m \in T : \A n \in T : m <= n
<1> DEFINE R == {pair \in Nat \X Nat : pair[1] < pair[2]}
<1>1. \E m \in T : \A n \in T : ~ (<<n, m>> \in R)
  <2>1. IsWellFoundedOn(R, Nat)
    BY LessIsWellFounded
  <2> HIDE DEF R
  <2> QED
    BY <2>1, WFMin
<1>2. PICK m \in T : \A n \in T : ~ (<<n, m>> \in R)
  BY <1>1
<1>3. ASSUME NEW n \in T, n < m
      PROVE  FALSE
  <2>1. <<n, m>> \in R
    BY <1>3
  <2> QED
    BY <1>2, <2>1
<1> QED
  BY <1>3

\* What holds of 0 and is passed on up to n holds up to n.
LEMMA Climb ==
    ASSUME NEW n \in Nat, NEW S, 0 \in S,
           \A i \in 1..n : i - 1 \in S => i \in S
    PROVE  \A i \in 0..n : i \in S
<1> DEFINE T == (0..n) \ S
<1> SUFFICES ASSUME T # {}
             PROVE  FALSE
  OBVIOUS
<1>1. PICK m \in T : \A k \in T : m <= k
  <2>1. T \subseteq Nat
    OBVIOUS
  <2> HIDE DEF T
  <2> QED
    BY <2>1, LeastNumber
<1>2. m \in 1..n /\ m - 1 \in 0..n /\ m - 1 < m
  BY <1>1
<1>3. m - 1 \in S
  BY <1>1, <1>2
<1> QED
  BY <1>1, <1>2, <1>3

\* Round i takes a value of R to a value of R, and f is what the rounds yield.
RoundsStay(round, n, R) == \A i \in 1..n : \A m \in R : round[i][m] \in R
Yields(f, first, round, n) ==
    f[0] = first /\ \A i \in 1..n : f[i] = round[i][f[i - 1]]

\* A recursive definition over 0..n defines a function: here round by round.
LEMMA Rounds ==
    ASSUME NEW n \in Nat, NEW R, NEW first \in R, NEW round, RoundsStay(round, n, R)
    PROVE  \E f \in [0..n -> R] : Yields(f, first, round, n)
<1> DEFINE Upto(k) == \E f \in [0..k -> R] :
                         f[0] = first /\ \A i \in 1..k : f[i] = round[i][f[i - 1]]
           S == {k \in Nat : Upto(k)}
<1>1. 0 \in S
  <2> DEFINE f == [i \in 0..0 |-> first]
  <2>1. f \in [0..0 -> R] /\ f[0] = first /\ \A i \in 1..0 : f[i] = round[i][f[i - 1]]
    OBVIOUS
  <2>2. Upto(0)
    BY <2>1
  <2> QED
    BY <2>2
<1>2. ASSUME NEW k \in 1..n, k - 1 \in S
      PROVE  k \in S
  <2>1. PICK f \in [0 .. k - 1 -> R] :
                f[0] = first /\ \A i \in 1 .. k - 1 : f[i] = round[i][f[i - 1]]
    BY <1>2
  <2> DEFINE g == [i \in 0..k |-> IF i = k THEN round[k][f[k - 1]] ELSE f[i]]
  <2>2. g \in [0..k -> R] /\ g[0] = first
    BY <2>1 DEF RoundsStay
  <2>3. ASSUME NEW i \in 1..k
        PROVE  g[i] = round[i][g[i - 1]]
    <3>1. g[i - 1] = f[i - 1]
      OBVIOUS
    <3>2. CASE i = k
      BY <3>1, <3>2
    <3>3. CASE i # k
      <4>1. i \in 1 .. k - 1
        BY <3>3
      <4> QED
        BY <2>1, <3>1, <3>3, <4>1
    <3> QED
      BY <3>2, <3>3
  <2>4. Upto(k)
    <3> HIDE DEF g
    <3> QED
      BY <2>2, <2>3
  <2> QED
    BY <2>4
<1>3. \A k \in 0..n : k \in S
  <2> HIDE DEF S
  <2> QED
    BY <1>1, <1>2, Climb
<1>4. n \in S
  BY <1>3
<1> QED
  BY <1>4 DEF Yields

-----------------------------------------------------------------------------
(* Numbers.                                                                *)

LEMMA Products == \A m, n \in Nat : m * n \in Nat
  OBVIOUS

\* Sequences of digits, and what they are read as, digit by digit.
Digits(s) == Len(s) \in Nat /\ \A i \in 1..Len(s) : s[i] \in Nat
Reads(v, first, base, s, n) ==
    v[0] = first /\ \A i \in 1..n : v[i] = v[i - 1] * base + s[i]

AreValues(f, first, base, s) ==
    f = [i \in 0..Len(s) |-> IF i = 0 THEN first ELSE f[i - 1] * base + s[i]]

LEMMA ValuesExist ==
    ASSUME NEW first \in Nat, NEW base \in Nat, NEW s, Len(s) \in Nat,
           \A i \in 1..Len(s) : s[i] \in Nat
    PROVE  \E f : AreValues(f, first, base, s)
<1> DEFINE R == Nat
           start == first
           len == Len(s)
           round == [i \in 1..len |-> [m \in R |-> m * base + s[i]]]
<1>1. start \in R /\ RoundsStay(round, len, R)
  BY Products DEF RoundsStay
<1>2. PICK f \in [0..len -> R] : Yields(f, start, round, len)
  <2>1. len \in Nat
    OBVIOUS
  <2> HIDE DEF R, start, round, len
  <2> QED
    BY <1>1, <2>1, Rounds
<1>3. ASSUME NEW i \in 1..len
      PROVE  f[i] = f[i - 1] * base + s[i]
  <2>1. f[i - 1] \in R
    OBVIOUS
  <2> QED
    BY <1>2, <2>1 DEF Yields
<1> QED
  BY <1>2, <1>3 DEF Yields, AreValues

\* The values of a sequence of digits: the first one, and each from the one
\* before.
LEMMA ValuesClimb ==
    ASSUME NEW first \in Nat, NEW base \in Nat, NEW s, Digits(s)
    PROVE  /\ Reads(Values(first, base, s), first, base, s, Len(s))
           /\ \A i \in 0..Len(s) : Values(first, base, s)[i] \in Nat
<1> DEFINE v == Values(first, base, s)
<1>1. v = [i \in 0..Len(s) |-> IF i = 0 THEN first ELSE v[i - 1] * base + s[i]]
  <2>1. AreValues(CHOOSE f : AreValues(f, first, base, s), first, base, s)
    BY ValuesExist DEF Digits
  <2>2. AreValues(v, first, base, s)
    BY <2>1 DEF AreValues, Values
  <2> QED
    BY <2>2 DEF AreValues
<1> HIDE DEF v
<1>2. v[0] = first /\ \A i \in 1..Len(s) : v[i] = v[i - 1] * base + s[i]
  BY <1>1 DEF Digits
<1> DEFINE S == {i \in Nat : i <= Len(s) => v[i] \in Nat}
<1>3. 0 \in S
  BY <1>2
<1>4. ASSUME NEW i \in 1..Len(s), i - 1 \in S
      PROVE  i \in S
  <2>1. v[i - 1] \in Nat /\ s[i] \in Nat
    BY <1>4 DEF Digits
  <2>2. v[i - 1] * base \in Nat
    BY <2>1, Products
  <2>3. v[i] \in Nat
    BY <1>2, <2>1, <2>2
  <2> QED
    BY <2>3
<1>5. \A i \in 0..Len(s) : i \in S
  <2> HIDE DEF S
  <2> QED
    BY <1>3, <1>4, Climb DEF Digits
<1>6. \A i \in 0..Len(s) : v[i] \in Nat
  BY <1>5
<1> QED
  BY <1>2, <1>6 DEF v, Reads

\* Whatever starts at the same number and goes on by the same digits reaches
\* the same values.
LEMMA ReadsAgree ==
    ASSUME NEW first, NEW base, NEW s, NEW u, NEW v, NEW n \in Nat,
           Reads(u, first, base, s, n), Reads(v, first, base, s, n)
    PROVE  \A i \in 0..n : u[i] = v[i]
<1> DEFINE S == {i \in Nat : u[i] = v[i]}
<1>1. 0 \in S
  BY DEF Reads
<1>2. \A i \in 1..n : i - 1 \in S => i \in S
  BY DEF Reads
<1>3. \A i \in 0..n : i \in S
  <2> HIDE DEF S
  <2> QED
    BY <1>1, <1>2, Climb
<1> QED
  BY <1>3

\* The number is where the digits lead, one after the other.
LEMMA NumberIs ==
    ASSUME NEW first \in Nat, NEW base \in Nat, NEW s, Digits(s),
           NEW v, Reads(v, first, base, s, Len(s))
    PROVE  v[Len(s)] = NumberFrom(first, base, s)
<1> DEFINE w == Values(first, base, s)
           n == Len(s)
<1>1. n \in Nat /\ Reads(v, first, base, s, n) /\ Reads(w, first, base, s, n)
  BY ValuesClimb DEF Digits
<1> HIDE DEF w, n
<1>2. v[n] = w[n]
  BY <1>1, ReadsAgree
<1> QED
  BY <1>2 DEF w, n, NumberFrom

\* What the first k digits denote is met on the way.
LEMMA PrefixNumber ==
    ASSUME NEW base \in Nat, NEW s \in Seq(Nat), NEW k \in 0..Len(s)
    PROVE  Number(base, SubSeq(s, 1, k)) = Values(0, base, s)[k]
<1> DEFINE t == SubSeq(s, 1, k)
           v == Values(0, base, s)
<1>1. /\ Len(t) = k /\ k \in Nat
      /\ \A i \in 1..k : i \in 1..Len(s) /\ t[i] = s[i] /\ t[i] \in Nat
  OBVIOUS
<1>2. Reads(v, 0, base, s, Len(s))
  BY ValuesClimb DEF Digits
<1> HIDE DEF t, v
<1>3. Reads(v, 0, base, t, Len(t)) /\ Digits(t)
  <2>1. v[0] = 0 /\ \A i \in 1..k : v[i] = v[i - 1] * base + t[i]
    BY <1>1, <1>2 DEF Reads
  <2> QED
    BY <1>1, <2>1 DEF Reads, Digits
<1>4. v[Len(t)] = NumberFrom(0, base, t)
  BY <1>3, NumberIs
<1> QED
  BY <1>1, <1>4 DEF Number, t, v

\* A digit in front is what the reading goes on from.
LEMMA LeadingDigit ==
    ASSUME NEW first \in Nat, NEW base \in Nat, NEW d \in Nat, NEW s \in Seq(Nat)
    PROVE  NumberFrom(first, base, <<d>> \o s) = NumberFrom(first * base + d, base, s)
<1> DEFINE t == <<d>> \o s
           n == Len(s)
           v == Values(first, base, t)
           w == [i \in 0..n |-> v[i + 1]]
           second == first * base + d
<1>1. /\ Len(t) = n + 1 /\ n \in Nat /\ t[1] = d /\ t \in Seq(Nat)
      /\ \A i \in 1..n : t[i + 1] = s[i] /\ s[i] \in Nat
  OBVIOUS
<1>2. Digits(t) /\ Digits(s)
  BY <1>1 DEF Digits
<1>3. v[0] = first /\ \A i \in 1 .. n + 1 : v[i] = v[i - 1] * base + t[i]
  <2> HIDE DEF t
  <2>1. Reads(v, first, base, t, Len(t))
    BY <1>2, ValuesClimb
  <2> QED
    BY <1>1, <2>1 DEF Reads
<1>4. second \in Nat
  BY Products
<1> HIDE DEF t, v
<1>5. v[1] = second
  <2>1. 1 \in 1 .. n + 1 /\ 1 - 1 = 0
    BY <1>1
  <2> QED
    BY <1>1, <1>3, <2>1
<1>6. w[0] = second
  BY <1>1, <1>5
<1>7. ASSUME NEW i \in 1..n
      PROVE  w[i] = w[i - 1] * base + s[i]
  <2>1. i + 1 \in 1 .. n + 1 /\ (i + 1) - 1 = i /\ (i - 1) + 1 = i
        /\ i - 1 \in 0..n /\ i \in 0..n
    BY <1>1
  <2>2. v[i + 1] = v[i] * base + t[i + 1]
    BY <1>3, <2>1
  <2>3. w[i] = v[i + 1] /\ w[i - 1] = v[i]
    BY <2>1
  <2> QED
    BY <1>1, <2>2, <2>3
<1> HIDE DEF w, second
<1>8. w[n] = NumberFrom(second, base, s)
  <2>1. Reads(w, second, base, s, Len(s))
    BY <1>6, <1>7 DEF Reads
  <2>2. w[Len(s)] = NumberFrom(second, base, s)
    BY <1>2, <1>4, <2>1, NumberIs
  <2> QED
    BY <2>2
<1>9. w[n] = v[n + 1]
  BY <1>1 DEF w
<1> QED
  BY <1>1, <1>8, <1>9 DEF NumberFrom, t, v, second

\* Values never fall, and digits in front that are no zeros keep them up.
LEMMA ValuesGrow ==
    ASSUME NEW first \in Nat, NEW base \in Nat \ {0}, NEW s, Digits(s),
           NEW k \in 0..Len(s)
    PROVE  Values(first, base, s)[k] <= Values(first, base, s)[Len(s)]
<1> DEFINE v == Values(first, base, s)
           n == Len(s)
           S == {i \in Nat : k + i <= n => v[k] <= v[k + i]}
<1>1. /\ \A i \in 1..n : v[i] = v[i - 1] * base + s[i] /\ s[i] \in Nat
      /\ \A i \in 0..n : v[i] \in Nat
      /\ n \in Nat
  BY ValuesClimb DEF Reads, Digits
<1> HIDE DEF v
<1>2. ASSUME NEW i \in 1..n
      PROVE  v[i - 1] <= v[i]
  <2>1. v[i - 1] \in Nat /\ s[i] \in Nat /\ v[i] = v[i - 1] * base + s[i]
    BY <1>1
  <2>2. \A a \in Nat : a * base >= a
    OBVIOUS
  <2>3. v[i - 1] * base >= v[i - 1] /\ v[i - 1] * base \in Nat
    BY <2>1, <2>2, Products
  <2> QED
    BY <2>1, <2>3
<1>3. 0 \in S
  BY <1>1
<1>4. ASSUME NEW i \in 1 .. n - k, i - 1 \in S
      PROVE  i \in S
  <2>1. /\ k + i \in 1..n /\ k \in 0..n /\ k + i - 1 \in 0..n /\ k + i \in 0..n
        /\ k + (i - 1) = k + i - 1
    BY <1>1
  <2>2. v[k] <= v[k + i - 1] /\ v[k + i - 1] <= v[k + i]
    BY <1>2, <1>4, <2>1
  <2>3. v[k] \in Nat /\ v[k + i - 1] \in Nat /\ v[k + i] \in Nat
    BY <1>1, <2>1
  <2> QED
    BY <2>2, <2>3
<1>5. n - k \in 0 .. n - k /\ n - k \in Nat
  BY <1>1
<1>6. \A i \in 0 .. n - k : i \in S
  <2> HIDE DEF S
  <2> QED
    BY <1>3, <1>4, <1>5, Climb
<1>7. k + (n - k) = n
  BY <1>1
<1>8. v[k] <= v[n]
  BY <1>5, <1>6, <1>7
<1> QED
  BY <1>8 DEF v

\* A power is a product.
LEMMA PowersClimb ==
    ASSUME NEW base \in Nat \ {0}
    PROVE  /\ Power(base, 0) = 1
           /\ \A n \in Nat : /\ Power(base, n) \in Nat \ {0}
                             /\ Power(base, n + 1) = Power(base, n) * base
<1> DEFINE zeros(n) == [i \in 1..n |-> 0]
           v(n) == Values(1, base, zeros(n))
<1>1. \A n \in Nat : Len(zeros(n)) = n /\ \A i \in 1..n : zeros(n)[i] = 0
  OBVIOUS
<1>2. ASSUME NEW n \in Nat
      PROVE  /\ v(n)[0] = 1
             /\ \A i \in 1..n : v(n)[i] = v(n)[i - 1] * base + 0
             /\ \A i \in 0..n : v(n)[i] \in Nat
             /\ v(n)[n] = Power(base, n)
             /\ 1 <= v(n)[n]
  <2> DEFINE z == zeros(n)
  <2>1. Len(z) = n /\ \A i \in 1..n : z[i] = 0 /\ z[i] \in Nat
    OBVIOUS
  <2>2. v(n)[n] = Power(base, n)
    BY <2>1 DEF Power, NumberFrom
  <2> HIDE DEF z
  <2>3. Digits(z)
    BY <2>1 DEF Digits
  <2>4. /\ Reads(Values(1, base, z), 1, base, z, Len(z))
        /\ \A i \in 0..Len(z) : Values(1, base, z)[i] \in Nat
    BY <2>3, ValuesClimb
  <2>5. Values(1, base, z)[0] <= Values(1, base, z)[Len(z)]
    BY <2>1, <2>3, ValuesGrow
  <2> QED
    BY <2>1, <2>2, <2>4, <2>5 DEF z, Reads
<1> HIDE DEF zeros, v
<1>3. ASSUME NEW n \in Nat
      PROVE  v(n + 1)[n] = v(n)[n]
  <2>1. n + 1 \in Nat /\ \A i \in 1..n : i \in 1 .. n + 1
    OBVIOUS
  <2> DEFINE u == v(n + 1)
             w == v(n)
             z == zeros(n)
  <2>2. Reads(u, 1, base, z, n) /\ Reads(w, 1, base, z, n)
    BY <1>1, <1>2, <2>1 DEF Reads
  <2> HIDE DEF u, w, z
  <2>3. \A i \in 0..n : u[i] = w[i]
    BY <2>2, ReadsAgree
  <2> QED
    BY <2>3 DEF u, w
<1>4. ASSUME NEW n \in Nat
      PROVE  /\ Power(base, n) \in Nat \ {0}
             /\ Power(base, n + 1) = Power(base, n) * base
  <2>1. n + 1 \in Nat /\ n + 1 \in 1 .. n + 1 /\ (n + 1) - 1 = n /\ n \in 0..n
    OBVIOUS
  <2>2. v(n + 1)[n + 1] = v(n + 1)[n] * base + 0
    BY <1>2, <2>1
  <2>3. v(n)[n] \in Nat /\ 1 <= v(n)[n] /\ v(n)[n] = Power(base, n)
    BY <1>2, <2>1
  <2>4. Power(base, n + 1) = Power(base, n) * base + 0
    BY <1>2, <1>3, <2>1, <2>2, <2>3
  <2>5. Power(base, n) * base \in Nat
    BY <2>3, Products
  <2> QED
    BY <2>3, <2>4, <2>5
<1>5. Power(base, 0) = 1
  BY <1>2
<1> QED
  BY <1>4, <1>5

-----------------------------------------------------------------------------
(* Division.                                                               *)

LEMMA Division ==
    ASSUME NEW n \in Nat, NEW w \in Nat \ {0}
    PROVE  /\ n \div w \in Nat /\ n % w \in 0 .. w - 1
           /\ n = (n \div w) * w + (n % w)
OBVIOUS

LEMMA Multiples ==
    \A m, n, w \in Nat : m < n => m * w + w <= n * w
<1> SUFFICES ASSUME NEW m \in Nat, NEW n \in Nat, NEW w \in Nat, m < n
             PROVE  m * w + w <= n * w
  OBVIOUS
<1>1. n - m - 1 \in Nat
  OBVIOUS
<1>2. (n - m - 1) * w \in Nat
  BY <1>1, Products
<1>3. n * w = (n - m - 1) * w + (m * w + w)
  OBVIOUS
<1>4. m * w \in Nat
  BY Products
<1> QED
  BY <1>2, <1>3, <1>4

\* Quotient and remainder of a number that is put together from them.
LEMMA Parts ==
    ASSUME NEW q \in Nat, NEW w \in Nat \ {0}, NEW r \in 0 .. w - 1
    PROVE  (q * w + r) \div w = q /\ (q * w + r) % w = r
<1> DEFINE n == q * w + r
           p == n \div w
           s == n % w
<1>1. q * w \in Nat /\ n \in Nat
  BY Products
<1>2. p \in Nat /\ s \in 0 .. w - 1 /\ n = p * w + s
  <2> HIDE DEF n
  <2> QED
    BY <1>1, Division
<1>3. n = q * w + r
  OBVIOUS
<1>4. p * w \in Nat
  BY <1>2, Products
<1> HIDE DEF n, p, s
<1>5. ~ (p < q)
  <2> SUFFICES ASSUME p < q PROVE FALSE
    OBVIOUS
  <2>1. p * w + w <= q * w
    BY <1>2, Multiples
  <2> QED
    BY <1>1, <1>2, <1>3, <1>4, <2>1
<1>6. ~ (q < p)
  <2> SUFFICES ASSUME q < p PROVE FALSE
    OBVIOUS
  <2>1. q * w + w <= p * w
    BY <1>2, Multiples
  <2> QED
    BY <1>1, <1>2, <1>3, <1>4, <2>1
<1>7. p = q
  BY <1>2, <1>5, <1>6
<1>8. s = r
  BY <1>1, <1>2, <1>3, <1>7
<1> QED
  BY <1>7, <1>8 DEF n, p, s

-----------------------------------------------------------------------------
(* HexText.                                                                *)

\* Every byte of b is the pair of digits that t has in its place.
Spells(b, t) ==
    \A i \in 1..Len(b) :
        /\ {t[2 * i - 1], t[2 * i]} \subseteq HexChar
        /\ b[i] = Nibble(t[2 * i - 1]) * Base + Nibble(t[2 * i])

HexInv ==
    /\ HexTextTypeOK
    /\ stage = "decoding" => at = 2 * Len(octets) /\ Spells(octets, hex)
    /\ stage \in {"decoded", "accepted", "printed"} /\ hex # <<>> =>
          Len(hex) = 2 * Len(octets) /\ Spells(octets, hex)
    /\ stage \in {"accepted", "printed"} => Len(octets) = RequiredLen[type]
    /\ stage = "printed" => printed = EncodeHex(octets)
    /\ printed # <<>> =>
          /\ Len(printed) = 2 * RequiredLen[type]
          /\ stage # "refused"
          /\ stage # "printed" => hex = printed
    /\ stage = "refused" =>
          \/ Len(hex) % 2 = 1
          \/ \E i \in DOMAIN hex : hex[i] \notin HexChar
          \/ /\ got # RequiredLen[type]
             /\ hex # <<>> => Len(hex) # 2 * RequiredLen[type]

LEMMA HexDigits ==
    ASSUME NEW c \in HexChar
    PROVE  Nibble(c) \in 0 .. Base - 1 /\ Nibble(c) = c.digit
  BY HexTextAssumption DEF HexChar, Nibble, HexDigit, Lower, Upper

\* A pair of digits is a byte, and the byte gives the digits back.
LEMMA PairIsByte ==
    ASSUME NEW h \in 0 .. Base - 1, NEW l \in 0 .. Base - 1
    PROVE  /\ h * Base + l \in Byte
           /\ (h * Base + l) \div Base = h /\ (h * Base + l) % Base = l
<1>1. Base \in Nat \ {0} /\ h \in Nat /\ l \in Nat /\ h < Base
  BY HexTextAssumption
<1>2. h * Base + Base <= Base * Base /\ h * Base \in Nat /\ Base * Base \in Nat
  BY <1>1, Multiples, Products
<1>3. h * Base + l \in Byte
  BY <1>1, <1>2 DEF Byte
<1>4. (h * Base + l) \div Base = h /\ (h * Base + l) % Base = l
  BY <1>1, Parts
<1> QED
  BY <1>3, <1>4

\* The nibbles of a byte are digits.
LEMMA ByteIsPair ==
    ASSUME NEW b \in Byte
    PROVE  b \div Base \in 0 .. Base - 1 /\ b % Base \in 0 .. Base - 1
<1> DEFINE q == b \div Base
           r == b % Base
<1>1. Base \in Nat \ {0} /\ b \in Nat /\ b < Base * Base
  BY HexTextAssumption DEF Byte
<1>2. q \in Nat /\ r \in 0 .. Base - 1 /\ b = q * Base + r
  BY <1>1, Division
<1> HIDE DEF q, r
<1>3. ~ (Base < q) /\ q # Base
  <2>1. q * Base \in Nat /\ Base * Base \in Nat
    BY <1>1, <1>2, Products
  <2>2. Base < q => Base * Base + Base <= q * Base
    BY <1>1, <1>2, Multiples
  <2> QED
    BY <1>1, <1>2, <2>1, <2>2
<1>4. q \in 0 .. Base - 1
  BY <1>1, <1>2, <1>3
<1> QED
  BY <1>2, <1>4 DEF q, r

\* Bytes and the text that spells them denote the same number.
LEMMA SpelledNumber ==
    ASSUME NEW b, NEW t,
           Len(b) \in Nat, Len(t) = 2 * Len(b), Spells(b, t)
    PROVE  ByteNumber(b) = TextNumber(t)
<1> DEFINE d == [i \in 1..Len(t) |-> t[i].digit]
           n == Len(b)
           u == Values(0, Base, d)
           v == [i \in 0..n |-> u[2 * i]]
           square == Base * Base
<1>1. Base \in Nat /\ n \in Nat /\ square \in Nat
  BY Products, HexTextAssumption
<1>2. ASSUME NEW i \in 1..n
      PROVE  /\ 2 * i - 1 \in 1 .. 2 * n /\ 2 * i \in 1 .. 2 * n
             /\ d[2 * i - 1] \in Nat /\ d[2 * i] \in Nat
             /\ b[i] = d[2 * i - 1] * Base + d[2 * i]
  <2>1. 2 * i - 1 \in 1 .. 2 * n /\ 2 * i \in 1 .. 2 * n
    BY <1>1
  <2>2. /\ t[2 * i - 1] \in HexChar /\ t[2 * i] \in HexChar
        /\ b[i] = Nibble(t[2 * i - 1]) * Base + Nibble(t[2 * i])
    BY DEF Spells
  <2>3. d[2 * i - 1] = t[2 * i - 1].digit /\ d[2 * i] = t[2 * i].digit
    BY <2>1
  <2>4. /\ d[2 * i - 1] = Nibble(t[2 * i - 1]) /\ d[2 * i] = Nibble(t[2 * i])
        /\ d[2 * i - 1] \in 0 .. Base - 1 /\ d[2 * i] \in 0 .. Base - 1
    BY <2>2, <2>3, HexDigits
  <2> QED
    BY <1>1, <2>1, <2>2, <2>4
<1>3. Len(d) = 2 * n
  OBVIOUS
<1>4. ASSUME NEW j \in 1 .. 2 * n
      PROVE  d[j] \in Nat
  <2>1. PICK i \in 1..n : j = 2 * i - 1 \/ j = 2 * i
    <3> DEFINE i == (j + 1) \div 2
    <3>1. i \in 1..n /\ (j = 2 * i - 1 \/ j = 2 * i)
      BY <1>1
    <3> QED
      BY <3>1
  <2> QED
    BY <1>2, <2>1
<1>5. Digits(d)
  <2> HIDE DEF d
  <2> QED
    BY <1>1, <1>3, <1>4 DEF Digits
<1> HIDE DEF d
<1>6. Reads(u, 0, Base, d, 2 * n) /\ \A j \in 0 .. 2 * n : u[j] \in Nat
  BY <1>1, <1>3, <1>5, ValuesClimb
<1> HIDE DEF u
<1>7. ASSUME NEW i \in 1..n
      PROVE  v[i] = v[i - 1] * square + b[i] /\ b[i] \in Nat
  <2> DEFINE m == u[2 * i - 2]
             h == d[2 * i - 1]
             l == d[2 * i]
  <2>1. /\ (2 * i - 1) - 1 = 2 * i - 2 /\ 2 * (i - 1) = 2 * i - 2
        /\ 2 * i - 2 \in 0 .. 2 * n /\ i - 1 \in 0..n /\ i \in 0..n
    BY <1>1
  <2>2. u[2 * i - 1] = m * Base + h
    BY <1>2, <1>6, <2>1 DEF Reads
  <2>3. u[2 * i] = u[2 * i - 1] * Base + l
    BY <1>2, <1>6 DEF Reads
  <2>4. m \in Nat /\ h \in Nat /\ l \in Nat
    BY <1>2, <1>6, <2>1
  <2>5. v[i] = u[2 * i] /\ v[i - 1] = m
    BY <2>1
  <2>6. b[i] = h * Base + l
    BY <1>2
  <2> HIDE DEF m, h, l, v
  <2>7. h * Base \in Nat
    BY <1>1, <2>4, Products
  <2>8. (m * Base + h) * Base + l = m * square + (h * Base + l)
    <3> HIDE DEF square
    <3>1. \A x, y, z, w \in Nat : (x * w + y) * w + z = x * (w * w) + (y * w + z)
      OBVIOUS
    <3> QED
      BY <1>1, <2>4, <3>1 DEF square
  <2>9. v[i] = (m * Base + h) * Base + l
    BY <2>2, <2>3, <2>5
  <2>10. v[i] = v[i - 1] * square + b[i]
    BY <2>5, <2>6, <2>8, <2>9
  <2> QED
    BY <2>4, <2>6, <2>7, <2>10
<1>8. v[0] = 0
  BY <1>1, <1>6 DEF Reads
<1>9. Digits(b) /\ Reads(v, 0, square, b, Len(b))
  <2> HIDE DEF v, square
  <2> QED
    BY <1>1, <1>7, <1>8 DEF Digits, Reads
<1>10. v[n] = NumberFrom(0, square, b)
  <2> HIDE DEF v, square
  <2> QED
    BY <1>1, <1>9, NumberIs
<1>11. v[n] = u[2 * n]
  BY <1>1
<1>12. Number(Base, d) = u[2 * n]
  BY <1>3 DEF Number, NumberFrom, u
<1>13. TextNumber(t) = Number(Base, d)
  BY DEF TextNumber, d
<1>14. ByteNumber(b) = Number(square, b)
  BY DEF ByteNumber
<1> QED
  BY <1>10, <1>11, <1>12, <1>13, <1>14 DEF Number

\* The printed text has two digits for each byte.
LEMMA Encoded ==
    ASSUME NEW b \in Seq(Byte)
    PROVE  /\ EncodeHex(b) \in Seq(HexChar)
           /\ Len(EncodeHex(b)) = 2 * Len(b)
           /\ \A i \in 1..Len(b) :
                 /\ EncodeHex(b)[2 * i - 1] = Lower(b[i] \div Base)
                 /\ EncodeHex(b)[2 * i] = Lower(b[i] % Base)
<1> DEFINE n == Len(b)
           t == EncodeHex(b)
           char(j) == Lower(Nibbles(b[PairOf(j)])[InPair(j)])
<1>1. n \in Nat /\ \A i \in 1..n : b[i] \in Byte
  OBVIOUS
<1>2. ASSUME NEW j \in 1 .. 2 * n
      PROVE  char(j) \in HexChar
  <2> DEFINE i == PairOf(j)
  <2>1. i \in 1..n /\ InPair(j) \in {1, 2}
    BY <1>1 DEF PairOf, InPair
  <2>2. b[i] \in Byte
    BY <1>1, <2>1
  <2> HIDE DEF i
  <2>3. b[i] \div Base \in 0 .. Base - 1 /\ b[i] % Base \in 0 .. Base - 1
    BY <2>2, ByteIsPair
  <2>4. Nibbles(b[i])[InPair(j)] \in HexDigit
    BY <2>1, <2>3 DEF Nibbles, HexDigit
  <2> QED
    BY <2>4 DEF HexChar, i
<1>3. t = [j \in 1 .. 2 * n |-> char(j)]
  BY DEF EncodeHex
<1> HIDE DEF char, t
<1>4. t \in Seq(HexChar) /\ Len(t) = 2 * n
  BY <1>1, <1>2, <1>3
<1>5. ASSUME NEW i \in 1..n
      PROVE  t[2 * i - 1] = Lower(b[i] \div Base) /\ t[2 * i] = Lower(b[i] % Base)
  <2>1. 2 * i - 1 \in 1 .. 2 * n /\ 2 * i \in 1 .. 2 * n
    BY <1>1
  <2>2. /\ PairOf(2 * i - 1) = i /\ InPair(2 * i - 1) = 1
        /\ PairOf(2 * i) = i /\ InPair(2 * i) = 2
    BY <1>1 DEF PairOf, InPair
  <2> QED
    BY <1>3, <2>1, <2>2 DEF char, Nibbles
<1> QED
  BY <1>4, <1>5 DEF t

LEMMA HexInitHolds == ASSUME HexInit PROVE HexInv
<1>1. hex \in Seq(AnyChar) /\ octets \in Seq(Byte)
  <2>1. CASE hex \in BoundedSeq(AnyChar, MaxHexText) /\ octets = <<>>
    BY <2>1, HexTextAssumption DEF BoundedSeq, SeqOf
  <2>2. CASE hex = <<>> /\ octets \in BoundedSeq(Byte, MaxHexText \div 2)
    <3>1. MaxHexText \div 2 \in Nat
      BY HexTextAssumption
    <3> QED
      BY <2>2, <3>1 DEF BoundedSeq, SeqOf
  <2> QED
    BY <2>1, <2>2 DEF HexInit
<1>2. printed = <<>> /\ got = 0 /\ at = 0 /\ type \in DOMAIN RequiredLen
  BY DEF HexInit
<1>3. \/ stage = "decoding" /\ octets = <<>>
      \/ stage = "decoded" /\ hex = <<>>
  BY DEF HexInit
<1>4. HexTextTypeOK
  BY <1>1, <1>2, <1>3 DEF HexTextTypeOK
<1> QED
  BY <1>2, <1>3, <1>4 DEF HexInv, Spells

\* What a refusal leaves behind.
LEMMA RefusalKeepsHexInv ==
    ASSUME HexInv, NEW length \in Nat, RefuseHex(length),
           printed = <<>>,
           \/ Len(hex) % 2 = 1
           \/ \E i \in DOMAIN hex : hex[i] \notin HexChar
           \/ /\ length # RequiredLen[type]
              /\ hex # <<>> => Len(hex) # 2 * RequiredLen[type]
    PROVE  HexInv'
  BY DEF HexInv, HexTextTypeOK, RefuseHex, Spells

LEMMA HexNextKeeps ==
    ASSUME HexInv, [HexNext]_(hexVars)
    PROVE  HexInv'
<1> DEFINE Required == RequiredLen[type]
<1>1. /\ type \in DOMAIN RequiredLen /\ hex \in Seq(AnyChar)
      /\ octets \in Seq(Byte) /\ printed \in Seq(HexChar)
      /\ at \in 0..Len(hex) /\ Len(hex) \in Nat /\ Len(octets) \in Nat
  BY DEF HexInv, HexTextTypeOK
<1>2. Required \in Nat \ {0}
  BY <1>1, HexTextAssumption DEF RequiredLen, OrchardReceiverLen
<1>3. Len(hex) \div 2 \in Nat
  BY <1>1
<1>4. \* Printed text is well formed.
      stage \in {"decoding", "decoded", "accepted"} /\ printed # <<>> =>
        /\ Len(hex) % 2 = 0
        /\ \A i \in DOMAIN hex : hex[i] \in HexChar
        /\ Len(hex) = 2 * Required
  <2> SUFFICES ASSUME stage \in {"decoding", "decoded", "accepted"}, printed # <<>>
               PROVE  /\ Len(hex) % 2 = 0
                      /\ \A i \in DOMAIN hex : hex[i] \in HexChar
                      /\ Len(hex) = 2 * Required
    OBVIOUS
  <2>1. hex = printed /\ Len(hex) = 2 * Required
    BY DEF HexInv
  <2> QED
    BY <1>1, <1>2, <2>1
<1>5. CASE OddLength
  <2>1. Len(hex) % 2 = 1 /\ stage = "decoding" /\ RefuseHex(Len(hex) \div 2)
    BY <1>1, <1>5 DEF OddLength, Paired
  <2>2. printed = <<>>
    BY <1>4, <2>1
  <2> QED
    BY <1>3, <2>1, <2>2, RefusalKeepsHexInv
<1>6. CASE NotHex
  <2>1. stage = "decoding" /\ RefuseHex(Len(hex) \div 2)
    BY <1>6 DEF NotHex
  <2>2. at + 1 \in DOMAIN hex /\ at + 2 \in DOMAIN hex
    BY <1>1, <1>6 DEF NotHex, MorePairs
  <2>3. \E i \in DOMAIN hex : hex[i] \notin HexChar
    BY <1>6, <2>2 DEF NotHex, PairIsHex
  <2>4. printed = <<>>
    BY <1>4, <2>1, <2>3
  <2> QED
    BY <1>3, <2>1, <2>3, <2>4, RefusalKeepsHexInv
<1>7. CASE ReadPair
  <2> DEFINE h == Nibble(hex[at + 1])
             l == Nibble(hex[at + 2])
             n == Len(octets)
  <2>1. /\ stage = "decoding" /\ at + 1 < Len(hex)
        /\ hex[at + 1] \in HexChar /\ hex[at + 2] \in HexChar
        /\ octets' = Append(octets, h * Base + l)
        /\ at' = at + 2
        /\ UNCHANGED <<type, hex, stage, got, printed>>
    BY <1>7 DEF ReadPair, MorePairs, PairIsHex
  <2>2. at = 2 * n /\ Spells(octets, hex)
    BY <2>1 DEF HexInv
  <2>3. h * Base + l \in Byte
    BY <2>1, HexDigits, PairIsByte
  <2> HIDE DEF h, l
  <2>4. /\ octets' \in Seq(Byte) /\ Len(octets') = n + 1 /\ n \in Nat
        /\ octets'[n + 1] = h * Base + l
        /\ \A i \in 1..n : octets'[i] = octets[i]
    BY <1>1, <2>1, <2>3
  <2>5. at' \in 0..Len(hex) /\ at' = 2 * Len(octets')
    BY <1>1, <2>1, <2>2, <2>4
  <2>6. Spells(octets', hex)
    <3> SUFFICES ASSUME NEW i \in 1 .. n + 1
                 PROVE  /\ {hex[2 * i - 1], hex[2 * i]} \subseteq HexChar
                        /\ octets'[i] = Nibble(hex[2 * i - 1]) * Base
                                         + Nibble(hex[2 * i])
      BY <2>4 DEF Spells
    <3>1. CASE i = n + 1
      <4>1. 2 * i - 1 = at + 1 /\ 2 * i = at + 2
        BY <2>2, <2>4, <3>1
      <4> QED
        BY <2>1, <2>4, <3>1, <4>1 DEF h, l
    <3>2. CASE i # n + 1
      <4>1. i \in 1..n
        BY <2>4, <3>2
      <4> QED
        BY <2>2, <2>4, <4>1 DEF Spells
    <3> QED
      BY <3>1, <3>2
  <2>7. HexTextTypeOK'
    BY <2>1, <2>4, <2>5 DEF HexInv, HexTextTypeOK
  <2>8. printed' # <<>> => Len(printed') = 2 * Required /\ hex' = printed'
    BY <2>1 DEF HexInv
  <2> QED
    BY <2>1, <2>5, <2>6, <2>7, <2>8 DEF HexInv
<1>8. CASE AllRead
  <2>1. /\ stage = "decoding" /\ Len(hex) % 2 = 0 /\ ~ (at + 1 < Len(hex))
        /\ stage' = "decoded" /\ UNCHANGED <<type, hex, at, octets, got, printed>>
    BY <1>8 DEF AllRead, Paired, MorePairs
  <2>2. at = 2 * Len(octets) /\ Spells(octets, hex)
    BY <2>1 DEF HexInv
  <2>3. Len(hex) = 2 * Len(octets)
    <3> DEFINE n == Len(hex)
               m == Len(octets)
    <3>1. n \in Nat /\ m \in Nat /\ n % 2 = 0 /\ 2 * m <= n /\ ~ (2 * m + 1 < n)
      BY <1>1, <2>1, <2>2
    <3> HIDE DEF n, m
    <3>2. n = 2 * (n \div 2) /\ n \div 2 \in Nat
      BY <3>1
    <3>3. n = 2 * m
      BY <3>1, <3>2
    <3> QED
      BY <3>3 DEF n, m
  <2>4. HexTextTypeOK'
    BY <2>1 DEF HexInv, HexTextTypeOK
  <2>5. printed # <<>> => Len(printed) = 2 * Required /\ hex = printed
    BY <2>1 DEF HexInv
  <2> QED
    BY <2>1, <2>2, <2>3, <2>4, <2>5 DEF HexInv, Spells
<1>9. CASE FromSlice
  <2>1. stage = "decoded"
    BY <1>9 DEF FromSlice
  <2>2. hex # <<>> => Len(hex) = 2 * Len(octets) /\ Spells(octets, hex)
    BY <2>1 DEF HexInv
  <2>3. CASE Len(octets) = Required
    <3>1. stage' = "accepted" /\ UNCHANGED <<type, hex, at, octets, got, printed>>
      BY <1>9, <2>3 DEF FromSlice
    <3>2. HexTextTypeOK'
      BY <3>1 DEF HexInv, HexTextTypeOK
    <3>3. printed # <<>> => Len(printed) = 2 * Required /\ hex = printed
      BY <2>1 DEF HexInv
    <3> QED
      BY <2>2, <2>3, <3>1, <3>2, <3>3 DEF HexInv, Spells
  <2>4. CASE Len(octets) # Required
    <3>1. RefuseHex(Len(octets))
      BY <1>9, <2>4 DEF FromSlice
    <3>2. hex # <<>> => Len(hex) # 2 * Required
      BY <1>1, <1>2, <2>2, <2>4
    <3>3. printed = <<>>
      <4>1. printed # <<>> => Len(hex) = 2 * Required /\ hex # <<>>
        BY <1>2, <1>4, <2>1
      <4> QED
        BY <3>2, <4>1
    <3> QED
      BY <1>1, <2>4, <3>1, <3>2, <3>3, RefusalKeepsHexInv
  <2> QED
    BY <2>3, <2>4
<1>10. CASE ToHex
  <2>1. /\ stage = "accepted" /\ printed' = EncodeHex(octets) /\ stage' = "printed"
        /\ UNCHANGED <<type, hex, at, octets, got>>
    BY <1>10 DEF ToHex
  <2>2. /\ Len(octets) = Required
        /\ hex # <<>> => Len(hex) = 2 * Len(octets) /\ Spells(octets, hex)
    BY <2>1 DEF HexInv
  <2>3. printed' \in Seq(HexChar) /\ Len(printed') = 2 * Required
    BY <1>1, <2>1, <2>2, Encoded
  <2>4. HexTextTypeOK'
    BY <2>1, <2>3 DEF HexInv, HexTextTypeOK
  <2>5. printed' = EncodeHex(octets')
    BY <2>1
  <2> QED
    BY <2>1, <2>2, <2>3, <2>4, <2>5 DEF HexInv, Spells
<1>11. CASE ReadBack
  <2>1. /\ stage = "printed" /\ hex' = printed /\ at' = 0 /\ octets' = <<>>
        /\ stage' = "decoding" /\ UNCHANGED <<type, got, printed>>
    BY <1>11 DEF ReadBack
  <2>2. HexChar \subseteq AnyChar
    BY DEF AnyChar
  <2>3. hex' \in Seq(AnyChar) /\ Len(hex') \in Nat
    BY <1>1, <2>1, <2>2
  <2>4. HexTextTypeOK'
    BY <2>1, <2>3 DEF HexInv, HexTextTypeOK
  <2>5. printed # <<>> => Len(printed) = 2 * Required
    BY DEF HexInv
  <2> QED
    BY <2>1, <2>4, <2>5 DEF HexInv, Spells
<1>12. CASE UNCHANGED hexVars
  BY <1>12 DEF HexInv, HexTextTypeOK, hexVars, Spells
<1> QED
  BY <1>5, <1>6, <1>7, <1>8, <1>9, <1>10, <1>11, <1>12 DEF HexNext

LEMMA HexInvariant ==
    HexSpec => []HexInv
<1>1. HexInit => HexInv
  BY HexInitHolds
<1>2. HexInv /\ [HexNext]_(hexVars) => HexInv'
  BY HexNextKeeps
<1> QED
  BY <1>1, <1>2, PTL DEF HexSpec

\* A text that is spelled out in full is well formed.
LEMMA SpelledIsHex ==
    ASSUME NEW b, NEW t \in Seq(AnyChar), Len(b) \in Nat, Len(t) = 2 * Len(b), Spells(b, t)
    PROVE  \A j \in DOMAIN t : t[j] \in HexChar
<1> SUFFICES ASSUME NEW j \in DOMAIN t
             PROVE  t[j] \in HexChar
  OBVIOUS
<1> DEFINE i == (j + 1) \div 2
           n == Len(b)
<1>1. j \in 1 .. 2 * n /\ n \in Nat
  OBVIOUS
<1>2. i \in 1..n /\ (j = 2 * i - 1 \/ j = 2 * i)
  BY <1>1
<1> HIDE DEF i
<1> QED
  BY <1>2 DEF Spells

LEMMA HexVerdicts ==
    ASSUME HexInv
    PROVE  HexVerdictIsExact
<1> DEFINE Required == RequiredLen[type]
           wellFormed == /\ Len(hex) = 2 * Required
                         /\ \A i \in DOMAIN hex : hex[i] \in HexChar
<1>1. /\ hex \in Seq(AnyChar) /\ Len(octets) \in Nat /\ Len(hex) \in Nat
      /\ type \in DOMAIN RequiredLen
  BY DEF HexInv, HexTextTypeOK
<1>2. Required \in Nat
  BY <1>1, HexTextAssumption DEF RequiredLen, OrchardReceiverLen
<1>3. ASSUME stage \in {"accepted", "printed"}, hex # <<>>
      PROVE  wellFormed /\ ByteNumber(octets) = TextNumber(hex)
  <2>1. Len(hex) = 2 * Len(octets) /\ Spells(octets, hex) /\ Len(octets) = Required
    BY <1>3 DEF HexInv
  <2> QED
    BY <1>1, <2>1, SpelledIsHex, SpelledNumber
<1>4. stage \in {"accepted", "printed"} => Len(octets) = Required
  BY DEF HexInv
<1>5. ASSUME stage = "refused", hex # <<>>
      PROVE  ~wellFormed
  <2>1. \/ Len(hex) % 2 = 1
        \/ \E i \in DOMAIN hex : hex[i] \notin HexChar
        \/ Len(hex) # 2 * Required
    BY <1>5 DEF HexInv
  <2>2. (2 * Required) % 2 # 1
    BY <1>2
  <2> QED
    BY <2>1, <2>2
<1>6. stage = "refused" /\ got = Required =>
        Len(hex) % 2 = 1 \/ \E i \in DOMAIN hex : hex[i] \notin HexChar
  BY DEF HexInv
<1> QED
  BY <1>3, <1>4, <1>5, <1>6 DEF HexVerdictIsExact

\* A part of the bytes is spelled by the same part of the text.
LEMMA PartsSpell ==
    ASSUME NEW b \in Seq(Byte), NEW t \in Seq(AnyChar),
           Len(t) = 2 * Len(b), Spells(b, t),
           NEW m \in Nat, NEW n \in Nat, m <= n, n <= Len(b)
    PROVE  LET part == SubSeq(b, m + 1, n)
               same == SubSeq(t, 2 * m + 1, 2 * n)
           IN  /\ Len(part) \in Nat /\ Len(same) = 2 * Len(part)
               /\ Spells(part, same)
<1> DEFINE part == SubSeq(b, m + 1, n)
           same == SubSeq(t, 2 * m + 1, 2 * n)
<1>1. /\ Len(part) = n - m /\ n - m \in Nat
      /\ \A i \in 1 .. n - m : part[i] = b[m + i]
  OBVIOUS
<1>2. /\ Len(same) = 2 * n - 2 * m
      /\ \A j \in 1 .. 2 * n - 2 * m : same[j] = t[2 * m + j]
  OBVIOUS
<1> HIDE DEF part, same
<1>3. ASSUME NEW i \in 1 .. n - m
      PROVE  /\ {same[2 * i - 1], same[2 * i]} \subseteq HexChar
             /\ part[i] = Nibble(same[2 * i - 1]) * Base + Nibble(same[2 * i])
  <2>1. /\ m + i \in 1..Len(b)
        /\ 2 * i - 1 \in 1 .. 2 * n - 2 * m /\ 2 * i \in 1 .. 2 * n - 2 * m
        /\ 2 * m + (2 * i - 1) = 2 * (m + i) - 1 /\ 2 * m + 2 * i = 2 * (m + i)
    OBVIOUS
  <2>2. /\ part[i] = b[m + i]
        /\ same[2 * i - 1] = t[2 * (m + i) - 1] /\ same[2 * i] = t[2 * (m + i)]
    BY <1>1, <1>2, <2>1
  <2> QED
    BY <2>1, <2>2 DEF Spells
<1>4. Len(same) = 2 * Len(part)
  BY <1>1, <1>2
<1>5. Spells(part, same)
  BY <1>1, <1>3 DEF Spells
<1> QED
  BY <1>1, <1>4, <1>5 DEF part, same

LEMMA ReceiverSplits ==
    ASSUME HexInv
    PROVE  ReceiverSplitsAsText
<1> SUFFICES ASSUME stage \in {"accepted", "printed"}, type = "Receiver", hex # <<>>
             PROVE  /\ ByteNumber(Diversifier(octets))
                         = TextNumber(SubSeq(hex, 1, 2 * DiversifierLen))
                    /\ ByteNumber(TransmissionKey(octets))
                         = TextNumber(SubSeq(hex, 2 * DiversifierLen + 1, Len(hex)))
  BY DEF ReceiverSplitsAsText
<1> DEFINE d == DiversifierLen
           n == Len(octets)
<1>1. /\ hex \in Seq(AnyChar) /\ octets \in Seq(Byte)
      /\ Len(hex) = 2 * n /\ Spells(octets, hex)
  BY DEF HexInv, HexTextTypeOK
<1>2. n = d + TransmissionKeyLen
  BY DEF HexInv, RequiredLen, OrchardReceiverLen
<1>3. d \in Nat /\ n \in Nat /\ d <= n
  BY <1>2, HexTextAssumption
<1>4. ByteNumber(SubSeq(octets, 1, d)) = TextNumber(SubSeq(hex, 1, 2 * d))
  <2> DEFINE m == 0
             part == SubSeq(octets, m + 1, d)
             same == SubSeq(hex, 2 * m + 1, 2 * d)
  <2>1. m \in Nat /\ m <= d
    BY <1>3
  <2>2. part = SubSeq(octets, 1, d) /\ same = SubSeq(hex, 1, 2 * d)
    OBVIOUS
  <2> HIDE DEF m
  <2>3. Len(part) \in Nat /\ Len(same) = 2 * Len(part) /\ Spells(part, same)
    BY <1>1, <1>3, <2>1, PartsSpell
  <2> HIDE DEF part, same
  <2> QED
    BY <2>2, <2>3, SpelledNumber
<1>5. ByteNumber(SubSeq(octets, d + 1, n)) = TextNumber(SubSeq(hex, 2 * d + 1, 2 * n))
  <2> DEFINE part == SubSeq(octets, d + 1, n)
             same == SubSeq(hex, 2 * d + 1, 2 * n)
  <2>1. Len(part) \in Nat /\ Len(same) = 2 * Len(part) /\ Spells(part, same)
    BY <1>1, <1>3, PartsSpell
  <2> HIDE DEF part, same
  <2>2. ByteNumber(part) = TextNumber(same)
    BY <2>1, SpelledNumber
  <2> QED
    BY <2>2 DEF part, same
<1> QED
  BY <1>1, <1>4, <1>5 DEF Diversifier, TransmissionKey

LEMMA PrintedFolds ==
    ASSUME HexInv
    PROVE  PrintedIsFoldedText
<1>1. ASSUME stage = "printed", hex # <<>>
      PROVE  printed = InLowerCase(hex)
  <2> DEFINE n == Len(octets)
             t == InLowerCase(hex)
  <2>1. /\ hex \in Seq(AnyChar) /\ octets \in Seq(Byte) /\ n \in Nat
        /\ Len(hex) = 2 * n /\ Spells(octets, hex)
        /\ printed = EncodeHex(octets)
    BY <1>1 DEF HexInv, HexTextTypeOK
  <2>2. /\ printed \in Seq(HexChar) /\ Len(printed) = 2 * n
        /\ \A i \in 1..n :
              /\ printed[2 * i - 1] = Lower(octets[i] \div Base)
              /\ printed[2 * i] = Lower(octets[i] % Base)
    BY <2>1, Encoded
  <2>3. t = [j \in 1 .. 2 * n |-> Lower(hex[j].digit)]
    BY <2>1 DEF InLowerCase
  <2>4. ASSUME NEW j \in 1 .. 2 * n
        PROVE  printed[j] = Lower(hex[j].digit)
    <3> DEFINE i == (j + 1) \div 2
               h == Nibble(hex[2 * i - 1])
               l == Nibble(hex[2 * i])
    <3>1. i \in 1..n /\ (j = 2 * i - 1 \/ j = 2 * i)
      BY <2>1
    <3> HIDE DEF i
    <3>2. /\ hex[2 * i - 1] \in HexChar /\ hex[2 * i] \in HexChar
          /\ octets[i] = h * Base + l
      BY <2>1, <3>1 DEF Spells
    <3>3. /\ h \in 0 .. Base - 1 /\ h = hex[2 * i - 1].digit
          /\ l \in 0 .. Base - 1 /\ l = hex[2 * i].digit
      BY <3>2, HexDigits
    <3> HIDE DEF h, l
    <3>4. (h * Base + l) \div Base = h /\ (h * Base + l) % Base = l
      BY <3>3, PairIsByte
    <3>5. octets[i] \div Base = h /\ octets[i] % Base = l
      BY <3>2, <3>4
    <3> QED
      BY <2>2, <3>1, <3>3, <3>5
  <2> HIDE DEF t
  <2>5. printed = [j \in 1 .. 2 * n |-> printed[j]]
    BY <2>1, <2>2
  <2> QED
    BY <2>3, <2>4, <2>5 DEF t
<1>2. printed # <<>> => stage # "refused"
  BY DEF HexInv
<1> QED
  BY <1>1, <1>2 DEF PrintedIsFoldedText

\* from_hex accepts exactly the texts of two digits per byte, as the bytes they
\* spell, and a receiver consists of the parts its text consists of
\* (bytes.rs:55-60, 110-115, 124-135, 146-158).
THEOREM HexTextHolds ==
    HexSpec => []HexTextInv
<1>1. HexInv => HexTextInv
  BY HexVerdicts, ReceiverSplits DEF HexTextInv, HexInv
<1> QED
  BY <1>1, HexInvariant, PTL

\* to_hex prints the text in lower case, and from_hex takes it back
\* (bytes.rs:70-72, 169-177).
THEOREM HexRoundTrip ==
    HexSpec => []PrintedIsFoldedText
<1>1. HexInv => PrintedIsFoldedText
  BY PrintedFolds
<1> QED
  BY <1>1, HexInvariant, PTL

-----------------------------------------------------------------------------
(* FieldText: limbs.                                                       *)

LEMMA Bases ==
    /\ Radix \in Nat \ {0, 1} /\ LimbBase \in Nat \ {0, 1} /\ Radix <= LimbBase
    /\ LimbCount \in Nat \ {0}
  BY FieldTextAssumption

LEMMA Reversed ==
    ASSUME NEW x \in Limbs
    PROVE  /\ Len(x) = LimbCount /\ Digits(x)
           /\ Reverse(x) \in Limbs
           /\ \A i \in 1..LimbCount : Reverse(x)[i] = x[LimbCount + 1 - i]
           /\ Reverse(Reverse(x)) = x
<1> DEFINE n == LimbCount
           y == [i \in 1..n |-> x[(n - i) + 1]]
<1>1. n \in Nat /\ \A i \in 1..n : x[i] \in 0 .. LimbBase - 1
  BY Bases DEF Limbs
<1>2. Len(x) = n /\ x = [i \in 1..n |-> x[i]]
  BY <1>1 DEF Limbs
<1>3. y \in Limbs /\ Len(y) = n
  BY <1>1 DEF Limbs
<1>4. Reverse(x) = y
  BY <1>2 DEF Reverse
<1>5. \A i \in 1..n : /\ y[(n - i) + 1] = x[i]
                      /\ y[i] = x[n + 1 - i]
  BY <1>1
<1> HIDE DEF y
<1>6. Reverse(y) = [i \in 1..n |-> y[(n - i) + 1]]
  BY <1>3 DEF Reverse
<1>7. Reverse(y) = x
  BY <1>2, <1>5, <1>6
<1>8. Digits(x)
  BY <1>1, <1>2, Bases DEF Digits
<1> QED
  BY <1>2, <1>3, <1>4, <1>5, <1>7, <1>8

\* The number that little-endian limbs hold, from the most significant on.
Held(x) == Number(LimbBase, Reverse(x))
Top(x) == Values(0, LimbBase, Reverse(x))

LEMMA HeldClimbs ==
    ASSUME NEW x \in Limbs
    PROVE  /\ Top(x)[0] = 0 /\ Top(x)[LimbCount] = Held(x) /\ Held(x) \in Nat
           /\ \A k \in 0..LimbCount : Top(x)[k] \in Nat
           /\ \A k \in 1..LimbCount :
                 Top(x)[k] = Top(x)[k - 1] * LimbBase + x[LimbCount + 1 - k]
<1> DEFINE s == Reverse(x)
           n == LimbCount
<1>1. /\ s \in Limbs /\ n \in Nat /\ Len(s) = n /\ Digits(s) /\ 0 \in Nat
      /\ LimbBase \in Nat
      /\ \A i \in 1..n : s[i] = x[n + 1 - i]
  BY Reversed, Bases
<1> HIDE DEF s
<1>2. /\ Reads(Values(0, LimbBase, s), 0, LimbBase, s, Len(s))
      /\ \A i \in 0..Len(s) : Values(0, LimbBase, s)[i] \in Nat
  BY <1>1, ValuesClimb
<1>3. n \in 0..n
  BY <1>1
<1>4. Values(0, LimbBase, s) = Top(x) /\ Held(x) = Values(0, LimbBase, s)[n]
  BY <1>1 DEF Top, Held, Number, NumberFrom, s
<1> QED
  BY <1>1, <1>2, <1>3, <1>4 DEF Reads

\* Limbs hold less than the power the limb count stands for.
LEMMA HeldFits ==
    ASSUME NEW x \in Limbs
    PROVE  Held(x) < Power(LimbBase, LimbCount)
<1> DEFINE n == LimbCount
           v == Top(x)
           S == {k \in Nat : k <= n => v[k] < Power(LimbBase, k)}
<1>1. /\ n \in Nat /\ LimbBase \in Nat \ {0} /\ v[0] = 0 /\ v[n] = Held(x)
      /\ \A k \in 0..n : v[k] \in Nat
      /\ \A k \in 1..n : v[k] = v[k - 1] * LimbBase + x[n + 1 - k]
      /\ \A k \in 1..n : x[n + 1 - k] \in 0 .. LimbBase - 1
  <2>1. \A k \in 1..n : n + 1 - k \in 1..n
    BY Bases
  <2>2. \A k \in 1..n : x[n + 1 - k] \in 0 .. LimbBase - 1
    BY <2>1 DEF Limbs
  <2> QED
    BY <2>2, HeldClimbs, Bases
<1> HIDE DEF v
<1>2. 0 \in S
  BY <1>1, PowersClimb
<1>3. ASSUME NEW k \in 1..n, k - 1 \in S
      PROVE  k \in S
  <2> DEFINE m == v[k - 1]
             p == Power(LimbBase, k - 1)
             d == x[n + 1 - k]
  <2>1. k - 1 \in Nat /\ (k - 1) + 1 = k /\ k - 1 \in 0..n
    BY <1>1
  <2>2. p \in Nat /\ Power(LimbBase, k) = p * LimbBase
    BY <1>1, <2>1, PowersClimb
  <2>3. m \in Nat /\ m < p /\ d \in 0 .. LimbBase - 1 /\ v[k] = m * LimbBase + d
    BY <1>1, <1>3, <2>1
  <2> HIDE DEF m, p, d
  <2>4. m * LimbBase + LimbBase <= p * LimbBase
    BY <1>1, <2>2, <2>3, Multiples
  <2>5. m * LimbBase \in Nat /\ p * LimbBase \in Nat
    BY <1>1, <2>2, <2>3, Products
  <2>6. v[k] < Power(LimbBase, k)
    BY <1>1, <2>2, <2>3, <2>4, <2>5
  <2> QED
    BY <2>6
<1>4. \A k \in 0..n : k \in S
  <2> HIDE DEF S
  <2> QED
    BY <1>1, <1>2, <1>3, Climb
<1>5. n \in 0..n
  BY <1>1
<1>6. v[n] < Power(LimbBase, n)
  BY <1>4, <1>5
<1> QED
  BY <1>1, <1>6

\* Comparing limbs from the most significant one compares the numbers.
LEMMA FirstDifferenceDecides ==
    ASSUME NEW a \in Limbs, NEW b \in Limbs, NEW i \in 1..LimbCount,
           a[i] < b[i], \A j \in 1 .. i - 1 : a[j] = b[j]
    PROVE  Number(LimbBase, a) < Number(LimbBase, b)
<1> DEFINE n == LimbCount
           u == Values(0, LimbBase, a)
           v == Values(0, LimbBase, b)
           S == {k \in Nat : i + k <= n => u[i + k] < v[i + k]}
<1>1. /\ n \in Nat /\ LimbBase \in Nat \ {0} /\ 0 \in Nat
      /\ Len(a) = n /\ Len(b) = n /\ Digits(a) /\ Digits(b)
      /\ \A k \in 1..n : a[k] \in 0 .. LimbBase - 1 /\ b[k] \in 0 .. LimbBase - 1
  BY Reversed, Bases DEF Limbs
<1>2. /\ Reads(u, 0, LimbBase, a, n) /\ Reads(v, 0, LimbBase, b, n)
      /\ \A k \in 0..n : u[k] \in Nat /\ v[k] \in Nat
  BY <1>1, ValuesClimb
<1>3. u[n] = Number(LimbBase, a) /\ v[n] = Number(LimbBase, b)
  BY <1>1 DEF Number, NumberFrom
<1> HIDE DEF u, v
<1>4. u[i - 1] = v[i - 1]
  <2> DEFINE m == i - 1
  <2>1. m \in Nat /\ m \in 0..m /\ \A k \in 1..m : k \in 1..n /\ a[k] = b[k]
    BY <1>1
  <2> HIDE DEF m
  <2>2. Reads(u, 0, LimbBase, b, m) /\ Reads(v, 0, LimbBase, b, m)
    BY <1>2, <2>1 DEF Reads
  <2>3. u[m] = v[m]
    BY <2>1, <2>2, ReadsAgree
  <2> QED
    BY <2>3 DEF m
<1>5. 0 \in S
  <2>1. u[i] = u[i - 1] * LimbBase + a[i] /\ v[i] = v[i - 1] * LimbBase + b[i]
    BY <1>2 DEF Reads
  <2>2. i - 1 \in 0..n /\ i \in Nat
    BY <1>1
  <2>3. u[i - 1] * LimbBase \in Nat
    BY <1>1, <1>2, <2>2, Products
  <2>4. u[i] < v[i]
    BY <1>1, <1>4, <2>1, <2>3
  <2> QED
    BY <2>2, <2>4
<1>6. ASSUME NEW k \in 1 .. n - i, k - 1 \in S
      PROVE  k \in S
  <2> DEFINE m == i + k - 1
             c == u[m]
             d == v[m]
  <2>1. m \in 0..n /\ m + 1 \in 1..n /\ (m + 1) - 1 = m /\ i + (k - 1) = m /\ m + 1 = i + k
    BY <1>1
  <2>2. c < d /\ c \in Nat /\ d \in Nat
    BY <1>2, <1>6, <2>1
  <2>3. u[m + 1] = c * LimbBase + a[m + 1] /\ v[m + 1] = d * LimbBase + b[m + 1]
    BY <1>2, <2>1 DEF Reads
  <2> HIDE DEF m, c, d
  <2>4. c * LimbBase + LimbBase <= d * LimbBase
    BY <1>1, <2>2, Multiples
  <2>5. c * LimbBase \in Nat /\ d * LimbBase \in Nat
    BY <1>1, <2>2, Products
  <2>6. u[m + 1] < v[m + 1]
    BY <1>1, <2>1, <2>3, <2>4, <2>5
  <2> QED
    BY <2>1, <2>6
<1>7. n - i \in Nat /\ n - i \in 0 .. n - i /\ i + (n - i) = n
  BY <1>1
<1>8. \A k \in 0 .. n - i : k \in S
  <2> HIDE DEF S
  <2> QED
    BY <1>5, <1>6, <1>7, Climb
<1>9. u[n] < v[n]
  BY <1>7, <1>8
<1> QED
  BY <1>3, <1>9

\* Different limbs have a first difference.
LEMMA FirstDifference ==
    ASSUME NEW a \in Limbs, NEW b \in Limbs, a # b
    PROVE  \E i \in 1..LimbCount : a[i] # b[i] /\ \A j \in 1 .. i - 1 : a[j] = b[j]
<1> DEFINE T == {i \in 1..LimbCount : a[i] # b[i]}
<1>1. T # {} /\ T \subseteq Nat
  <2>1. a = [i \in 1..LimbCount |-> a[i]] /\ b = [i \in 1..LimbCount |-> b[i]]
    BY DEF Limbs
  <2> QED
    BY <2>1, Bases
<1>2. PICK i \in T : \A j \in T : i <= j
  <2> HIDE DEF T
  <2> QED
    BY <1>1, LeastNumber
<1>3. \A j \in 1 .. i - 1 : j \in 1..LimbCount /\ ~ (i <= j)
  BY Bases
<1> QED
  BY <1>2, <1>3

LEMMA ZeroHoldsNothing ==
    /\ Zero \in Limbs /\ Held(Zero) = 0
    /\ \A x \in Limbs : Held(x) = 0 => x = Zero
<1>1. Zero \in Limbs
  BY Bases DEF Zero, Limbs
<1> DEFINE n == LimbCount
           z == Reverse(Zero)
           v == [i \in 0..n |-> 0]
<1>2. /\ z \in Limbs /\ Len(z) = n /\ Digits(z) /\ n \in Nat /\ 0 \in Nat /\ LimbBase \in Nat
      /\ \A i \in 1..n : z[i] = 0
  <2>1. \A i \in 1..n : n + 1 - i \in 1..n
    BY Bases
  <2> QED
    BY <1>1, <2>1, Reversed, Bases DEF Zero
<1> HIDE DEF z
<1>3. v[0] = 0 /\ \A i \in 1..n : v[i] = v[i - 1] * LimbBase + z[i]
  BY <1>2
<1>4. v[n] = 0
  BY <1>2
<1>5. Number(LimbBase, z) = 0
  <2> HIDE DEF v
  <2>1. Reads(v, 0, LimbBase, z, Len(z))
    BY <1>2, <1>3 DEF Reads
  <2>2. v[Len(z)] = NumberFrom(0, LimbBase, z)
    BY <1>2, <2>1, NumberIs
  <2> QED
    BY <1>2, <1>4, <2>2 DEF Number
<1>6. ASSUME NEW x \in Limbs, Held(x) = 0, x # Zero
      PROVE  FALSE
  <2> DEFINE y == Reverse(x)
  <2>1. y \in Limbs /\ Reverse(y) = x /\ Reverse(z) = Zero
    BY <1>1, Reversed DEF z
  <2>2. z # y
    BY <1>6, <2>1
  <2> HIDE DEF y
  <2>3. PICK i \in 1..n : z[i] # y[i] /\ \A j \in 1 .. i - 1 : z[j] = y[j]
    BY <1>2, <2>1, <2>2, FirstDifference
  <2>4. z[i] < y[i]
    BY <1>2, <2>1, <2>3, Bases DEF Limbs
  <2>5. Number(LimbBase, z) < Number(LimbBase, y)
    BY <1>2, <2>1, <2>3, <2>4, FirstDifferenceDecides
  <2> QED
    BY <1>5, <1>6, <2>5 DEF Held, y
<1> QED
  BY <1>1, <1>5, <1>6 DEF Held, z

-----------------------------------------------------------------------------
(* FieldText: the arithmetic of the two loops.                             *)

AreCarries(f, x, multiplier, addend) ==
    f = [k \in 0..LimbCount |->
            IF k = 0 THEN addend ELSE (x[k] * multiplier + f[k - 1]) \div LimbBase]

\* The carry into the first limb is the addend, each other one is what the limb
\* before it leaves.
LEMMA CarriesClimb ==
    ASSUME NEW x \in Limbs, NEW multiplier \in Nat, NEW addend \in Nat
    PROVE  LET c == Carries(x, multiplier, addend)
           IN  /\ c[0] = addend
               /\ \A k \in 1..LimbCount :
                     c[k] = (x[k] * multiplier + c[k - 1]) \div LimbBase
               /\ \A k \in 0..LimbCount : c[k] \in Nat
<1> DEFINE R == Nat
           start == addend
           n == LimbCount
           round == [k \in 1..n |-> [m \in R |-> (x[k] * multiplier + m) \div LimbBase]]
<1>1. ASSUME NEW k \in 1..n, NEW m \in Nat
      PROVE  (x[k] * multiplier + m) \div LimbBase \in Nat
  <2>1. x[k] \in Nat /\ LimbBase \in Nat \ {0}
    BY Bases DEF Limbs
  <2>2. x[k] * multiplier + m \in Nat
    BY <2>1, Products
  <2> QED
    BY <2>1, <2>2, Division
<1>2. start \in R /\ RoundsStay(round, n, R)
  BY <1>1 DEF RoundsStay
<1>3. PICK f \in [0..n -> R] : Yields(f, start, round, n)
  <2>1. n \in Nat
    BY Bases
  <2> HIDE DEF R, start, round, n
  <2> QED
    BY <1>2, <2>1, Rounds
<1>4. ASSUME NEW k \in 1..n
      PROVE  f[k] = (x[k] * multiplier + f[k - 1]) \div LimbBase
  <2>1. f[k - 1] \in R
    BY Bases
  <2> QED
    BY <1>3, <2>1 DEF Yields
<1>5. AreCarries(f, x, multiplier, addend)
  BY <1>3, <1>4 DEF Yields, AreCarries
<1> DEFINE c == Carries(x, multiplier, addend)
<1>6. c = [k \in 0..n |->
              IF k = 0 THEN addend ELSE (x[k] * multiplier + c[k - 1]) \div LimbBase]
  <2>1. AreCarries(CHOOSE g : AreCarries(g, x, multiplier, addend), x, multiplier, addend)
    BY <1>5
  <2>2. AreCarries(c, x, multiplier, addend)
    BY <2>1 DEF AreCarries, Carries
  <2> QED
    BY <2>2 DEF AreCarries
<1> HIDE DEF c
<1>7. /\ c[0] = addend
      /\ \A k \in 1..n : c[k] = (x[k] * multiplier + c[k - 1]) \div LimbBase
  BY <1>6, Bases
<1> DEFINE S == {k \in Nat : k <= n => c[k] \in Nat}
<1>8. 0 \in S
  BY <1>7
<1>9. ASSUME NEW k \in 1..n, k - 1 \in S
      PROVE  k \in S
  <2>1. c[k - 1] \in Nat
    BY <1>9, Bases
  <2>2. c[k] \in Nat
    BY <1>1, <1>7, <2>1
  <2> QED
    BY <2>2
<1>10. \A k \in 0..n : k \in S
  <2>1. n \in Nat
    BY Bases
  <2> HIDE DEF S, n
  <2> QED
    BY <1>8, <1>9, <2>1, Climb
<1>11. \A k \in 0..n : c[k] \in Nat
  BY <1>10
<1> QED
  BY <1>7, <1>11 DEF c

\* mul_add_small: the product and the addend are in the limbs, up to what the
\* last carry says has left them.
LEMMA MulAddHolds ==
    ASSUME NEW x \in Limbs, NEW multiplier \in Nat, NEW addend \in Nat
    PROVE  LET y == MulAddSmall(x, multiplier, addend)
               out == Carries(x, multiplier, addend)[LimbCount]
           IN  /\ y \in Limbs /\ out \in Nat
               /\ Held(x) * multiplier + addend
                    = out * Power(LimbBase, LimbCount) + Held(y)
<1> DEFINE n == LimbCount
           c == Carries(x, multiplier, addend)
           y == MulAddSmall(x, multiplier, addend)
           out == c[n]
           u == Top(x)
           v == Top(y)
           p(k) == Power(LimbBase, k)
<1>1. n \in Nat /\ LimbBase \in Nat \ {0}
  BY Bases
<1>2. /\ c[0] = addend
      /\ \A k \in 1..n : c[k] = (x[k] * multiplier + c[k - 1]) \div LimbBase
      /\ \A k \in 0..n : c[k] \in Nat
  BY CarriesClimb
<1>3. y = [k \in 1..n |-> (x[k] * multiplier + c[k - 1]) % LimbBase]
  BY DEF MulAddSmall
<1> HIDE DEF c, y
<1>4. ASSUME NEW k \in 1..n
      PROVE  /\ x[k] \in Nat /\ y[k] \in 0 .. LimbBase - 1
             /\ x[k] * multiplier + c[k - 1] = c[k] * LimbBase + y[k]
  <2>1. x[k] \in Nat /\ c[k - 1] \in Nat
    BY <1>1, <1>2, Bases DEF Limbs
  <2>2. x[k] * multiplier + c[k - 1] \in Nat
    BY <2>1, Products
  <2>3. c[k] = (x[k] * multiplier + c[k - 1]) \div LimbBase
    BY <1>2
  <2>4. y[k] = (x[k] * multiplier + c[k - 1]) % LimbBase
    BY <1>3
  <2> QED
    BY <1>1, <2>1, <2>2, <2>3, <2>4, Division
<1>5. y \in Limbs
  BY <1>3, <1>4 DEF Limbs
<1>6. /\ u[0] = 0 /\ u[n] = Held(x) /\ \A k \in 0..n : u[k] \in Nat
      /\ \A k \in 1..n : u[k] = u[k - 1] * LimbBase + x[n + 1 - k]
  BY HeldClimbs
<1>7. /\ v[0] = 0 /\ v[n] = Held(y) /\ \A k \in 0..n : v[k] \in Nat
      /\ \A k \in 1..n : v[k] = v[k - 1] * LimbBase + y[n + 1 - k]
  BY <1>5, HeldClimbs
<1> HIDE DEF u, v
<1>8. out \in Nat
  BY <1>1, <1>2
<1> DEFINE S == {k \in Nat : k <= n =>
                   u[k] * multiplier + c[n - k] = out * p(k) + v[k]}
<1>9. 0 \in S
  <2>1. n - 0 = n /\ p(0) = 1 /\ out * 1 = out /\ 0 * multiplier = 0
    BY <1>1, <1>8, PowersClimb
  <2>2. u[0] * multiplier + c[n - 0] = out * p(0) + v[0]
    BY <1>6, <1>7, <1>8, <2>1
  <2> QED
    BY <2>2
<1>10. ASSUME NEW k \in 1..n, k - 1 \in S
       PROVE  k \in S
  <2> DEFINE j == n + 1 - k
             a == u[k - 1]
             b == v[k - 1]
             q == p(k - 1)
  <2>1. /\ j \in 1..n /\ j - 1 = n - k /\ n - (k - 1) = j
        /\ k - 1 \in 0..n /\ k - 1 \in Nat /\ (k - 1) + 1 = k /\ j \in 0..n /\ n - k \in 0..n
    BY <1>1
  <2>2. a * multiplier + c[j] = out * q + b
    BY <1>10, <2>1
  <2>3. u[k] = a * LimbBase + x[j] /\ v[k] = b * LimbBase + y[j]
    BY <1>6, <1>7
  <2>4. x[j] * multiplier + c[n - k] = c[j] * LimbBase + y[j] /\ x[j] \in Nat /\ y[j] \in Nat
    BY <1>1, <1>4, <2>1
  <2>5. p(k) = q * LimbBase /\ q \in Nat
    BY <1>1, <2>1, PowersClimb
  <2>6. a \in Nat /\ b \in Nat /\ c[j] \in Nat /\ c[n - k] \in Nat
    BY <1>2, <1>6, <1>7, <2>1
  <2>7. u[k] * multiplier + c[n - k] = out * p(k) + v[k]
    <3>1. u[k] * multiplier = (a * multiplier) * LimbBase + x[j] * multiplier
      <4>1. \A e, f, g, h \in Nat : (e * f + g) * h = (e * h) * f + g * h
        OBVIOUS
      <4> QED
        BY <1>1, <2>3, <2>4, <2>6, <4>1
    <3>2. out * p(k) = (out * q) * LimbBase
      <4>1. \A e, f, g \in Nat : e * (f * g) = (e * f) * g
        OBVIOUS
      <4> QED
        BY <1>1, <1>8, <2>5, <4>1
    <3>3. (a * multiplier + c[j]) * LimbBase = (out * q + b) * LimbBase
      BY <2>2
    <3>4. /\ a * multiplier \in Nat /\ out * q \in Nat
          /\ x[j] * multiplier \in Nat /\ c[j] * LimbBase \in Nat
      BY <1>1, <1>8, <2>4, <2>5, <2>6, Products
    <3>5. (a * multiplier) * LimbBase + c[j] * LimbBase = (out * q) * LimbBase + b * LimbBase
      <4>1. \A e, f, g \in Nat : (e + f) * g = e * g + f * g
        OBVIOUS
      <4> QED
        BY <1>1, <2>6, <3>3, <3>4, <4>1
    <3>6. (a * multiplier) * LimbBase \in Nat /\ (out * q) * LimbBase \in Nat
          /\ b * LimbBase \in Nat
      BY <1>1, <2>6, <3>4, Products
    <3>7. ((a * multiplier) * LimbBase + x[j] * multiplier) + c[n - k]
            = (out * q) * LimbBase + (b * LimbBase + y[j])
      <4> DEFINE high == (a * multiplier) * LimbBase
                 low == x[j] * multiplier
                 carried == c[j] * LimbBase
                 spilt == (out * q) * LimbBase
                 kept == b * LimbBase
                 left == c[n - k]
                 limb == y[j]
      <4>1. /\ high \in Nat /\ low \in Nat /\ carried \in Nat /\ spilt \in Nat
            /\ kept \in Nat /\ left \in Nat /\ limb \in Nat
            /\ low + left = carried + limb
            /\ high + carried = spilt + kept
        BY <2>4, <2>6, <3>4, <3>5, <3>6
      <4> HIDE DEF high, low, carried, spilt, kept, left, limb
      <4>2. (high + low) + left = spilt + (kept + limb)
        BY <4>1
      <4> QED
        BY <4>2 DEF high, low, carried, spilt, kept, left, limb
    <3> HIDE DEF a, b, q, j
    <3> QED
      BY <2>3, <3>1, <3>2, <3>7
  <2> QED
    BY <2>7
<1>11. \A k \in 0..n : k \in S
  <2> HIDE DEF S, n
  <2> QED
    BY <1>1, <1>9, <1>10, Climb
<1>12. n \in 0..n /\ n - n = 0
  BY <1>1
<1>13. u[n] * multiplier + c[0] = out * p(n) + v[n]
  BY <1>11, <1>12
<1> QED
  BY <1>2, <1>5, <1>6, <1>7, <1>8, <1>13 DEF c, y


AreRemainders(f, x, divisor) ==
    f = [k \in 0..LimbCount |->
            IF k = 0 THEN 0
            ELSE (f[k - 1] * LimbBase + x[LimbCount + 1 - k]) % divisor]

\* Every remainder is below the divisor and is made of the one before it and
\* the next limb.
LEMMA RemaindersClimb ==
    ASSUME NEW x \in Limbs, NEW divisor \in Nat \ {0}
    PROVE  LET r == Remainders(x, divisor)
           IN  /\ r[0] = 0
               /\ \A k \in 1..LimbCount :
                     r[k] = (r[k - 1] * LimbBase + x[LimbCount + 1 - k]) % divisor
               /\ \A k \in 0..LimbCount : r[k] \in 0 .. divisor - 1
<1> DEFINE R == 0 .. divisor - 1
           start == 0
           n == LimbCount
           round == [k \in 1..n |->
                       [m \in R |-> (m * LimbBase + x[n + 1 - k]) % divisor]]
<1>1. ASSUME NEW k \in 1..n, NEW m \in R
      PROVE  (m * LimbBase + x[n + 1 - k]) % divisor \in R
  <2>1. x[n + 1 - k] \in Nat /\ LimbBase \in Nat /\ m \in Nat
    <3>1. n + 1 - k \in 1..n
      BY Bases
    <3> QED
      BY <3>1, Bases DEF Limbs
  <2>2. m * LimbBase + x[n + 1 - k] \in Nat
    BY <2>1, Products
  <2> QED
    BY <2>2, Division
<1>2. start \in R /\ RoundsStay(round, n, R)
  BY <1>1 DEF RoundsStay
<1>3. PICK f \in [0..n -> R] : Yields(f, start, round, n)
  <2>1. n \in Nat
    BY Bases
  <2> HIDE DEF R, start, round, n
  <2> QED
    BY <1>2, <2>1, Rounds
<1>4. ASSUME NEW k \in 1..n
      PROVE  f[k] = (f[k - 1] * LimbBase + x[n + 1 - k]) % divisor
  <2>1. f[k - 1] \in R
    BY Bases
  <2> QED
    BY <1>3, <2>1 DEF Yields
<1>5. AreRemainders(f, x, divisor)
  BY <1>3, <1>4 DEF Yields, AreRemainders
<1> DEFINE r == Remainders(x, divisor)
<1>6. r = [k \in 0..n |->
              IF k = 0 THEN 0 ELSE (r[k - 1] * LimbBase + x[n + 1 - k]) % divisor]
  <2>1. AreRemainders(CHOOSE g : AreRemainders(g, x, divisor), x, divisor)
    BY <1>5
  <2>2. AreRemainders(r, x, divisor)
    BY <2>1 DEF AreRemainders, Remainders
  <2> QED
    BY <2>2 DEF AreRemainders
<1> HIDE DEF r
<1>7. /\ r[0] = 0
      /\ \A k \in 1..n : r[k] = (r[k - 1] * LimbBase + x[n + 1 - k]) % divisor
  BY <1>6, Bases
<1> DEFINE S == {k \in Nat : k <= n => r[k] \in R}
<1>8. 0 \in S
  BY <1>7
<1>9. ASSUME NEW k \in 1..n, k - 1 \in S
      PROVE  k \in S
  <2>1. r[k - 1] \in R
    BY <1>9, Bases
  <2>2. r[k] \in R
    BY <1>1, <1>7, <2>1
  <2> QED
    BY <2>2
<1>10. \A k \in 0..n : k \in S
  <2>1. n \in Nat
    BY Bases
  <2> HIDE DEF S, n
  <2> QED
    BY <1>8, <1>9, <2>1, Climb
<1>11. \A k \in 0..n : r[k] \in R
  BY <1>10
<1> QED
  BY <1>7, <1>11 DEF r

\* div_rem_small, for a divisor a limb can hold: limbs are divided into limbs,
\* and the last remainder is what the whole number leaves.
LEMMA DivRemHolds ==
    ASSUME NEW x \in Limbs, NEW divisor \in Nat \ {0}, divisor <= LimbBase
    PROVE  /\ Quotient(x, divisor) \in Limbs
           /\ Remainder(x, divisor) \in 0 .. divisor - 1
           /\ Held(x) = Held(Quotient(x, divisor)) * divisor + Remainder(x, divisor)
<1> DEFINE n == LimbCount
           r == Remainders(x, divisor)
           y == Quotient(x, divisor)
           u == Top(x)
           v == Top(y)
<1>1. n \in Nat /\ n \in 0..n /\ LimbBase \in Nat \ {0}
  BY Bases
<1>2. /\ r[0] = 0
      /\ \A k \in 1..n : r[k] = (r[k - 1] * LimbBase + x[n + 1 - k]) % divisor
      /\ \A k \in 0..n : r[k] \in 0 .. divisor - 1
  BY RemaindersClimb
<1>3. y = [k \in 1..n |-> (r[n - k] * LimbBase + x[k]) \div divisor]
  BY DEF Quotient
<1>4. Remainder(x, divisor) = r[n]
  BY DEF Remainder
<1> HIDE DEF r, y
<1>5. ASSUME NEW k \in 1..n
      PROVE  /\ y[n + 1 - k] \in 0 .. LimbBase - 1
             /\ r[k - 1] * LimbBase + x[n + 1 - k] = y[n + 1 - k] * divisor + r[k]
  <2> DEFINE j == n + 1 - k
             m == r[k - 1]
             q == y[j]
             e == r[k]
             d == x[j]
  <2>1. j \in 1..n /\ n - j = k - 1 /\ k - 1 \in 0..n
    BY <1>1
  <2>2. d \in 0 .. LimbBase - 1 /\ m \in 0 .. divisor - 1
    BY <1>2, <2>1 DEF Limbs
  <2>3. q = (m * LimbBase + d) \div divisor /\ e = (m * LimbBase + d) % divisor
    BY <1>2, <1>3, <2>1
  <2> HIDE DEF j, m, q, e, d
  <2>4. m * LimbBase \in Nat /\ m * LimbBase + d \in Nat
    BY <1>1, <2>2, Products
  <2>5. q \in Nat /\ e \in 0 .. divisor - 1 /\ m * LimbBase + d = q * divisor + e
    BY <2>3, <2>4, Division
  <2>6. q < LimbBase
    <3> SUFFICES ASSUME ~ (q < LimbBase)
                 PROVE  FALSE
      OBVIOUS
    <3>1. m * LimbBase + LimbBase <= divisor * LimbBase
      BY <1>1, <2>2, Multiples
    <3>2. LimbBase * divisor <= q * divisor
      <4>1. LimbBase < q \/ LimbBase = q
        BY <1>1, <2>5
      <4>2. LimbBase < q => LimbBase * divisor + divisor <= q * divisor
        BY <1>1, <2>5, Multiples
      <4>3. LimbBase * divisor \in Nat /\ q * divisor \in Nat
        BY <1>1, <2>5, Products
      <4> QED
        BY <4>1, <4>2, <4>3
    <3>3. LimbBase * divisor = divisor * LimbBase
      BY <1>1
    <3>4. q * divisor \in Nat /\ LimbBase * divisor \in Nat
      BY <1>1, <2>5, Products
    <3> QED
      BY <1>1, <2>2, <2>4, <2>5, <3>1, <3>2, <3>3, <3>4
  <2> QED
    BY <1>1, <2>5, <2>6 DEF j, m, q, e, d
<1>6. y \in Limbs
  <2>1. ASSUME NEW k \in 1..n
        PROVE  y[k] \in 0 .. LimbBase - 1
    <3>1. n + 1 - k \in 1..n /\ n + 1 - (n + 1 - k) = k
      BY <1>1
    <3> QED
      BY <1>5, <3>1
  <2> QED
    BY <1>3, <2>1 DEF Limbs
<1>7. /\ u[0] = 0 /\ u[n] = Held(x) /\ \A k \in 0..n : u[k] \in Nat
      /\ \A k \in 1..n : u[k] = u[k - 1] * LimbBase + x[n + 1 - k]
  BY HeldClimbs
<1>8. /\ v[0] = 0 /\ v[n] = Held(y) /\ \A k \in 0..n : v[k] \in Nat
      /\ \A k \in 1..n : v[k] = v[k - 1] * LimbBase + y[n + 1 - k]
  BY <1>6, HeldClimbs
<1> HIDE DEF u, v
<1> DEFINE S == {k \in Nat : k <= n => u[k] = v[k] * divisor + r[k]}
<1>9. 0 \in S
  BY <1>2, <1>7, <1>8
<1>10. ASSUME NEW k \in 1..n, k - 1 \in S
       PROVE  k \in S
  <2> DEFINE j == n + 1 - k
             a == u[k - 1]
             b == v[k - 1]
             m == r[k - 1]
             q == y[j]
             e == r[k]
             d == x[j]
  <2>1. j \in 1..n /\ k - 1 \in 0..n
    BY <1>1
  <2>2. a = b * divisor + m
    BY <1>1, <1>10, <2>1
  <2>3. u[k] = a * LimbBase + d /\ v[k] = b * LimbBase + q
    BY <1>7, <1>8
  <2>4. m * LimbBase + d = q * divisor + e
    BY <1>5
  <2>5. /\ a \in Nat /\ b \in Nat /\ m \in Nat /\ e \in Nat /\ q \in Nat /\ d \in Nat
    BY <1>2, <1>5, <1>7, <1>8, <2>1 DEF Limbs
  <2> HIDE DEF j, a, b, m, q, e, d
  <2>6. a * LimbBase = (b * LimbBase) * divisor + m * LimbBase
    <3>1. \A f, g, h, i \in Nat : (f * g + h) * i = (f * i) * g + h * i
      OBVIOUS
    <3> QED
      BY <1>1, <2>2, <2>5, <3>1
  <2>7. (b * LimbBase + q) * divisor = (b * LimbBase) * divisor + q * divisor
    <3>1. \A f, g, h \in Nat : (f + g) * h = f * h + g * h
      OBVIOUS
    <3>2. b * LimbBase \in Nat
      BY <1>1, <2>5, Products
    <3> QED
      BY <2>5, <3>1, <3>2
  <2>8. u[k] = v[k] * divisor + e
    <3> DEFINE high == (b * LimbBase) * divisor
               carried == m * LimbBase
               parted == q * divisor
    <3>1. b * LimbBase \in Nat
      BY <1>1, <2>5, Products
    <3>2. high \in Nat /\ carried \in Nat /\ parted \in Nat
      BY <1>1, <2>5, <3>1, Products
    <3> HIDE DEF high, carried, parted
    <3>3. u[k] = high + carried + d /\ carried + d = parted + e
      BY <2>3, <2>4, <2>6 DEF high, carried, parted
    <3>4. v[k] * divisor = high + parted
      BY <2>3, <2>7 DEF high, parted
    <3> QED
      BY <2>5, <3>2, <3>3, <3>4
  <2> QED
    BY <2>8 DEF e
<1>11. \A k \in 0..n : k \in S
  <2> HIDE DEF S, n
  <2> QED
    BY <1>1, <1>9, <1>10, Climb
<1>12. u[n] = v[n] * divisor + r[n]
  BY <1>1, <1>11
<1> QED
  BY <1>1, <1>2, <1>4, <1>6, <1>7, <1>8, <1>12 DEF y

LEMMA DividedTwice ==
    ASSUME NEW m \in Nat, NEW p \in Nat \ {0}, NEW b \in Nat \ {0}
    PROVE  m \div (p * b) = (m \div p) \div b
<1> DEFINE a == m \div p
           r == m % p
           c == a \div b
           d == a % b
           w == p * b
           low == d * p + r
<1>1. a \in Nat /\ r \in 0 .. p - 1 /\ m = a * p + r
  BY Division
<1> HIDE DEF a, r
<1>2. c \in Nat /\ d \in 0 .. b - 1 /\ a = c * b + d
  BY <1>1, Division
<1> HIDE DEF c, d
<1>3. d * p \in Nat /\ b * p \in Nat /\ d * p + p <= b * p /\ w = b * p
  BY <1>2, Products, Multiples
<1>4. w # 0
  <2>1. 0 * p + p <= b * p
    BY Multiples
  <2> QED
    BY <1>3, <2>1
<1>5. low \in 0 .. w - 1
  BY <1>1, <1>3
<1>6. m = c * w + low
  <2>1. \A f, g, h, i, j \in Nat : (f * g + h) * i + j = f * (i * g) + (h * i + j)
    OBVIOUS
  <2> QED
    BY <1>1, <1>2, <2>1
<1> HIDE DEF w, low
<1>7. m \div w = c
  BY <1>2, <1>3, <1>4, <1>5, <1>6, Parts
<1> QED
  BY <1>7 DEF w, c, a

\* MODULUS_BE holds the modulus.
LEMMA ModulusHeld ==
    ModulusBe \in Limbs /\ Number(LimbBase, ModulusBe) = Modulus
<1> DEFINE n == LimbCount
           p(k) == Power(LimbBase, n - k)
           v == [k \in 0..n |-> Modulus \div p(k)]
           s == ModulusBe
<1>1. n \in Nat /\ n \in 0..n /\ LimbBase \in Nat \ {0} /\ 0 \in Nat
  BY Bases
<1>2. /\ Modulus \in Nat /\ Modulus < p(0) /\ p(n) = 1
      /\ \A k \in 0..n : p(k) \in Nat \ {0}
      /\ \A k \in 1..n : p(k - 1) = p(k) * LimbBase
  <2>1. ASSUME NEW k \in 0..n
        PROVE  p(k) \in Nat \ {0}
    <3>1. n - k \in Nat
      BY <1>1
    <3> QED
      BY <1>1, <3>1, PowersClimb
  <2>2. ASSUME NEW k \in 1..n
        PROVE  p(k - 1) = p(k) * LimbBase
    <3>1. n - k \in Nat /\ n - (k - 1) = (n - k) + 1
      BY <1>1
    <3>2. Power(LimbBase, (n - k) + 1) = Power(LimbBase, n - k) * LimbBase
      BY <1>1, <3>1, PowersClimb
    <3> QED
      BY <3>1, <3>2
  <2>3. n - 0 = n /\ n - n = 0
    BY <1>1
  <2>4. p(n) = 1
    BY <1>1, <2>3, PowersClimb
  <2>5. Modulus \in Nat /\ Modulus < p(0)
    <3>1. Power(LimbBase, n) \in Nat
      BY <1>1, PowersClimb
    <3> QED
      BY <2>3, <3>1, FieldTextAssumption
  <2> QED
    BY <2>1, <2>2, <2>4, <2>5
<1>3. \A k \in 0..n : Modulus \div p(k) \in Nat
  BY <1>2, Division
<1>4. s = [k \in 1..n |-> (Modulus \div p(k)) % LimbBase]
  BY DEF ModulusBe
<1> HIDE DEF p, s
<1>5. \A k \in 1..n : s[k] = v[k] % LimbBase /\ s[k] \in 0 .. LimbBase - 1
  <2>1. ASSUME NEW k \in 1..n
        PROVE  s[k] = v[k] % LimbBase /\ s[k] \in 0 .. LimbBase - 1
    <3>1. k \in 0..n
      BY <1>1
    <3>2. v[k] = Modulus \div p(k) /\ v[k] \in Nat
      BY <1>3, <3>1
    <3>3. s[k] = (Modulus \div p(k)) % LimbBase
      BY <1>4
    <3> HIDE DEF v
    <3>4. s[k] = v[k] % LimbBase
      BY <3>2, <3>3
    <3> QED
      BY <1>1, <3>2, <3>4, Division
  <2> QED
    BY <2>1
<1>6. s \in Limbs
  BY <1>4, <1>5 DEF Limbs
<1>7. v[0] = 0
  <2> DEFINE w == p(0)
  <2>1. w \in Nat \ {0} /\ Modulus \in 0 .. w - 1 /\ 0 * w + Modulus = Modulus
    BY <1>1, <1>2
  <2> HIDE DEF w
  <2>2. (0 * w + Modulus) \div w = 0
    BY <1>1, <2>1, Parts
  <2> QED
    BY <1>1, <2>1, <2>2 DEF w
<1>8. v[n] = Modulus
  BY <1>1, <1>2
<1>9. ASSUME NEW k \in 1..n
      PROVE  v[k] = v[k - 1] * LimbBase + s[k]
  <2>1. k \in 0..n /\ k - 1 \in 0..n
    BY <1>1
  <2>2. v[k - 1] = v[k] \div LimbBase
    BY <1>1, <1>2, <2>1, DividedTwice
  <2>3. v[k] \in Nat
    BY <1>3, <2>1
  <2> QED
    BY <1>1, <1>5, <2>2, <2>3, Division
<1> HIDE DEF v
<1>10. Len(s) = n /\ Digits(s)
  BY <1>6, Reversed
<1>11. Reads(v, 0, LimbBase, s, Len(s))
  BY <1>7, <1>9, <1>10 DEF Reads
<1>12. v[Len(s)] = NumberFrom(0, LimbBase, s)
  BY <1>1, <1>10, <1>11, NumberIs
<1> QED
  BY <1>6, <1>8, <1>10, <1>12 DEF Number, s

\* Comparing arrays compares numbers: exactly the encodings of the modulus and
\* above are unreduced.
LEMMA UnreducedReachesModulus ==
    ASSUME NEW b \in Limbs
    PROVE  IsUnreduced(b) <=> Number(LimbBase, b) >= Modulus
<1> DEFINE m == ModulusBe
           number(s) == Number(LimbBase, s)
<1>1. m \in Limbs /\ number(m) = Modulus
  BY ModulusHeld
<1>2. number(b) \in Nat /\ number(m) \in Nat
  <2>1. number(Reverse(Reverse(b))) \in Nat /\ number(Reverse(Reverse(m))) \in Nat
    BY <1>1, Reversed, HeldClimbs DEF Held
  <2> QED
    BY <1>1, <2>1, Reversed
<1>3. IsUnreduced(b) <=>
        \/ b = m
        \/ \E i \in 1..LimbCount : b[i] > m[i] /\ \A j \in 1 .. i - 1 : b[j] = m[j]
  BY DEF IsUnreduced
<1>4. \A i \in 1..LimbCount : b[i] \in 0 .. LimbBase - 1 /\ m[i] \in 0 .. LimbBase - 1
  BY <1>1 DEF Limbs
<1> HIDE DEF m
<1>5. ASSUME NEW i \in 1..LimbCount, b[i] > m[i], \A j \in 1 .. i - 1 : b[j] = m[j]
      PROVE  number(m) < number(b)
  <2>1. m[i] < b[i] /\ \A j \in 1 .. i - 1 : m[j] = b[j]
    BY <1>4, <1>5, Bases
  <2> QED
    BY <1>1, <2>1, FirstDifferenceDecides
<1>6. CASE b = m
  BY <1>1, <1>2, <1>3, <1>6
<1>7. CASE b # m
  <2>1. PICK i \in 1..LimbCount : b[i] # m[i] /\ \A j \in 1 .. i - 1 : b[j] = m[j]
    BY <1>1, <1>7, FirstDifference
  <2>2. CASE b[i] > m[i]
    <3>1. number(m) < number(b)
      BY <1>5, <2>1, <2>2
    <3>2. IsUnreduced(b)
      BY <1>3, <2>1, <2>2
    <3> QED
      BY <1>1, <1>2, <3>1, <3>2
  <2>3. CASE ~ (b[i] > m[i])
    <3>1. b[i] < m[i]
      BY <1>4, <2>1, <2>3, Bases
    <3>2. number(b) < number(m)
      BY <1>1, <2>1, <3>1, FirstDifferenceDecides
    <3>3. ~ IsUnreduced(b)
      <4> HIDE DEF number
      <4> QED
        BY <1>2, <1>3, <1>5, <1>7, <3>2
    <3> QED
      BY <1>1, <1>2, <3>2, <3>3
  <2> QED
    BY <2>2, <2>3
<1> QED
  BY <1>6, <1>7

-----------------------------------------------------------------------------
(* FieldText: the invariant.                                               *)

CheckingInv == pc = "checking" => limbs = Zero /\ pos = 0

ReadingInv ==
    pc = "reading" => text \in Seq(Digit) /\ Held(limbs) = Values(0, Radix, text)[pos]

\* What is printed and what is left to print denote the element together.
PrintingInv ==
    pc = "printing" =>
        /\ NumberFrom(Held(limbs), Radix, Reverse(digits)) = Number(LimbBase, bytes)
        /\ limbs = Zero => digits # <<>> /\ digits[Len(digits)] # 0

FieldInv ==
    /\ FieldTextTypeOK
    /\ CheckingInv
    /\ ReadingInv
    /\ VerdictIsExact
    /\ PrintingInv
    /\ PrintedIsCanonical

LEMMA NoDigits ==
    ASSUME NEW first \in Nat, NEW base \in Nat
    PROVE  NumberFrom(first, base, <<>>) = first
<1>1. Digits(<<>>) /\ Len(<<>>) = 0
  BY DEF Digits
<1>2. Values(first, base, <<>>)[0] = first
  BY <1>1, ValuesClimb DEF Reads
<1> QED
  BY <1>1, <1>2 DEF NumberFrom

\* The values of a text on the way through it.
LEMMA TextClimbs ==
    ASSUME text \in Seq(Digit)
    PROVE  LET v == Values(0, Radix, text)
           IN  /\ v[0] = 0 /\ v[Len(text)] = Number(Radix, text)
               /\ \A i \in 0..Len(text) : v[i] \in Nat /\ v[i] <= v[Len(text)]
               /\ \A i \in 1..Len(text) : v[i] = v[i - 1] * Radix + text[i]
<1>1. Digits(text) /\ Radix \in Nat \ {0} /\ 0 \in Nat
  BY Bases DEF Digits, Digit
<1>2. /\ Reads(Values(0, Radix, text), 0, Radix, text, Len(text))
      /\ \A i \in 0..Len(text) : Values(0, Radix, text)[i] \in Nat
  BY <1>1, ValuesClimb
<1>3. \A i \in 0..Len(text) :
         Values(0, Radix, text)[i] <= Values(0, Radix, text)[Len(text)]
  BY <1>1, ValuesGrow
<1> QED
  BY <1>2, <1>3 DEF Reads, Number, NumberFrom

LEMMA FieldInit == Init => FieldInv
<1> SUFFICES ASSUME Init
             PROVE  FieldInv
  OBVIOUS
<1>1. text \in Seq(Char)
  BY FieldTextAssumption DEF Init, BoundedSeq, SeqOf
<1>2. FieldTextTypeOK
  BY <1>1, ZeroHoldsNothing DEF Init, FieldTextTypeOK
<1> QED
  BY <1>2 DEF Init, FieldInv, CheckingInv, ReadingInv, VerdictIsExact, PrintingInv,
              PrintedIsCanonical

LEMMA CheckDigitsKeeps ==
    ASSUME FieldInv, CheckDigits
    PROVE  FieldInv'
<1>1. pc = "checking" /\ limbs = Zero /\ pos = 0 /\ FieldTextTypeOK
  BY DEF FieldInv, CheckingInv, CheckDigits
<1>2. UNCHANGED <<text, pos, limbs, bytes, digits>> /\ pc' \in {"NotDecimal", "reading"}
  BY DEF CheckDigits, Refuse
<1>3. FieldTextTypeOK'
  BY <1>1, <1>2 DEF FieldTextTypeOK, Problems
<1>4. pc' = "reading" => text \in Seq(Digit)
  <2> SUFFICES ASSUME pc' = "reading"
               PROVE  text \in Seq(Digit)
    OBVIOUS
  <2>1. \A i \in DOMAIN text : text[i] \in Digit
    BY DEF CheckDigits, Refuse
  <2>2. text \in Seq(Char)
    BY <1>1 DEF FieldTextTypeOK
  <2> QED
    BY <2>1, <2>2
<1>5. pc' = "reading" => Held(limbs) = Values(0, Radix, text)[pos]
  BY <1>1, <1>4, ZeroHoldsNothing, TextClimbs
<1>6. ReadingInv'
  BY <1>2, <1>4, <1>5 DEF ReadingInv, Held
<1>7. CheckingInv' /\ VerdictIsExact' /\ PrintingInv' /\ PrintedIsCanonical'
  BY <1>2 DEF CheckingInv, VerdictIsExact, PrintingInv, PrintedIsCanonical
<1> QED
  BY <1>3, <1>6, <1>7 DEF FieldInv

LEMMA ReadDigitKeeps ==
    ASSUME FieldInv, ReadDigit
    PROVE  FieldInv'
<1> DEFINE c == text[pos + 1]
           v == Values(0, Radix, text)
           y == MulAddSmall(limbs, Radix, c)
           out == Carries(limbs, Radix, c)[LimbCount]
           p == Power(LimbBase, LimbCount)
<1>1. /\ pc = "reading" /\ FieldTextTypeOK /\ limbs \in Limbs
      /\ text \in Seq(Digit) /\ Held(limbs) = v[pos]
      /\ pos \in 0 .. Len(text) - 1
  BY DEF FieldInv, ReadingInv, ReadDigit, FieldTextTypeOK
<1>2. pos + 1 \in 1..Len(text) /\ pos \in 0..Len(text) /\ (pos + 1) - 1 = pos
  BY <1>1
<1>3. c \in Nat /\ Radix \in Nat \ {0} /\ p \in Nat
  <2>1. c \in Digit
    BY <1>1, <1>2
  <2>2. LimbBase \in Nat \ {0} /\ LimbCount \in Nat
    BY Bases
  <2>3. p \in Nat
    BY <2>2, PowersClimb
  <2> QED
    BY <2>1, <2>3, Bases DEF Digit
<1>4. y \in Limbs /\ out \in Nat /\ Held(limbs) * Radix + c = out * p + Held(y)
  <2> HIDE DEF c
  <2> QED
    BY <1>1, <1>3, MulAddHolds
<1>5. v[pos + 1] = out * p + Held(y) /\ v[pos + 1] \in Nat
      /\ v[pos + 1] <= Number(Radix, text) /\ Number(Radix, text) \in Nat
  <2> HIDE DEF y, out, p
  <2>1. /\ v[pos + 1] = v[(pos + 1) - 1] * Radix + c
        /\ v[pos + 1] \in Nat /\ v[pos + 1] <= v[Len(text)] /\ v[Len(text)] \in Nat
        /\ v[Len(text)] = Number(Radix, text)
    <3>1. pos + 1 \in 0..Len(text) /\ Len(text) \in 0..Len(text)
      BY <1>1
    <3> QED
      BY <1>1, <1>2, <3>1, TextClimbs
  <2> QED
    BY <1>1, <1>2, <1>4, <2>1
<1>6. Held(y) \in Nat
  BY <1>4, HeldClimbs
<1> HIDE DEF c, v, y, out, p
<1>7. CASE out # 0
  <2>1. pc' = "DecimalOverflow" /\ UNCHANGED <<text, pos, limbs, bytes, digits>>
    BY <1>7 DEF ReadDigit, Refuse, Overflows, out, c
  <2>2. out * p \in Nat /\ p <= out * p
    <3>1. 0 * p + p <= out * p
      BY <1>3, <1>4, <1>7, Multiples
    <3> QED
      BY <1>3, <1>4, <3>1, Products
  <2>3. Number(Radix, text) >= p
    BY <1>3, <1>5, <1>6, <2>2
  <2>4. FieldTextTypeOK'
    BY <1>1, <2>1 DEF FieldTextTypeOK, Problems
  <2>5. VerdictIsExact'
    BY <2>1, <2>3 DEF VerdictIsExact, p
  <2>6. CheckingInv' /\ ReadingInv' /\ PrintingInv' /\ PrintedIsCanonical'
    BY <2>1 DEF CheckingInv, ReadingInv, PrintingInv, PrintedIsCanonical
  <2> QED
    BY <2>4, <2>5, <2>6 DEF FieldInv
<1>8. CASE out = 0
  <2>1. /\ limbs' = y /\ pos' = pos + 1 /\ pc' = "reading"
        /\ UNCHANGED <<text, pc, bytes, digits>>
    BY <1>1, <1>8 DEF ReadDigit, Overflows, out, c, y
  <2>2. Held(y) = v[pos + 1]
    <3>1. out * p = 0
      BY <1>3, <1>8
    <3> QED
      BY <1>5, <1>6, <3>1
  <2>3. pos' \in 0..Len(text)
    BY <1>1, <2>1
  <2>4. FieldTextTypeOK'
    BY <1>1, <1>4, <2>1, <2>3 DEF FieldTextTypeOK
  <2>5. ReadingInv'
    BY <1>1, <2>1, <2>2 DEF ReadingInv, Held, v
  <2>6. CheckingInv' /\ VerdictIsExact' /\ PrintingInv' /\ PrintedIsCanonical'
    BY <2>1 DEF CheckingInv, VerdictIsExact, PrintingInv, PrintedIsCanonical
  <2> QED
    BY <2>4, <2>5, <2>6 DEF FieldInv
<1> QED
  BY <1>4, <1>7, <1>8

LEMMA FromBeBytesKeeps ==
    ASSUME FieldInv, FromBeBytes
    PROVE  FieldInv'
<1> DEFINE b == LimbsToBe(limbs)
           number == Number(Radix, text)
<1>1. /\ pc = "reading" /\ FieldTextTypeOK /\ limbs \in Limbs
      /\ text \in Seq(Digit) /\ Held(limbs) = Values(0, Radix, text)[Len(text)]
  BY DEF FieldInv, ReadingInv, FromBeBytes, FieldTextTypeOK
<1>2. Number(LimbBase, b) = number /\ Held(limbs) = number /\ number \in Nat
  BY <1>1, TextClimbs, HeldClimbs DEF Held, LimbsToBe
<1>3. b \in Limbs
  BY <1>1, Reversed DEF LimbsToBe
<1>4. IsUnreduced(b) <=> number >= Modulus
  <2> HIDE DEF b
  <2> QED
    BY <1>2, <1>3, UnreducedReachesModulus
<1>5. /\ Modulus \in Nat /\ Power(LimbBase, LimbCount) \in Nat
      /\ number < Power(LimbBase, LimbCount)
  BY <1>1, <1>2, HeldFits, Bases, PowersClimb, FieldTextAssumption
<1> HIDE DEF b
<1>6. CASE IsUnreduced(b)
  <2>1. pc' = "NotReduced" /\ UNCHANGED <<text, pos, limbs, bytes, digits>>
    BY <1>6 DEF FromBeBytes, Refuse, b
  <2>2. number \in Modulus .. Power(LimbBase, LimbCount) - 1
    BY <1>2, <1>4, <1>5, <1>6
  <2>3. FieldTextTypeOK'
    BY <1>1, <2>1 DEF FieldTextTypeOK, Problems
  <2>4. VerdictIsExact'
    BY <2>1, <2>2 DEF VerdictIsExact
  <2>5. CheckingInv' /\ ReadingInv' /\ PrintingInv' /\ PrintedIsCanonical'
    BY <2>1 DEF CheckingInv, ReadingInv, PrintingInv, PrintedIsCanonical
  <2> QED
    BY <2>3, <2>4, <2>5 DEF FieldInv
<1>7. CASE ~ IsUnreduced(b)
  <2>1. bytes' = b /\ pc' = "accepted" /\ UNCHANGED <<text, pos, limbs, digits>>
    BY <1>7 DEF FromBeBytes, b
  <2>2. number < Modulus
    BY <1>2, <1>4, <1>5, <1>7
  <2>3. FieldTextTypeOK'
    BY <1>1, <1>3, <2>1 DEF FieldTextTypeOK
  <2>4. VerdictIsExact'
    BY <1>2, <2>1, <2>2 DEF VerdictIsExact
  <2>5. CheckingInv' /\ ReadingInv' /\ PrintingInv' /\ PrintedIsCanonical'
    BY <2>1 DEF CheckingInv, ReadingInv, PrintingInv, PrintedIsCanonical
  <2> QED
    BY <2>3, <2>4, <2>5 DEF FieldInv
<1> QED
  BY <1>6, <1>7

LEMMA StartPrintingKeeps ==
    ASSUME FieldInv, StartPrinting
    PROVE  FieldInv'
<1> DEFINE x == BeToLimbs(bytes)
<1>1. pc = "accepted" /\ FieldTextTypeOK /\ bytes \in Limbs
  BY DEF FieldInv, StartPrinting, FieldTextTypeOK
<1>2. x \in Limbs /\ Held(x) = Number(LimbBase, bytes)
  BY <1>1, Reversed DEF BeToLimbs, Held
<1>3. Held(x) \in Nat
  BY <1>2, HeldClimbs
<1> HIDE DEF x
<1>4. limbs' = x /\ UNCHANGED <<text, pos, bytes>>
  BY DEF StartPrinting, x
<1>5. \/ x = Zero /\ pc' = "printed" /\ digits' = <<0>>
      \/ x # Zero /\ pc' = "printing" /\ digits' = <<>>
  BY <1>4 DEF StartPrinting
<1>6. FieldTextTypeOK'
  <2>1. 0 \in Digit
    BY Bases DEF Digit
  <2>2. <<0>> \in Seq(Digit) /\ <<>> \in Seq(Digit)
    BY <2>1
  <2>3. digits' \in Seq(Digit)
    BY <1>5, <2>2
  <2> QED
    BY <1>1, <1>2, <1>4, <1>5, <2>3 DEF FieldTextTypeOK
<1>7. CheckingInv' /\ ReadingInv'
  BY <1>5 DEF CheckingInv, ReadingInv
<1>8. VerdictIsExact'
  BY <1>1, <1>4, <1>5 DEF FieldInv, VerdictIsExact
<1>9. PrintingInv'
  <2> SUFFICES ASSUME pc' = "printing"
               PROVE  /\ NumberFrom(Held(limbs'), Radix, Reverse(digits'))
                           = Number(LimbBase, bytes')
                      /\ limbs' # Zero
    BY DEF PrintingInv, Held
  <2>1. x # Zero /\ digits' = <<>>
    BY <1>5
  <2>2. Reverse(<<>>) = <<>>
    BY DEF Reverse
  <2>3. NumberFrom(Held(x), Radix, <<>>) = Held(x)
    BY <1>3, Bases, NoDigits
  <2> QED
    BY <1>2, <1>4, <2>1, <2>2, <2>3
<1>10. PrintedIsCanonical'
  <2> SUFFICES ASSUME pc' = "printed"
               PROVE  /\ Number(Radix, digits') = Number(LimbBase, bytes')
                      /\ Len(digits') = 1
    BY DEF PrintedIsCanonical
  <2>1. x = Zero /\ digits' = <<0>>
    BY <1>5
  <2>2. Number(LimbBase, bytes) = 0
    BY <1>2, <2>1, ZeroHoldsNothing
  <2>3. Number(Radix, <<0>>) = 0
    <3>1. Radix \in Nat /\ 0 \in Nat /\ <<>> \in Seq(Nat) /\ <<0>> \o <<>> = <<0>>
          /\ 0 * Radix + 0 = 0
      BY Bases
    <3>2. NumberFrom(0, Radix, <<0>> \o <<>>) = NumberFrom(0 * Radix + 0, Radix, <<>>)
      BY <3>1, LeadingDigit
    <3>3. NumberFrom(0, Radix, <<>>) = 0
      BY <3>1, NoDigits
    <3> QED
      BY <3>1, <3>2, <3>3 DEF Number
  <2> QED
    BY <1>4, <2>1, <2>2, <2>3
<1> QED
  BY <1>6, <1>7, <1>8, <1>9, <1>10 DEF FieldInv

\* A round of the printing loop takes the last digit off the number.
LEMMA RoundTakesDigit ==
    ASSUME FieldInv, PrintDigit
    PROVE  /\ limbs \in Limbs /\ limbs' \in Limbs /\ Held(limbs) \in Nat \ {0}
           /\ \E r \in Digit : /\ digits' = Append(digits, r)
                               /\ Held(limbs) = Held(limbs') * Radix + r
           /\ Held(limbs') \in Nat
<1> DEFINE y == Quotient(limbs, Radix)
           r == Remainder(limbs, Radix)
<1>1. limbs \in Limbs /\ limbs # Zero
  BY DEF FieldInv, FieldTextTypeOK, PrintDigit
<1>2. Radix \in Nat \ {0} /\ Radix <= LimbBase
  BY Bases
<1>3. y \in Limbs /\ r \in Digit /\ Held(limbs) = Held(y) * Radix + r
  BY <1>1, <1>2, DivRemHolds DEF Digit
<1>4. Held(limbs) \in Nat /\ Held(y) \in Nat /\ Held(limbs) # 0
  BY <1>1, <1>3, HeldClimbs, ZeroHoldsNothing
<1>5. limbs' = y /\ digits' = Append(digits, r)
  BY DEF PrintDigit
<1> QED
  BY <1>1, <1>3, <1>4, <1>5

LEMMA AppendReversed ==
    ASSUME NEW S, NEW s \in Seq(S), NEW d \in S
    PROVE  /\ Reverse(Append(s, d)) = <<d>> \o Reverse(s)
           /\ Reverse(s) \in Seq(S)
<1> DEFINE n == Len(s)
           t == Append(s, d)
           a == Reverse(t)
           b == <<d>> \o Reverse(s)
<1>1. /\ Len(t) = n + 1 /\ n \in Nat /\ t[n + 1] = d
      /\ \A i \in 1..n : t[i] = s[i] /\ s[i] \in S
  OBVIOUS
<1>2. a = [i \in 1 .. n + 1 |-> t[((n + 1) - i) + 1]]
  BY <1>1 DEF Reverse
<1>3. Reverse(s) = [i \in 1..n |-> s[(n - i) + 1]]
  BY DEF Reverse
<1>4. Reverse(s) \in Seq(S) /\ Len(Reverse(s)) = n
  <2>1. \A i \in 1..n : s[(n - i) + 1] \in S
    BY <1>1
  <2> QED
    BY <1>1, <1>3, <2>1
<1> HIDE DEF t
<1>5. b \in Seq(S) /\ Len(b) = n + 1 /\ b[1] = d
      /\ \A i \in 1..n : b[i + 1] = Reverse(s)[i]
  BY <1>1, <1>4
<1>6. ASSUME NEW i \in 1 .. n + 1
      PROVE  a[i] = b[i]
  <2>1. CASE i = 1
    <3>1. ((n + 1) - i) + 1 = n + 1
      BY <1>1, <2>1
    <3> QED
      BY <1>1, <1>2, <1>5, <2>1, <3>1
  <2>2. CASE i # 1
    <3>1. i - 1 \in 1..n /\ (i - 1) + 1 = i /\ ((n + 1) - i) + 1 \in 1..n
          /\ ((n + 1) - i) + 1 = (n - (i - 1)) + 1
      BY <1>1, <2>2
    <3>2. a[i] = s[((n + 1) - i) + 1]
      BY <1>1, <1>2, <3>1
    <3>3. b[i] = s[(n - (i - 1)) + 1]
      BY <1>3, <1>5, <3>1
    <3> QED
      BY <3>1, <3>2, <3>3
  <2> QED
    BY <2>1, <2>2
<1>7. a = b
  <2>1. b = [i \in 1 .. n + 1 |-> b[i]]
    BY <1>1, <1>5
  <2> HIDE DEF b
  <2>2. a = [i \in 1 .. n + 1 |-> a[i]]
    BY <1>2
  <2> HIDE DEF a
  <2> QED
    BY <1>6, <2>1, <2>2
<1> QED
  BY <1>4, <1>7 DEF t

LEMMA PrintDigitKeeps ==
    ASSUME FieldInv, PrintDigit
    PROVE  FieldInv'
<1>1. /\ pc = "printing" /\ limbs # Zero /\ FieldTextTypeOK /\ digits \in Seq(Digit)
      /\ UNCHANGED <<text, pc, pos, bytes>>
  BY DEF FieldInv, FieldTextTypeOK, PrintDigit
<1>2. PICK r \in Digit : /\ digits' = Append(digits, r)
                         /\ Held(limbs) = Held(limbs') * Radix + r
  BY RoundTakesDigit
<1>3. limbs' \in Limbs /\ Held(limbs) \in Nat \ {0} /\ Held(limbs') \in Nat
  BY RoundTakesDigit
<1>4. FieldTextTypeOK'
  <2>1. digits' \in Seq(Digit)
    BY <1>1, <1>2
  <2> QED
    BY <1>1, <1>3, <2>1 DEF FieldTextTypeOK
<1>5. NumberFrom(Held(limbs'), Radix, Reverse(digits')) = Number(LimbBase, bytes)
  <2>1. Reverse(digits') = <<r>> \o Reverse(digits) /\ Reverse(digits) \in Seq(Digit)
    BY <1>1, <1>2, AppendReversed
  <2>2. Radix \in Nat /\ r \in Nat
    BY Bases DEF Digit
  <2>3. Reverse(digits) \in Seq(Nat)
    BY <2>1, Bases DEF Digit
  <2>4. NumberFrom(Held(limbs'), Radix, <<r>> \o Reverse(digits))
          = NumberFrom(Held(limbs') * Radix + r, Radix, Reverse(digits))
    BY <1>3, <2>2, <2>3, LeadingDigit
  <2>5. NumberFrom(Held(limbs), Radix, Reverse(digits)) = Number(LimbBase, bytes)
    BY <1>1 DEF FieldInv, PrintingInv
  <2> QED
    BY <1>2, <2>1, <2>4, <2>5
<1>6. limbs' = Zero => digits' # <<>> /\ digits'[Len(digits')] # 0
  <2> SUFFICES ASSUME limbs' = Zero
               PROVE  digits' # <<>> /\ digits'[Len(digits')] # 0
    OBVIOUS
  <2>1. Held(limbs') = 0
    BY ZeroHoldsNothing
  <2>2. r \in Nat /\ 0 * Radix = 0
    BY Bases DEF Digit
  <2>3. r # 0
    BY <1>2, <1>3, <2>1, <2>2
  <2> QED
    BY <1>1, <1>2, <2>3
<1>7. PrintingInv'
  BY <1>1, <1>5, <1>6 DEF PrintingInv, Held
<1>8. CheckingInv' /\ ReadingInv' /\ PrintedIsCanonical'
  BY <1>1 DEF CheckingInv, ReadingInv, PrintedIsCanonical
<1>9. VerdictIsExact'
  BY <1>1 DEF FieldInv, VerdictIsExact
<1> QED
  BY <1>4, <1>7, <1>8, <1>9 DEF FieldInv

LEMMA ReverseDigitsKeeps ==
    ASSUME FieldInv, ReverseDigits
    PROVE  FieldInv'
<1> DEFINE t == Reverse(digits)
           n == Len(digits)
<1>1. /\ pc = "printing" /\ limbs = Zero /\ FieldTextTypeOK /\ digits \in Seq(Digit)
      /\ pc' = "printed" /\ digits' = t /\ UNCHANGED <<text, pos, limbs, bytes>>
  BY DEF FieldInv, FieldTextTypeOK, ReverseDigits
<1>2. /\ Number(Radix, t) = Number(LimbBase, bytes)
      /\ digits # <<>> /\ digits[n] # 0
  BY <1>1, ZeroHoldsNothing DEF FieldInv, PrintingInv, Number
<1>3. t \in Seq(Digit) /\ t[1] = digits[n]
  <2>1. n \in Nat \ {0} /\ \A i \in 1..n : digits[i] \in Digit
    BY <1>1, <1>2
  <2>2. t = [i \in 1..n |-> digits[(n - i) + 1]]
    BY DEF Reverse
  <2>3. \A i \in 1..n : (n - i) + 1 \in 1..n
    BY <2>1
  <2>4. 1 \in 1..n /\ (n - 1) + 1 = n
    BY <2>1
  <2> HIDE DEF n, t
  <2> QED
    BY <2>1, <2>2, <2>3, <2>4
<1> HIDE DEF t, n
<1>4. FieldTextTypeOK'
  BY <1>1, <1>3 DEF FieldTextTypeOK
<1>5. PrintedIsCanonical'
  BY <1>1, <1>2, <1>3 DEF PrintedIsCanonical
<1>6. CheckingInv' /\ ReadingInv' /\ PrintingInv'
  BY <1>1 DEF CheckingInv, ReadingInv, PrintingInv
<1>7. VerdictIsExact'
  BY <1>1 DEF FieldInv, VerdictIsExact
<1> QED
  BY <1>4, <1>5, <1>6, <1>7 DEF FieldInv

LEMMA FieldInvariant == Spec => []FieldInv
<1>1. FieldInv /\ [Next]_vars => FieldInv'
  <2> SUFFICES ASSUME FieldInv, [Next]_vars
               PROVE  FieldInv'
    OBVIOUS
  <2>1. CASE CheckDigits
    BY <2>1, CheckDigitsKeeps
  <2>2. CASE ReadDigit
    BY <2>2, ReadDigitKeeps
  <2>3. CASE FromBeBytes
    BY <2>3, FromBeBytesKeeps
  <2>4. CASE StartPrinting
    BY <2>4, StartPrintingKeeps
  <2>5. CASE PrintDigit
    BY <2>5, PrintDigitKeeps
  <2>6. CASE ReverseDigits
    BY <2>6, ReverseDigitsKeeps
  <2>7. CASE UNCHANGED vars
    BY <2>7 DEF vars, FieldInv, FieldTextTypeOK, CheckingInv, ReadingInv, VerdictIsExact,
                PrintingInv, PrintedIsCanonical, Held
  <2> QED
    BY <2>1, <2>2, <2>3, <2>4, <2>5, <2>6, <2>7 DEF Next
<1> QED
  BY FieldInit, <1>1, PTL DEF Spec

\* Reading a decimal text, no carry is lost between the limbs and nothing wraps
\* around the last one (field.rs:94-111, mul_add_small at 147-160).
THEOREM FieldTextHolds == Spec => []FieldTextInv
<1>1. FieldInv => FieldTextInv
  <2> SUFFICES ASSUME FieldInv, pc = "reading"
               PROVE  Held(limbs) = Number(Radix, SubSeq(text, 1, pos))
    BY DEF FieldInv, FieldTextInv, LimbsHoldPrefix, Held
  <2>1. Held(limbs) = Values(0, Radix, text)[pos] /\ text \in Seq(Digit)
        /\ pos \in 0..Len(text)
    BY DEF FieldInv, ReadingInv, FieldTextTypeOK
  <2>2. text \in Seq(Nat) /\ Radix \in Nat
    BY <2>1, Bases DEF Digit
  <2> QED
    BY <2>1, <2>2, PrefixNumber
<1> QED
  BY <1>1, FieldInvariant, PTL

\* A text is refused as too large only if it does not fit, as unreduced exactly
\* from the modulus on, and accepted as the number it denotes
\* (field.rs:94-108, from_be_bytes at 41-48).
THEOREM VerdictHolds == Spec => []VerdictIsExact
<1>1. FieldInv => VerdictIsExact
  BY DEF FieldInv
<1> QED
  BY <1>1, FieldInvariant, PTL

\* What to_decimal_string prints denotes the element, unpadded
\* (field.rs:117-129).
THEOREM PrintedHolds == Spec => []PrintedIsCanonical
<1>1. FieldInv => PrintedIsCanonical
  BY DEF FieldInv
<1> QED
  BY <1>1, FieldInvariant, PTL

\* Every round of the printing loop makes the number smaller (field.rs:123-125,
\* div_rem_small at 163-171).
THEOREM DivisionHolds == Spec => DivisionShrinks
<1>1. FieldInv /\ [Next]_vars =>
        [pc = "printing" /\ pc' = "printing" =>
           Number(LimbBase, Reverse(limbs')) < Number(LimbBase, Reverse(limbs))]_vars
  <2> SUFFICES ASSUME FieldInv, Next, pc = "printing", pc' = "printing"
               PROVE  Held(limbs') < Held(limbs)
    BY DEF Held
  <2>1. PrintDigit
    BY DEF Next, CheckDigits, ReadDigit, FromBeBytes, StartPrinting, ReverseDigits
  <2>2. PICK r \in Digit : Held(limbs) = Held(limbs') * Radix + r
    BY <2>1, RoundTakesDigit
  <2>3. Held(limbs) \in Nat \ {0} /\ Held(limbs') \in Nat
    BY <2>1, RoundTakesDigit
  <2> DEFINE a == Held(limbs)
             b == Held(limbs')
  <2>4. r \in Nat /\ Radix \in Nat /\ 1 < Radix /\ a = b * Radix + r
        /\ a \in Nat \ {0} /\ b \in Nat
    BY <2>2, <2>3, Bases DEF Digit
  <2> HIDE DEF a, b
  <2>5. b * Radix \in Nat /\ b * 1 + b <= b * Radix
    <3>1. 1 * b + b <= Radix * b
      BY <2>4, Multiples
    <3>2. Radix * b = b * Radix /\ 1 * b = b * 1
      BY <2>4
    <3> QED
      BY <2>4, <3>1, <3>2, Products
  <2>6. b < a
    BY <2>4, <2>5
  <2> QED
    BY <2>6 DEF a, b
<1> QED
  BY <1>1, FieldInvariant, PTL DEF Spec, DivisionShrinks

=============================================================================
