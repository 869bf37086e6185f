-------------------------- MODULE PortfolioProofs ---------------------------
(***************************************************************************)
(* The books of Portfolio.tla balance, for any tickers, volumes, prices and *)
(* number of fills.  Amounts are fractions in lowest terms, so the proofs   *)
(* write those of a step as whole numbers of parts of 1 / d, compare these, *)
(* and go back: an amount is the one way to write what it is worth.         *)
(***************************************************************************)
EXTENDS Portfolio, CommonLemmas

USE PortfolioAssumption

-----------------------------------------------------------------------------
(* Fractions in lowest terms.                                              *)

\* num / den is k / d.
Equals(num, den, k, d) == num * d = den * k

\* The numerator of num / den when it is written with the denominator d.
Numerator(num, den, d) == (num * d) \div den

\* A denominator that num / den can be written with suits it.
LEMMA EqualsSuits ==
  ASSUME NEW num \in Int, NEW den \in Nat \ {0}, NEW k \in Int, NEW d \in Nat,
         Equals(num, den, k, d)
  PROVE  Suits(num, den, d) /\ Numerator(num, den, d) = k
<1>1. num * d \in Int
  OBVIOUS
<1>2. 0 \in 0..(den - 1) /\ num * d = den * k + 0
  BY DEF Equals
<1> DEFINE x == num * d
<1> HIDE DEF x
<1>3. x % den = 0 /\ x \div den = k
  BY <1>1, <1>2, ModUnique DEF x
<1> QED BY <1>3 DEF Suits, Numerator, x

\* And one that suits it can be written with.
LEMMA SuitsEquals ==
  ASSUME NEW num \in Int, NEW den \in Nat \ {0}, NEW d \in Nat, Suits(num, den, d)
  PROVE  \E k \in Int : Equals(num, den, k, d)
<1> DEFINE x == num * d
<1>1. x \in Int /\ x % den = 0
  BY DEF Suits
<1> HIDE DEF x
<1>2. x \div den \in Int /\ x = den * (x \div den) + (x % den)
  BY <1>1, DivMod
<1>3. den * (x \div den) \in Int
  BY <1>2
<1>4. x = den * (x \div den)
  BY <1>1, <1>2, <1>3
<1> QED BY <1>2, <1>4 DEF x, Equals

\* A fraction has a least denominator that suits it, and is written with that.
LEMMA AmountInLowestTerms ==
  ASSUME NEW num \in Int, NEW den \in Nat \ {0}
  PROVE  LET least == LeastDenominator(num, den)
         IN  /\ least \in 1..den
             /\ Suits(num, den, least) /\ \A e \in 1..(least - 1) : ~Suits(num, den, e)
             /\ Amount[<<num, den>>] = <<Numerator(num, den, least), least>>
<1> DEFINE suiting == {d \in 1..den : Suits(num, den, d)}
<1>1. den \in suiting
  <2>1. Equals(num, den, num, den)
    BY DEF Equals
  <2>2. Suits(num, den, den)
    BY <2>1, EqualsSuits
  <2> QED BY <2>2
<1>2. PICK d \in suiting : \A e \in suiting : d <= e
  <2>1. suiting \subseteq Nat /\ suiting # {}
    BY <1>1
  <2> HIDE DEF suiting
  <2> QED BY <2>1, LeastNatural
<1>3. d \in 1..den /\ Suits(num, den, d) /\ \A e \in 1..(d - 1) : ~Suits(num, den, e)
  BY <1>2
<1>4. /\ LeastDenominator(num, den) \in 1..den
      /\ Suits(num, den, LeastDenominator(num, den))
      /\ \A e \in 1..(LeastDenominator(num, den) - 1) : ~Suits(num, den, e)
  BY <1>3 DEF LeastDenominator
<1>5. Amount[<<num, den>>] = <<Numerator(num, den, LeastDenominator(num, den)), LeastDenominator(num, den)>>
  BY DEF Amount, Fraction, Numerator
<1> QED BY <1>4, <1>5

\* A factor that is not 0 cancels.
LEMMA Cancel ==
  ASSUME NEW x \in Int, NEW y \in Int, NEW d \in Nat \ {0}, x * d = y * d
  PROVE  x = y
<1>1. (x - y) * d = 0
  OBVIOUS
<1>2. x - y \in Int /\ (x - y >= 1 => (x - y) * d >= d) /\ (x - y <= -1 => (x - y) * d <= -d)
  OBVIOUS
<1> QED BY <1>1, <1>2

\* Quotients that are the same number are written with the same denominators.
LEMMA SameDenominators ==
  ASSUME NEW num \in Int, NEW den \in Nat \ {0}, NEW num2 \in Int, NEW den2 \in Nat \ {0},
         num * den2 = num2 * den, NEW x \in Nat, NEW k \in Int, Equals(num, den, k, x)
  PROVE  Equals(num2, den2, k, x)
<1>0. num * x = den * k
  BY DEF Equals
<1>1. (num2 * x) * den = (den2 * k) * den
  <2>1. (num2 * x) * den = (num * den2) * x
    <3>1. (num2 * x) * den = (num2 * den) * x
      OBVIOUS
    <3> QED BY <3>1
  <2>2. (num * den2) * x = (num * x) * den2
    OBVIOUS
  <2>3. (num * x) * den2 = (den * k) * den2
    BY <1>0
  <2>4. (den * k) * den2 = (den2 * k) * den
    OBVIOUS
  <2> QED BY <2>1, <2>2, <2>3, <2>4
<1>2. num2 * x \in Int /\ den2 * k \in Int
  OBVIOUS
<1> QED BY <1>1, <1>2, Cancel DEF Equals

\* Quotients that are the same number are one amount.
LEMMA SameAmount ==
  ASSUME NEW num \in Int, NEW den \in Nat \ {0}, NEW num2 \in Int, NEW den2 \in Nat \ {0},
         num * den2 = num2 * den
  PROVE  Amount[<<num, den>>] = Amount[<<num2, den2>>]
<1> DEFINE l == LeastDenominator(num, den)
           l2 == LeastDenominator(num2, den2)
<1>1. /\ l \in 1..den /\ l \in Nat \ {0} /\ Suits(num, den, l)
      /\ \A e \in 1..(l - 1) : ~Suits(num, den, e)
      /\ Amount[<<num, den>>] = <<Numerator(num, den, l), l>>
      /\ l2 \in 1..den2 /\ l2 \in Nat \ {0} /\ Suits(num2, den2, l2)
      /\ \A e \in 1..(l2 - 1) : ~Suits(num2, den2, e)
      /\ Amount[<<num2, den2>>] = <<Numerator(num2, den2, l2), l2>>
  BY AmountInLowestTerms
<1> HIDE DEF l, l2
<1>2. num2 * den = num * den2
  OBVIOUS
<1>3. ASSUME NEW x \in Nat, Suits(num, den, x) PROVE Suits(num2, den2, x)
  <2>1. PICK k \in Int : Equals(num, den, k, x)
    BY <1>3, SuitsEquals
  <2> QED BY <2>1, EqualsSuits, SameDenominators
<1>4. ASSUME NEW x \in Nat, Suits(num2, den2, x) PROVE Suits(num, den, x)
  <2>1. PICK k \in Int : Equals(num2, den2, k, x)
    BY <1>4, SuitsEquals
  <2>2. Equals(num, den, k, x)
    BY <1>2, <2>1, SameDenominators
  <2> QED BY <2>2, EqualsSuits
<1>5. ~(l < l2) /\ ~(l2 < l)
  <2>1. l < l2 => l \in 1..(l2 - 1)
    BY <1>1
  <2>2. l2 < l => l2 \in 1..(l - 1)
    BY <1>1
  <2>3. Suits(num2, den2, l) /\ Suits(num, den, l2)
    BY <1>1, <1>3, <1>4
  <2> HIDE DEF Suits
  <2> QED BY <1>1, <2>1, <2>2, <2>3
<1>6. l = l2
  BY <1>1, <1>5
<1>7. PICK k \in Int : Equals(num, den, k, l)
  BY <1>1, SuitsEquals
<1>8. Equals(num2, den2, k, l)
  BY <1>1, <1>7, SameDenominators
<1>9. Numerator(num, den, l) = k
  <2>1. l \in Nat
    BY <1>1
  <2>2. Equals(num, den, k, l)
    BY <1>7
  <2> QED BY <2>2, <2>1, EqualsSuits
<1>10. Numerator(num2, den2, l) = k
  BY <1>1, <1>8, EqualsSuits
<1> QED BY <1>1, <1>6, <1>9, <1>10

\* The fraction a is n / d.
Worth(a, n, d) == a \in Fraction /\ a[1] * d = n * a[2]

\* An amount is worth the quotient it is made of.
LEMMA AmountWorth ==
  ASSUME NEW num \in Int, NEW den \in Nat \ {0}, NEW n \in Int, NEW d \in Nat \ {0},
         num * d = n * den
  PROVE  IsAmount(Amount[<<num, den>>]) /\ Worth(Amount[<<num, den>>], n, d)
<1> DEFINE l == LeastDenominator(num, den)
<1>1. /\ l \in Nat \ {0} /\ Suits(num, den, l)
      /\ Amount[<<num, den>>] = <<Numerator(num, den, l), l>>
  BY AmountInLowestTerms
<1> HIDE DEF l
<1>2. PICK k \in Int : Equals(num, den, k, l)
  BY <1>1, SuitsEquals
<1>3. Amount[<<num, den>>] = <<k, l>>
  <2>1. l \in Nat
    BY <1>1
  <2>2. Equals(num, den, k, l)
    BY <1>2
  <2>3. Numerator(num, den, l) = k
    BY <2>1, <2>2, EqualsSuits
  <2> QED BY <1>1, <2>3
<1>4. k * d = n * l
  <2>1. (k * d) * den = (n * l) * den
    <3>1. (k * d) * den = (den * k) * d
      OBVIOUS
    <3>2. (num * l) * d = (num * d) * l
      BY <1>1
    <3>3. (n * den) * l = (n * l) * den
      BY <1>1
    <3>4. num * l = den * k
      BY <1>2 DEF Equals
    <3> QED BY <3>1, <3>2, <3>3, <3>4
  <2>2. k * d \in Int /\ n * l \in Int
    BY <1>1
  <2> QED BY <2>1, <2>2, Cancel
<1>5. Amount[<<k, l>>] = <<k, l>>
  <2>1. num * l = k * den
    BY <1>2 DEF Equals
  <2> QED BY <1>1, <1>3, <2>1, SameAmount
<1> QED BY <1>1, <1>3, <1>4, <1>5 DEF IsAmount, Worth, Fraction

\* An amount is the one way to write what it is worth.
LEMMA WorthUnique ==
  ASSUME NEW a, NEW b, IsAmount(a), IsAmount(b), NEW n \in Int, NEW d \in Nat \ {0},
         Worth(a, n, d), Worth(b, n, d)
  PROVE  a = b
<1>1. PICK num \in Int, den \in Nat \ {0} : a = <<num, den>>
  BY DEF IsAmount, Fraction
<1>2. PICK num2 \in Int, den2 \in Nat \ {0} : b = <<num2, den2>>
  BY DEF IsAmount, Fraction
<1>3. num * d = n * den /\ num2 * d = n * den2
  BY <1>1, <1>2 DEF Worth
<1>4. (num * den2) * d = (num2 * den) * d
  <2>1. (num * den2) * d = (num * d) * den2
    OBVIOUS
  <2>2. (num2 * den) * d = (num2 * d) * den
    OBVIOUS
  <2>3. (n * den) * den2 = (n * den2) * den
    OBVIOUS
  <2> QED BY <1>3, <2>1, <2>2, <2>3
<1>5. num * den2 = num2 * den
  <2>1. num * den2 \in Int /\ num2 * den \in Int
    OBVIOUS
  <2> QED BY <1>4, <2>1, Cancel
<1>6. Amount[<<num, den>>] = Amount[<<num2, den2>>]
  BY <1>5, SameAmount
<1> QED BY <1>1, <1>2, <1>6 DEF IsAmount

-----------------------------------------------------------------------------
(* What amounts are worth in parts of 1 / d.                               *)

\* An amount is worth something, and written in more parts it is worth the same.
LEMMA WorthOf ==
  ASSUME NEW a \in Fraction
  PROVE  a[1] \in Int /\ a[2] \in Nat \ {0} /\ Worth(a, a[1], a[2])
BY DEF Worth, Fraction

\* In k times as many parts it is k times as much.
LEMMA WorthInParts ==
  ASSUME NEW a, NEW n \in Int, NEW d \in Nat \ {0}, Worth(a, n, d), NEW k \in Nat \ {0}
  PROVE  n * k \in Int /\ d * k \in Nat \ {0} /\ Worth(a, n * k, d * k)
<1>1. a \in Fraction /\ a[1] \in Int /\ a[2] \in Nat \ {0} /\ a[1] * d = n * a[2]
  BY DEF Worth, Fraction
<1> DEFINE p == a[1]
           q == a[2]
<1> HIDE DEF p, q
<1>2. p \in Int /\ q \in Nat \ {0} /\ p * d = n * q
  BY <1>1 DEF p, q
<1>3. p * (d * k) = (n * k) * q
  <2>1. p * (d * k) = (p * d) * k
    BY <1>2
  <2>2. (n * q) * k = (n * k) * q
    BY <1>2
  <2> QED BY <1>2, <2>1, <2>2
<1>4. d * k \in Nat \ {0}
  OBVIOUS
<1> QED BY <1>1, <1>3, <1>4 DEF Worth, p, q

\* Two amounts and three can be written with one denominator.
LEMMA CommonDenominator ==
  ASSUME NEW a \in Fraction, NEW b \in Fraction, NEW c \in Fraction
  PROVE  \E d \in Nat \ {0} : \E n, m, l \in Int : Worth(a, n, d) /\ Worth(b, m, d) /\ Worth(c, l, d)
<1> DEFINE p == a[2]
           q == b[2]
           r == c[2]
           u == a[1]
           v == b[1]
           w == c[1]
<1>1. /\ u \in Int /\ p \in Nat \ {0} /\ Worth(a, u, p)
      /\ v \in Int /\ q \in Nat \ {0} /\ Worth(b, v, q)
      /\ w \in Int /\ r \in Nat \ {0} /\ Worth(c, w, r)
  BY WorthOf
<1> HIDE DEF p, q, r, u, v, w
<1>2. q * r \in Nat \ {0} /\ p * r \in Nat \ {0} /\ p * q \in Nat \ {0}
  BY <1>1
<1> DEFINE qr == q * r
           pr == p * r
           pq == p * q
<1>3. p * qr = q * pr /\ p * qr = r * pq
  BY <1>1
<1> HIDE DEF qr, pr, pq
<1>4. qr \in Nat \ {0} /\ pr \in Nat \ {0} /\ pq \in Nat \ {0}
  BY <1>2 DEF qr, pr, pq
<1>5. /\ u * qr \in Int /\ p * qr \in Nat \ {0} /\ Worth(a, u * qr, p * qr)
      /\ v * pr \in Int /\ Worth(b, v * pr, q * pr)
      /\ w * pq \in Int /\ Worth(c, w * pq, r * pq)
  BY <1>1, <1>4, WorthInParts
<1> QED BY <1>3, <1>5

\* A whole number in parts.
LEMMA WholeWorth ==
  ASSUME NEW n \in Int, NEW d \in Nat \ {0}
  PROVE  n * d \in Int /\ IsAmount(Whole(n)) /\ Worth(Whole(n), n * d, d)
<1>1. Amount[<<n, 1>>] = <<n, 1>>
  <2>1. LeastDenominator(n, 1) \in 1..1 /\ Amount[<<n, 1>>] = <<Numerator(n, 1, LeastDenominator(n, 1)), LeastDenominator(n, 1)>>
    BY AmountInLowestTerms
  <2>2. LeastDenominator(n, 1) = 1
    BY <2>1
  <2>3. Numerator(n, 1, 1) = n
    BY DEF Numerator
  <2> QED BY <2>1, <2>2, <2>3
<1> QED BY <1>1 DEF Whole, IsAmount, Worth, Fraction

\* A sum, in the parts of what is added.
LEMMA PlusWorth ==
  ASSUME NEW a, NEW b, NEW n \in Int, NEW m \in Int, NEW d \in Nat \ {0},
         Worth(a, n, d), Worth(b, m, d)
  PROVE  IsAmount(Plus(a, b)) /\ Worth(Plus(a, b), n + m, d)
<1> DEFINE p == a[1]
           q == a[2]
           r == b[1]
           s == b[2]
<1>1. /\ p \in Int /\ q \in Nat \ {0} /\ p * d = n * q
      /\ r \in Int /\ s \in Nat \ {0} /\ r * d = m * s
  BY DEF Worth, Fraction
<1>2. Plus(a, b) = Amount[<<p * s + r * q, q * s>>]
  BY DEF Plus
<1> HIDE DEF p, q, r, s
<1>3. p * s + r * q \in Int /\ q * s \in Nat \ {0} /\ n + m \in Int
  BY <1>1
<1>4. (p * s + r * q) * d = (n + m) * (q * s)
  <2>1. (p * s + r * q) * d = (p * d) * s + (r * d) * q
    BY <1>1
  <2>2. (n + m) * (q * s) = (n * q) * s + (m * s) * q
    BY <1>1
  <2> QED BY <1>1, <2>1, <2>2
<1> DEFINE num == p * s + r * q
           den == q * s
<1> HIDE DEF num, den
<1>5. num \in Int /\ den \in Nat \ {0} /\ num * d = (n + m) * den
  BY <1>3, <1>4 DEF num, den
<1>6. IsAmount(Amount[<<num, den>>]) /\ Worth(Amount[<<num, den>>], n + m, d)
  BY <1>3, <1>5, AmountWorth
<1> QED BY <1>2, <1>6 DEF num, den

\* A difference.
LEMMA MinusWorth ==
  ASSUME NEW a, NEW b, NEW n \in Int, NEW m \in Int, NEW d \in Nat \ {0},
         Worth(a, n, d), Worth(b, m, d)
  PROVE  IsAmount(Minus(a, b)) /\ Worth(Minus(a, b), n - m, d)
<1>1. /\ b[1] \in Int /\ b[2] \in Nat \ {0} /\ b[1] * d = m * b[2]
  BY DEF Worth, Fraction
<1> DEFINE r == b[1]
           s == b[2]
           k == -m
<1> HIDE DEF r, s, k
<1>2. r \in Int /\ s \in Nat \ {0} /\ r * d = m * s
  BY <1>1 DEF r, s
<1>3. (-r) * d = (-m) * s
  BY <1>2
<1>4. k \in Int /\ Worth(<<-r, s>>, k, d)
  BY <1>2, <1>3 DEF Worth, Fraction, k
<1>5. IsAmount(Plus(a, <<-r, s>>)) /\ Worth(Plus(a, <<-r, s>>), n + k, d)
  BY <1>4, PlusWorth
<1>6. n + k = n - m
  BY DEF k
<1> QED BY <1>5, <1>6 DEF Minus, r, s

\* A multiple.
LEMMA TimesWorth ==
  ASSUME NEW a, NEW n \in Int, NEW d \in Nat \ {0}, Worth(a, n, d), NEW k \in Int
  PROVE  n * k \in Int /\ IsAmount(Times(a, k)) /\ Worth(Times(a, k), n * k, d)
<1> DEFINE p == a[1]
           q == a[2]
<1>1. p \in Int /\ q \in Nat \ {0} /\ p * d = n * q
  BY DEF Worth, Fraction
<1>2. Times(a, k) = Amount[<<p * k, q>>]
  BY DEF Times
<1> HIDE DEF p, q
<1> DEFINE num == p * k
           m == n * k
<1>3. num \in Int /\ m \in Int
  BY <1>1
<1>4. num * d = m * q
  <2>1. (p * k) * d = (p * d) * k
    BY <1>1
  <2>2. (n * q) * k = (n * k) * q
    BY <1>1
  <2> QED BY <1>1, <2>1, <2>2
<1> HIDE DEF num, m
<1>5. IsAmount(Amount[<<num, q>>]) /\ Worth(Amount[<<num, q>>], m, d)
  BY <1>1, <1>3, <1>4, AmountWorth
<1> QED BY <1>2, <1>5 DEF num, m

\* A quotient, in smaller parts.
LEMMA OverWorth ==
  ASSUME NEW a, NEW n \in Int, NEW d \in Nat \ {0}, Worth(a, n, d), NEW k \in Nat \ {0}
  PROVE  d * k \in Nat \ {0} /\ IsAmount(Over(a, k)) /\ Worth(Over(a, k), n, d * k)
<1> DEFINE p == a[1]
           q == a[2]
<1>1. p \in Int /\ q \in Nat \ {0} /\ p * d = n * q
  BY DEF Worth, Fraction
<1>2. Over(a, k) = Amount[<<p, q * k>>]
  BY DEF Over
<1> HIDE DEF p, q
<1> DEFINE den == q * k
           e == d * k
<1>3. den \in Nat \ {0} /\ e \in Nat \ {0}
  BY <1>1
<1>4. p * e = n * den
  <2>1. p * (d * k) = (p * d) * k
    BY <1>1
  <2>2. (n * q) * k = n * (q * k)
    BY <1>1
  <2> QED BY <1>1, <2>1, <2>2
<1> HIDE DEF den, e
<1>5. IsAmount(Amount[<<p, den>>]) /\ Worth(Amount[<<p, den>>], n, e)
  BY <1>1, <1>3, <1>4, AmountWorth
<1> QED BY <1>2, <1>3, <1>5 DEF den, e

\* An order is kept by a factor above 0.
LEMMA TimesMonotone ==
  ASSUME NEW x \in Int, NEW y \in Int, NEW d \in Nat \ {0}
  PROVE  x <= y <=> x * d <= y * d
<1>1. (y - x) * d = y * d - x * d
  OBVIOUS
<1>2. y - x \in Int /\ (y - x >= 0 => (y - x) * d >= 0) /\ (y - x < 0 => (y - x) * d < 0)
  OBVIOUS
<1>3. x * d \in Int /\ y * d \in Int
  OBVIOUS
<1> QED BY <1>1, <1>2, <1>3

\* Amounts compare as their parts do.
LEMMA AtMostWorth ==
  ASSUME NEW a, NEW b, NEW n \in Int, NEW m \in Int, NEW d \in Nat \ {0},
         Worth(a, n, d), Worth(b, m, d)
  PROVE  AtMost(a, b) <=> n <= m
<1> DEFINE p == a[1]
           q == a[2]
           r == b[1]
           s == b[2]
<1>1. /\ p \in Int /\ q \in Nat \ {0} /\ p * d = n * q
      /\ r \in Int /\ s \in Nat \ {0} /\ r * d = m * s
  BY DEF Worth, Fraction
<1>2. AtMost(a, b) <=> p * s <= r * q
  BY DEF AtMost
<1> HIDE DEF p, q, r, s
<1> DEFINE qs == q * s
           ps == p * s
           rq == r * q
<1>3. qs \in Nat \ {0} /\ ps \in Int /\ rq \in Int
  BY <1>1
<1>4. ps * d = n * qs /\ rq * d = m * qs
  <2>1. (p * s) * d = (p * d) * s /\ (n * q) * s = n * (q * s)
    BY <1>1
  <2>2. (r * q) * d = (r * d) * q /\ (m * s) * q = m * (q * s)
    BY <1>1
  <2> QED BY <1>1, <2>1, <2>2
<1>5. AtMost(a, b) <=> ps <= rq
  BY <1>2
<1> HIDE DEF qs, ps, rq
<1>6. ps <= rq <=> ps * d <= rq * d
  BY <1>3, TimesMonotone
<1>7. n <= m <=> n * qs <= m * qs
  BY <1>3, TimesMonotone
<1> QED BY <1>4, <1>5, <1>6, <1>7

-----------------------------------------------------------------------------
(* Sums of amounts.                                                        *)

\* The sum of the amounts f gives to the elements of S.
TotalOf(f, S) == FoldFunctionOnSet(Plus, Whole(0), f, S)

\* A sum of amounts takes them out one by one, as SumRecursion has it for numbers.
LEMMA TotalRecursion ==
  ASSUME NEW f, NEW S, IsFiniteSet(S)
  PROVE  TotalOf(f, S) = IF S = {} THEN Whole(0) ELSE Plus(f[Pick(S)], TotalOf(f, S \ {Pick(S)}))
<1> DEFINE e(s) == IF s = {} THEN Whole(0) ELSE Plus(f[Pick(s)], TotalOf(f, s \ {Pick(s)}))
           step(T, h) == [s \in SUBSET T |->
                            IF s = {} THEN Whole(0) ELSE Plus(f[Pick(s)], h[s \ {Pick(s)}])]
           bad == {T \in SUBSET S : TotalOf(f, T) # e(T)}
<1>1. ASSUME NEW T PROVE TotalOf(f, T) = (CHOOSE h : h = step(T, h))[T]
  BY DEF TotalOf, FoldFunctionOnSet, MapThenFoldSet, Pick
<1>2. \A s : s # {} => Pick(s) \in s
  BY DEF Pick
<1> SUFFICES ASSUME bad # {} PROVE FALSE
  OBVIOUS
<1>3. PICK T \in bad : \A U \in bad : U \subseteq T => U = T
  <2>1. bad \subseteq SUBSET S
    OBVIOUS
  <2> HIDE DEF bad
  <2> QED BY <2>1, MinimalSubset
<1>4. \A U \in SUBSET T : U # T => TotalOf(f, U) = e(U)
  BY <1>3
<1>5. IsFiniteSet(T)
  BY <1>3, FS_Subset
<1> HIDE DEF e
<1> DEFINE g == [s \in SUBSET T |-> e(s)]
<1>6. g = step(T, g)
  <2>1. ASSUME NEW s \in SUBSET T, s # {}
        PROVE  g[s] = Plus(f[Pick(s)], g[s \ {Pick(s)}])
    <3>1. s \ {Pick(s)} \in SUBSET T /\ s \ {Pick(s)} # T
      BY <1>2, <2>1
    <3>2. g[s \ {Pick(s)}] = TotalOf(f, s \ {Pick(s)})
      BY <1>4, <3>1
    <3> QED BY <2>1, <3>2 DEF e
  <2>2. g[{}] = Whole(0)
    BY DEF e
  <2> HIDE DEF g
  <2>3. g = [s \in SUBSET T |-> g[s]]
    BY DEF g
  <2> QED BY <2>1, <2>2, <2>3, Zenon
<1>7. ASSUME NEW h, h = step(T, h) PROVE h = g
  <2> DEFINE wrong == {s \in SUBSET T : h[s] # g[s]}
  <2>1. ASSUME wrong # {} PROVE FALSE
    <3>1. wrong \subseteq SUBSET T
      OBVIOUS
    <3>2. PICK s \in wrong : \A u \in wrong : u \subseteq s => u = s
      <4> HIDE DEF wrong
      <4> QED BY <1>5, <2>1, <3>1, MinimalSubset
    <3>3. h[s] = (IF s = {} THEN Whole(0) ELSE Plus(f[Pick(s)], h[s \ {Pick(s)}]))
      BY <1>7, <3>1, Zenon
    <3>4. g[s] = (IF s = {} THEN Whole(0) ELSE Plus(f[Pick(s)], g[s \ {Pick(s)}]))
      <4> HIDE DEF g
      <4> QED BY <1>6, <3>1, Zenon
    <3> HIDE DEF g
    <3>5. CASE s = {}
      BY <3>2, <3>3, <3>4, <3>5
    <3>6. CASE s # {}
      <4>1. s \ {Pick(s)} \notin wrong /\ s \ {Pick(s)} \in SUBSET T
        BY <1>2, <3>1, <3>2, <3>6
      <4>2. h[s \ {Pick(s)}] = g[s \ {Pick(s)}]
        BY <4>1
      <4> QED BY <3>2, <3>3, <3>4, <3>6, <4>2
    <3> QED BY <3>5, <3>6
  <2>2. h = [s \in SUBSET T |-> h[s]]
    BY <1>7, Zenon
  <2>3. g = [s \in SUBSET T |-> g[s]]
    OBVIOUS
  <2> HIDE DEF g
  <2> QED BY <2>1, <2>2, <2>3, Zenon
<1>8. (CHOOSE h : h = step(T, h)) = g
  <2> HIDE DEF g
  <2>1. \E h : h = step(T, h)
    BY <1>6
  <2>2. (CHOOSE h : h = step(T, h)) = step(T, CHOOSE h : h = step(T, h))
    <3> HIDE DEF step
    <3> QED BY <2>1, Zenon
  <2> HIDE DEF step
  <2> QED BY <2>2, <1>7
<1>9. TotalOf(f, T) = g[T]
  BY <1>1, <1>8
<1> QED BY <1>3, <1>9

\* Amounts can be added in any order.
LEMMA PlusInAnyOrder ==
  ASSUME NEW a \in Fraction, NEW b \in Fraction, NEW c \in Fraction
  PROVE  Plus(a, Plus(b, c)) = Plus(b, Plus(a, c))
<1>1. PICK d \in Nat \ {0} : \E n, m, l \in Int : Worth(a, n, d) /\ Worth(b, m, d) /\ Worth(c, l, d)
  BY CommonDenominator
<1>2. PICK n \in Int, m \in Int, l \in Int : Worth(a, n, d) /\ Worth(b, m, d) /\ Worth(c, l, d)
  BY <1>1
<1>3. Worth(Plus(b, c), m + l, d) /\ Worth(Plus(a, c), n + l, d)
  BY <1>2, PlusWorth
<1> DEFINE ml == m + l
           nl == n + l
<1>4. ml \in Int /\ nl \in Int /\ n + ml \in Int /\ n + ml = m + nl
  OBVIOUS
<1>5. Worth(Plus(b, c), ml, d) /\ Worth(Plus(a, c), nl, d)
  BY <1>3
<1> HIDE DEF ml, nl
<1>6. /\ IsAmount(Plus(a, Plus(b, c))) /\ Worth(Plus(a, Plus(b, c)), n + ml, d)
      /\ IsAmount(Plus(b, Plus(a, c))) /\ Worth(Plus(b, Plus(a, c)), m + nl, d)
  BY <1>2, <1>4, <1>5, PlusWorth
<1> QED BY <1>4, <1>6, WorthUnique

\* A sum of two amounts is one.
LEMMA PlusIsAmount ==
  ASSUME NEW a \in Fraction, NEW b \in Fraction
  PROVE  IsAmount(Plus(a, b)) /\ Plus(a, b) \in Fraction
<1>1. PICK d \in Nat \ {0} : \E n, m, l \in Int : Worth(a, n, d) /\ Worth(b, m, d) /\ Worth(b, l, d)
  BY CommonDenominator
<1>2. PICK n \in Int, m \in Int : Worth(a, n, d) /\ Worth(b, m, d)
  BY <1>1
<1>3. IsAmount(Plus(a, b))
  BY <1>2, PlusWorth
<1> QED BY <1>3 DEF IsAmount

\* A sum of amounts is one.
LEMMA TotalIsAmount ==
  ASSUME NEW f, NEW S, IsFiniteSet(S), \A x \in S : f[x] \in Fraction
  PROVE  IsAmount(TotalOf(f, S)) /\ TotalOf(f, S) \in Fraction
<1> DEFINE bad == {T \in SUBSET S : ~IsAmount(TotalOf(f, T))}
<1>1. ASSUME bad # {} PROVE FALSE
  <2>1. PICK T \in bad : \A U \in bad : U \subseteq T => U = T
    <3>1. bad \subseteq SUBSET S
      OBVIOUS
    <3> HIDE DEF bad
    <3> QED BY <1>1, <3>1, MinimalSubset
  <2>2. IsFiniteSet(T)
    BY <2>1, FS_Subset
  <2>3. TotalOf(f, T) = IF T = {} THEN Whole(0) ELSE Plus(f[Pick(T)], TotalOf(f, T \ {Pick(T)}))
    BY <2>2, TotalRecursion
  <2>4. CASE T = {}
    <3>1. IsAmount(Whole(0))
      BY WholeWorth
    <3> QED BY <2>1, <2>3, <2>4, <3>1
  <2>5. CASE T # {}
    <3>1. Pick(T) \in T
      BY <2>5 DEF Pick
    <3>2. T \ {Pick(T)} \in SUBSET S /\ T \ {Pick(T)} \notin bad
      BY <2>1, <3>1
    <3>3. IsAmount(TotalOf(f, T \ {Pick(T)})) /\ f[Pick(T)] \in Fraction
      BY <2>1, <3>1, <3>2
    <3>4. IsAmount(TotalOf(f, T))
      <4>1. TotalOf(f, T \ {Pick(T)}) \in Fraction
        BY <3>3 DEF IsAmount
      <4> QED BY <2>3, <2>5, <3>3, <4>1, PlusIsAmount
    <3> QED BY <2>1, <3>4
  <2> QED BY <2>4, <2>5
<1>2. IsAmount(TotalOf(f, S))
  BY <1>1
<1> QED BY <1>2 DEF IsAmount

\* Any amount can be taken out of a sum.
LEMMA TotalTakeOut ==
  ASSUME NEW f, NEW S, IsFiniteSet(S), \A y \in S : f[y] \in Fraction, NEW x \in S
  PROVE  TotalOf(f, S) = Plus(f[x], TotalOf(f, S \ {x}))
<1> DEFINE bad == {T \in SUBSET S :
                     \E y \in T : TotalOf(f, T) # Plus(f[y], TotalOf(f, T \ {y}))}
<1> SUFFICES ASSUME bad # {} PROVE FALSE
  OBVIOUS
<1>1. PICK T \in bad : \A U \in bad : U \subseteq T => U = T
  <2>1. bad \subseteq SUBSET S
    OBVIOUS
  <2> HIDE DEF bad
  <2> QED BY <2>1, MinimalSubset
<1>2. PICK y \in T : TotalOf(f, T) # Plus(f[y], TotalOf(f, T \ {y}))
  BY <1>1
<1> DEFINE c == Pick(T)
<1>3. c \in T
  BY <1>2 DEF Pick
<1>4. TotalOf(f, T) = Plus(f[c], TotalOf(f, T \ {c}))
  <2>1. IsFiniteSet(T)
    BY <1>1, FS_Subset
  <2> QED BY <1>3, <2>1, TotalRecursion
<1> HIDE DEF c
<1>5. c # y
  BY <1>2, <1>4
<1>6. TotalOf(f, T \ {c}) = Plus(f[y], TotalOf(f, (T \ {c}) \ {y}))
  <2>1. T \ {c} \notin bad /\ T \ {c} \in SUBSET S /\ y \in T \ {c}
    BY <1>1, <1>3, <1>5
  <2> QED BY <2>1
<1>7. TotalOf(f, T \ {y}) = Plus(f[c], TotalOf(f, (T \ {y}) \ {c}))
  <2>1. T \ {y} \notin bad /\ T \ {y} \in SUBSET S /\ c \in T \ {y}
    BY <1>1, <1>3, <1>5
  <2> QED BY <2>1
<1>8. (T \ {c}) \ {y} = (T \ {y}) \ {c}
  OBVIOUS
<1>9. TotalOf(f, (T \ {y}) \ {c}) \in Fraction /\ f[c] \in Fraction /\ f[y] \in Fraction
  <2>1. IsFiniteSet((T \ {y}) \ {c}) /\ \A z \in (T \ {y}) \ {c} : f[z] \in Fraction
    BY <1>1, FS_Subset
  <2> QED BY <1>1, <1>3, <2>1, TotalIsAmount
<1>10. Plus(f[c], Plus(f[y], TotalOf(f, (T \ {y}) \ {c})))
         = Plus(f[y], Plus(f[c], TotalOf(f, (T \ {y}) \ {c})))
  BY <1>9, PlusInAnyOrder
<1> QED BY <1>2, <1>4, <1>6, <1>7, <1>8, <1>10, Zenon

\* Equal amounts have an equal sum.
LEMMA TotalSame ==
  ASSUME NEW f, NEW g, NEW S, IsFiniteSet(S), \A x \in S : f[x] = g[x]
  PROVE  TotalOf(f, S) = TotalOf(g, S)
<1> DEFINE bad == {T \in SUBSET S : TotalOf(f, T) # TotalOf(g, T)}
<1> SUFFICES ASSUME bad # {} PROVE FALSE
  OBVIOUS
<1>1. PICK T \in bad : \A U \in bad : U \subseteq T => U = T
  <2>1. bad \subseteq SUBSET S
    OBVIOUS
  <2> HIDE DEF bad
  <2> QED BY <2>1, MinimalSubset
<1>2. IsFiniteSet(T)
  BY <1>1, FS_Subset
<1>3. TotalOf(f, T) = IF T = {} THEN Whole(0) ELSE Plus(f[Pick(T)], TotalOf(f, T \ {Pick(T)}))
  BY <1>2, TotalRecursion
<1>4. TotalOf(g, T) = IF T = {} THEN Whole(0) ELSE Plus(g[Pick(T)], TotalOf(g, T \ {Pick(T)}))
  BY <1>2, TotalRecursion
<1>5. T # {}
  BY <1>1, <1>3, <1>4
<1>6. Pick(T) \in T
  BY <1>5 DEF Pick
<1>7. T \ {Pick(T)} \in SUBSET S /\ T \ {Pick(T)} \notin bad
  BY <1>1, <1>6
<1>8. f[Pick(T)] = g[Pick(T)]
  BY <1>1, <1>6
<1> QED BY <1>1, <1>3, <1>4, <1>5, <1>7, <1>8

\* When f and g differ at x only, the rest of their sums is one amount.
LEMMA TotalOneChanged ==
  ASSUME NEW f, NEW g, NEW S, IsFiniteSet(S), NEW x \in S,
         \A y \in S : f[y] \in Fraction, g[x] \in Fraction,
         \A y \in S \ {x} : g[y] = f[y]
  PROVE  \E rest \in Fraction : TotalOf(f, S) = Plus(f[x], rest) /\ TotalOf(g, S) = Plus(g[x], rest)
<1>1. IsFiniteSet(S \ {x})
  BY FS_Subset
<1>2. TotalOf(f, S \ {x}) = TotalOf(g, S \ {x})
  BY <1>1, TotalSame
<1>3. TotalOf(f, S \ {x}) \in Fraction
  BY <1>1, TotalIsAmount
<1>4. TotalOf(f, S) = Plus(f[x], TotalOf(f, S \ {x}))
  BY TotalTakeOut
<1>5. TotalOf(g, S) = Plus(g[x], TotalOf(g, S \ {x}))
  <2>1. \A y \in S : g[y] \in Fraction
    OBVIOUS
  <2> QED BY <2>1, TotalTakeOut
<1> QED BY <1>2, <1>3, <1>4, <1>5

\* The sum of nothings is nothing.
LEMMA TotalOfNothing ==
  ASSUME NEW f, NEW S, IsFiniteSet(S), \A x \in S : f[x] = Whole(0)
  PROVE  TotalOf(f, S) = Whole(0)
<1>0. Plus(Whole(0), Whole(0)) = Whole(0)
  <2>1. IsAmount(Whole(0)) /\ Worth(Whole(0), 0, 1)
    BY WholeWorth
  <2>2. IsAmount(Plus(Whole(0), Whole(0))) /\ Worth(Plus(Whole(0), Whole(0)), 0, 1)
    BY <2>1, PlusWorth
  <2> QED BY <2>1, <2>2, WorthUnique
<1> DEFINE bad == {T \in SUBSET S : TotalOf(f, T) # Whole(0)}
<1> SUFFICES ASSUME bad # {} PROVE FALSE
  OBVIOUS
<1>1. PICK T \in bad : \A U \in bad : U \subseteq T => U = T
  <2>1. bad \subseteq SUBSET S
    OBVIOUS
  <2> HIDE DEF bad
  <2> QED BY <2>1, MinimalSubset
<1>2. IsFiniteSet(T)
  BY <1>1, FS_Subset
<1>3. TotalOf(f, T) = IF T = {} THEN Whole(0) ELSE Plus(f[Pick(T)], TotalOf(f, T \ {Pick(T)}))
  BY <1>2, TotalRecursion
<1>4. T # {}
  BY <1>1, <1>3
<1>5. Pick(T) \in T
  BY <1>4 DEF Pick
<1>6. T \ {Pick(T)} \in SUBSET S /\ T \ {Pick(T)} \notin bad
  BY <1>1, <1>5
<1>7. f[Pick(T)] = Whole(0) /\ TotalOf(f, T \ {Pick(T)}) = Whole(0)
  BY <1>1, <1>5, <1>6
<1> QED BY <1>0, <1>1, <1>3, <1>4, <1>7

-----------------------------------------------------------------------------
(* The balance of a fill, branch by branch.                                *)

\* The balance of one fill: what the position costs more is what was spent on
\* it and the profit taken out of it.  Amounts are written in parts of 1 / d.
Balanced(average, shares, profit, average2, shares2, profit2, spent) ==
  \E d \in Nat \ {0} : \E a, r, a2, r2 \in Int :
    /\ Worth(average, a, d) /\ Worth(profit, r, d)
    /\ Worth(average2, a2, d) /\ Worth(profit2, r2, d)
    /\ a2 * shares2 - a * shares = spent * d + (r2 - r)
    /\ a >= 0 => a2 >= 0

\* What Hold keeps for a ticker.
Position == [net_shares : Int, avg_cost : Fraction]

\* A position opened from nothing.
LEMMA OpenedBalances ==
  ASSUME NEW average \in Fraction, NEW profit \in Fraction, NEW volume \in Int, NEW price \in Nat
  PROVE  Balanced(average, 0, profit, Whole(price), volume, profit, price * volume)
<1>1. PICK d \in Nat \ {0} : \E n, m, l \in Int : Worth(average, n, d) /\ Worth(profit, m, d) /\ Worth(profit, l, d)
  BY CommonDenominator
<1>2. PICK a \in Int, r \in Int : Worth(average, a, d) /\ Worth(profit, r, d)
  BY <1>1
<1> DEFINE a2 == price * d
<1>3. a2 \in Int /\ a2 >= 0 /\ Worth(Whole(price), a2, d)
  BY WholeWorth
<1>4. a2 * volume - a * 0 = (price * volume) * d + (r - r)
  OBVIOUS
<1> HIDE DEF a2
<1> QED BY <1>2, <1>3, <1>4 DEF Balanced

\* Numbers of one sign, and their sizes.
LEMMA AbsOfSum ==
  ASSUME NEW n \in Int, NEW volume \in Int, SameDirection(n, volume)
  PROVE  /\ Abs(n) \in Nat \ {0} /\ Abs(volume) \in Nat \ {0} /\ Abs(n + volume) \in Nat \ {0}
         /\ \/ /\ Abs(n) = n /\ Abs(volume) = volume /\ Abs(n + volume) = n + volume
            \/ /\ Abs(n) = -n /\ Abs(volume) = -volume /\ Abs(n + volume) = -(n + volume)
BY DEF Abs, SameDirection

\* The weighted average, times the shares, is the old cost and what was spent.
LEMMA AverageArithmetic ==
  ASSUME NEW a \in Int, NEW d \in Nat \ {0}, NEW n \in Int, NEW volume \in Int, NEW price \in Nat,
         NEW size \in Int, NEW more \in Int, NEW k \in Int,
         \/ size = n /\ more = volume /\ k = n + volume
         \/ size = -n /\ more = -volume /\ k = -(n + volume)
  PROVE  (a * size + (price * more) * d) * (n + volume)
              = (a * k) * n + (price * volume) * (d * k)
<1>1. CASE size = n /\ more = volume /\ k = n + volume
  BY <1>1
<1>2. CASE size = -n /\ more = -volume /\ k = -(n + volume)
  BY <1>2
<1> QED BY <1>1, <1>2

\* The average after an addition, in parts of 1 / (d * |new shares|).
LEMMA UpdatedAverageWorth ==
  ASSUME NEW old \in Position, NEW volume \in Int, NEW price \in Nat,
         SameDirection(old.net_shares, volume),
         NEW a \in Int, NEW d \in Nat \ {0}, Worth(old.avg_cost, a, d)
  PROVE  LET k == Abs(old.net_shares + volume)
             a2 == a * Abs(old.net_shares) + (price * Abs(volume)) * d
         IN  /\ k \in Nat \ {0} /\ d * k \in Nat \ {0} /\ a2 \in Int
             /\ IsAmount(UpdatedAverage(old, volume, price))
             /\ Worth(UpdatedAverage(old, volume, price), a2, d * k)
<1> DEFINE n == old.net_shares
           k == Abs(n + volume)
           b == Abs(n)
           c == price * Abs(volume)
<1>1. n \in Int /\ SameDirection(n, volume)
  BY DEF Position
<1>2. b \in Int /\ Abs(volume) \in Int /\ k \in Nat \ {0}
  <2> HIDE DEF n
  <2> QED BY <1>1, AbsOfSum
<1>3. c \in Int
  <2>1. \A x \in Int : price * x \in Int
    OBVIOUS
  <2> QED BY <1>2, <2>1
<1>4. UpdatedAverage(old, volume, price) = Over(Plus(Times(old.avg_cost, b), Whole(c)), k)
  BY DEF UpdatedAverage
<1> HIDE DEF n, k, b, c
<1>5. a * b \in Int /\ Worth(Times(old.avg_cost, b), a * b, d)
  BY <1>2, TimesWorth
<1>6. c * d \in Int /\ Worth(Whole(c), c * d, d)
  BY <1>3, WholeWorth
<1>7. Worth(Plus(Times(old.avg_cost, b), Whole(c)), a * b + c * d, d)
  BY <1>5, <1>6, PlusWorth
<1> DEFINE a2 == a * b + c * d
           sum == Plus(Times(old.avg_cost, b), Whole(c))
<1>8. a2 \in Int
  BY <1>5, <1>6
<1>9. Worth(sum, a2, d)
  BY <1>7
<1> HIDE DEF a2, sum
<1>10. d * k \in Nat \ {0} /\ IsAmount(Over(sum, k)) /\ Worth(Over(sum, k), a2, d * k)
  BY <1>2, <1>8, <1>9, OverWorth
<1> QED BY <1>2, <1>4, <1>8, <1>10 DEF n, k, b, c, a2, sum

\* A position added to.
LEMMA AddedBalances ==
  ASSUME NEW old \in Position, NEW profit \in Fraction, NEW volume \in Int, NEW price \in Nat,
         SameDirection(old.net_shares, volume)
  PROVE  /\ IsAmount(UpdatedAverage(old, volume, price))
         /\ Balanced(old.avg_cost, old.net_shares, profit,
                     UpdatedAverage(old, volume, price), old.net_shares + volume, profit,
                     price * volume)
<1> DEFINE n == old.net_shares
           average == old.avg_cost
           average2 == UpdatedAverage(old, volume, price)
<1>1. n \in Int /\ average \in Fraction /\ SameDirection(n, volume)
  BY DEF Position
<1>2. PICK d \in Nat \ {0} : \E x, y, z \in Int : Worth(average, x, d) /\ Worth(profit, y, d) /\ Worth(profit, z, d)
  BY <1>1, CommonDenominator
<1>3. PICK a \in Int, r \in Int : Worth(average, a, d) /\ Worth(profit, r, d)
  BY <1>2
<1> DEFINE k == Abs(n + volume)
           a2 == a * Abs(n) + (price * Abs(volume)) * d
<1>4. /\ k \in Nat \ {0} /\ d * k \in Nat \ {0} /\ a2 \in Int
      /\ IsAmount(average2) /\ Worth(average2, a2, d * k)
  BY <1>3, UpdatedAverageWorth
<1>5. a2 * (n + volume) = (a * k) * n + (price * volume) * (d * k)
  <2> DEFINE size == Abs(n)
             more == Abs(volume)
  <2> HIDE DEF n
  <2>1. /\ size \in Int /\ more \in Int /\ k \in Int
        /\ \/ size = n /\ more = volume /\ k = n + volume
           \/ size = -n /\ more = -volume /\ k = -(n + volume)
    BY <1>1, AbsOfSum
  <2> HIDE DEF size, more, k
  <2>2. (a * size + (price * more) * d) * (n + volume) = (a * k) * n + (price * volume) * (d * k)
    BY <1>1, <2>1, AverageArithmetic
  <2> QED BY <2>2 DEF size, more
<1>6. a >= 0 => a2 >= 0
  <2>1. Abs(n) \in Nat /\ Abs(volume) \in Nat
    <3> HIDE DEF n
    <3> QED BY <1>1, AbsOfSum
  <2> DEFINE x == Abs(n)
             y == Abs(volume)
  <2> HIDE DEF x, y
  <2>2. x \in Nat /\ y \in Nat
    BY <2>1 DEF x, y
  <2>3. a >= 0 => a * x >= 0
    BY <2>2
  <2>4. (price * y) * d >= 0 /\ a * x \in Int /\ (price * y) * d \in Int
    BY <2>2
  <2>5. a >= 0 => a * x + (price * y) * d >= 0
    BY <2>3, <2>4
  <2> QED BY <2>5 DEF x, y
<1> HIDE DEF n, average, average2, k, a2
<1>7. /\ a * k \in Int /\ Worth(average, a * k, d * k)
      /\ r * k \in Int /\ Worth(profit, r * k, d * k)
  BY <1>3, <1>4, WorthInParts
<1>8. a2 * (n + volume) - (a * k) * n = (price * volume) * (d * k) + (r * k - r * k)
  <2>1. (a * k) * n \in Int /\ (price * volume) * (d * k) \in Int /\ r * k \in Int
    BY <1>1, <1>4
  <2> QED BY <1>5, <2>1
<1>9. a * k >= 0 => a2 >= 0
  <2>1. a < 0 => a * k < 0
    BY <1>4
  <2> QED BY <1>4, <1>6, <2>1
<1>10. Balanced(average, n, profit, average2, n + volume, profit, price * volume)
  BY <1>4, <1>7, <1>8, <1>9 DEF Balanced
<1> QED BY <1>4, <1>10 DEF n, average, average2

\* The shares closed, with the sign of the position.
LEMMA PnlWorth ==
  ASSUME NEW old \in Position, NEW volume \in Int, NEW price \in Nat, NEW closed \in Int,
         Sign(old.net_shares) * Min2(Abs(old.net_shares), Abs(volume)) = closed,
         NEW a \in Int, NEW d \in Nat \ {0}, Worth(old.avg_cost, a, d)
  PROVE  (price * d - a) * closed \in Int
         /\ Worth(PnlForClosed(old, volume, price), (price * d - a) * closed, d)
<1>1. PnlForClosed(old, volume, price) = Times(Minus(Whole(price), old.avg_cost), closed)
  BY DEF PnlForClosed
<1> DEFINE p == price * d
           g == p - a
<1>2. p \in Int /\ g \in Int
  OBVIOUS
<1>3. Worth(Whole(price), p, d)
  BY WholeWorth
<1> HIDE DEF p
<1>4. Worth(Minus(Whole(price), old.avg_cost), p - a, d)
  BY <1>2, <1>3, MinusWorth
<1> HIDE DEF g
<1>5. Worth(Minus(Whole(price), old.avg_cost), g, d)
  BY <1>4 DEF g
<1>6. g * closed \in Int /\ Worth(Times(Minus(Whole(price), old.avg_cost), closed), g * closed, d)
  BY <1>2, <1>5, TimesWorth
<1> QED BY <1>1, <1>6 DEF g, p

\* A position reduced, in part or whole: the profit taken is what the shares sold
\* fetch above their cost.
LEMMA ReducedBalances ==
  ASSUME NEW old \in Position, NEW profit \in Fraction, NEW volume \in Int, NEW price \in Nat,
         old.net_shares # 0, ~SameDirection(old.net_shares, volume),
         Abs(volume) <= Abs(old.net_shares)
  PROVE  LET new_shares == old.net_shares + volume
             profit2 == Plus(profit, PnlForClosed(old, volume, price))
         IN  /\ IsAmount(profit2)
             /\ Balanced(old.avg_cost, old.net_shares, profit,
                         IF new_shares = 0 THEN Whole(0) ELSE old.avg_cost, new_shares, profit2,
                         price * volume)
<1> DEFINE n == old.net_shares
           average == old.avg_cost
           profit2 == Plus(profit, PnlForClosed(old, volume, price))
<1>1. n \in Int /\ average \in Fraction
  BY DEF Position
<1>2. Sign(n) * Min2(Abs(n), Abs(volume)) = -volume
  <2> HIDE DEF n
  <2> QED BY <1>1 DEF Sign, Min2, Abs, SameDirection, n
<1>3. PICK d \in Nat \ {0} : \E x, y, z \in Int : Worth(average, x, d) /\ Worth(profit, y, d) /\ Worth(profit, z, d)
  BY <1>1, CommonDenominator
<1>4. PICK a \in Int, r \in Int : Worth(average, a, d) /\ Worth(profit, r, d)
  BY <1>3
<1> DEFINE gain == (price * d - a) * (-volume)
<1>5. gain \in Int /\ Worth(PnlForClosed(old, volume, price), gain, d)
  <2>1. -volume \in Int
    OBVIOUS
  <2> QED BY <1>2, <1>4, <2>1, PnlWorth
<1>6. r + gain \in Int /\ IsAmount(profit2) /\ Worth(profit2, r + gain, d)
  <2> HIDE DEF gain
  <2> QED BY <1>4, <1>5, PlusWorth
<1> DEFINE a2 == IF n + volume = 0 THEN 0 ELSE a
           average2 == IF n + volume = 0 THEN Whole(0) ELSE average
<1>7. a2 \in Int /\ Worth(average2, a2, d) /\ (a >= 0 => a2 >= 0)
  <2>1. Worth(Whole(0), 0, d)
    <3>1. 0 * d = 0
      OBVIOUS
    <3> QED BY <3>1, WholeWorth
  <2> QED BY <1>4, <2>1
<1>8. a2 * (n + volume) - a * n = (price * volume) * d + ((r + gain) - r)
  <2>1. a2 * (n + volume) = a * (n + volume)
    <3> HIDE DEF n
    <3>1. n + volume = 0 => a * (n + volume) = 0 /\ a2 * (n + volume) = 0
      BY <1>1
    <3> QED BY <3>1
  <2>2. a * (n + volume) - a * n = a * volume
    <3> HIDE DEF n
    <3> QED BY <1>1
  <2>3. (price * volume) * d + gain = a * volume
    OBVIOUS
  <2>4. (price * volume) * d \in Int
    OBVIOUS
  <2> HIDE DEF gain, a2, n
  <2>5. (r + gain) - r = gain
    BY <1>5
  <2> QED BY <2>1, <2>2, <2>3, <2>5
<1> HIDE DEF gain, a2, average2, n, average, profit2
<1>9. Balanced(average, n, profit, average2, n + volume, profit2, price * volume)
  BY <1>4, <1>6, <1>7, <1>8 DEF Balanced
<1> QED BY <1>6, <1>9 DEF n, average, average2, profit2

\* A position closed and opened on the other side.
LEMMA FlippedBalances ==
  ASSUME NEW old \in Position, NEW profit \in Fraction, NEW volume \in Int, NEW price \in Nat,
         old.net_shares # 0, ~SameDirection(old.net_shares, volume),
         Abs(volume) > Abs(old.net_shares)
  PROVE  LET profit2 == Plus(profit, PnlForClosed(old, volume, price))
         IN  /\ IsAmount(profit2)
             /\ Balanced(old.avg_cost, old.net_shares, profit,
                         Whole(price), old.net_shares + volume, profit2, price * volume)
<1> DEFINE n == old.net_shares
           average == old.avg_cost
           profit2 == Plus(profit, PnlForClosed(old, volume, price))
<1>1. n \in Int /\ average \in Fraction
  BY DEF Position
<1>2. Sign(n) * Min2(Abs(n), Abs(volume)) = n
  <2> HIDE DEF n
  <2> QED BY <1>1 DEF Sign, Min2, Abs, SameDirection, n
<1>3. PICK d \in Nat \ {0} : \E x, y, z \in Int : Worth(average, x, d) /\ Worth(profit, y, d) /\ Worth(profit, z, d)
  BY <1>1, CommonDenominator
<1>4. PICK a \in Int, r \in Int : Worth(average, a, d) /\ Worth(profit, r, d)
  BY <1>3
<1> DEFINE gain == (price * d - a) * n
           a2 == price * d
<1>5. gain \in Int /\ Worth(PnlForClosed(old, volume, price), gain, d)
  BY <1>1, <1>2, <1>4, PnlWorth
<1>6. r + gain \in Int /\ IsAmount(profit2) /\ Worth(profit2, r + gain, d)
  <2> DEFINE pnl == PnlForClosed(old, volume, price)
  <2> HIDE DEF gain, pnl
  <2>1. Worth(pnl, gain, d)
    BY <1>5 DEF pnl
  <2>2. IsAmount(Plus(profit, pnl)) /\ Worth(Plus(profit, pnl), r + gain, d)
    BY <1>4, <1>5, <2>1, PlusWorth
  <2> QED BY <1>5, <2>2 DEF pnl
<1>7. a2 \in Int /\ a2 >= 0 /\ Worth(Whole(price), a2, d)
  BY WholeWorth
<1>8. a2 * (n + volume) - a * n = (price * volume) * d + ((r + gain) - r)
  <2>1. a2 * (n + volume) - a * n = (price * volume) * d + gain
    <3> HIDE DEF n
    <3> QED BY <1>1
  <2> HIDE DEF gain, a2, n
  <2>2. (r + gain) - r = gain
    BY <1>5
  <2> QED BY <2>1, <2>2
<1> HIDE DEF gain, a2, n, average, profit2
<1>9. Balanced(average, n, profit, Whole(price), n + volume, profit2, price * volume)
  BY <1>4, <1>6, <1>7, <1>8 DEF Balanced
<1> QED BY <1>6, <1>9 DEF n, average, profit2

-----------------------------------------------------------------------------
(* What Trade does, and the type.                                          *)

\* What every branch of Trade does.
TradeEffects(ticker, volume, price) ==
  LET old == positions[ticker]
      new == positions'[ticker]
  IN  /\ new \in Position /\ positions' = [positions EXCEPT ![ticker] = new]
      /\ new.net_shares = old.net_shares + volume
      /\ IsAmount(new.avg_cost) /\ IsAmount(realized_pnl')
      /\ cash_balance' = cash_balance - price * volume
      /\ trades < MaxTrades /\ trades' = trades + 1
      /\ paid' \in [Ticker -> SUBSET Price]
      /\ Balanced(old.avg_cost, old.net_shares, realized_pnl,
                  new.avg_cost, new.net_shares, realized_pnl', price * volume)

\* What is known of the numbers a fill works with.
LEMMA NumbersOfTrade ==
  ASSUME NEW ticker \in Ticker, NEW volume \in Volume, NEW price \in Price, TypeOK
  PROVE  /\ volume \in Int /\ price \in Nat
         /\ positions[ticker] \in Position /\ positions[ticker].net_shares \in Int
         /\ positions[ticker].avg_cost \in Fraction /\ IsAmount(positions[ticker].avg_cost)
         /\ realized_pnl \in Fraction /\ IsAmount(realized_pnl)
BY DEF TypeOK, Position, IsAmount

\* What Hold does to a well-formed position.
LEMMA Held ==
  ASSUME NEW ticker \in Ticker, NEW n \in Int, NEW average \in Fraction, TypeOK,
         Hold(ticker, n, average)
  PROVE  /\ positions'[ticker] = [net_shares |-> n, avg_cost |-> average]
         /\ positions'[ticker] \in Position
         /\ positions' = [positions EXCEPT ![ticker] = positions'[ticker]]
BY DEF Hold, TypeOK, Position

\* A whole number is an amount.
LEMMA WholeIsAmount ==
  ASSUME NEW n \in Int
  PROVE  IsAmount(Whole(n)) /\ Whole(n) \in Fraction
<1>1. IsAmount(Whole(n))
  BY WholeWorth
<1> QED BY <1>1 DEF IsAmount

\* One case per branch.
LEMMA TradeHasEffects ==
  ASSUME NEW ticker \in Ticker, NEW volume \in Volume, NEW price \in Price, TypeOK,
         Trade(ticker, volume, price)
  PROVE  TradeEffects(ticker, volume, price)
<1> DEFINE old == positions[ticker]
           new == positions'[ticker]
           n == old.net_shares
<1>1. /\ volume \in Int /\ price \in Nat /\ old \in Position /\ n \in Int /\ n + volume \in Int
      /\ old.avg_cost \in Fraction /\ IsAmount(old.avg_cost)
      /\ realized_pnl \in Fraction /\ IsAmount(realized_pnl)
  BY NumbersOfTrade
<1>2. /\ IsAmount(Whole(price)) /\ Whole(price) \in Fraction
      /\ IsAmount(Whole(0)) /\ Whole(0) \in Fraction
  BY <1>1, WholeIsAmount
<1>3. paid \in [Ticker -> SUBSET Price]
  BY DEF TypeOK
<1>4. CASE OpenPosition(ticker, volume, price)
  <2>1. n = 0 /\ n + volume = volume
    BY <1>1, <1>4 DEF OpenPosition
  <2>2. /\ new = [net_shares |-> volume, avg_cost |-> Whole(price)] /\ new \in Position
        /\ positions' = [positions EXCEPT ![ticker] = new]
    BY <1>1, <1>2, <1>4, Held DEF OpenPosition
  <2>3. Balanced(old.avg_cost, 0, realized_pnl, Whole(price), volume, realized_pnl, price * volume)
    BY <1>1, OpenedBalances
  <2>4. realized_pnl' = realized_pnl /\ paid' = [paid EXCEPT ![ticker] = {price}] /\ Pay(volume, price)
    BY <1>4 DEF OpenPosition
  <2>5. paid' \in [Ticker -> SUBSET Price]
    BY <1>3, <2>4
  <2> QED BY <1>1, <1>2, <2>1, <2>2, <2>3, <2>4, <2>5 DEF TradeEffects, Pay
<1>5. CASE AddToPosition(ticker, volume, price)
  <2> DEFINE average2 == UpdatedAverage(old, volume, price)
  <2>1. /\ SameDirection(n, volume) /\ realized_pnl' = realized_pnl /\ Pay(volume, price)
        /\ Hold(ticker, n + volume, average2) /\ paid' = [paid EXCEPT ![ticker] = @ \cup {price}]
    BY <1>5 DEF AddToPosition
  <2>2. /\ IsAmount(average2)
        /\ Balanced(old.avg_cost, n, realized_pnl, average2, n + volume, realized_pnl, price * volume)
    BY <1>1, <2>1, AddedBalances
  <2> HIDE DEF average2
  <2>3. average2 \in Fraction
    BY <2>2 DEF IsAmount
  <2>4. /\ new = [net_shares |-> n + volume, avg_cost |-> average2] /\ new \in Position
        /\ positions' = [positions EXCEPT ![ticker] = new]
    BY <1>1, <2>1, <2>3, Held
  <2>5. paid' \in [Ticker -> SUBSET Price]
    BY <1>3, <2>1
  <2> QED BY <1>1, <2>1, <2>2, <2>4, <2>5 DEF TradeEffects, Pay
<1>6. CASE ReducePosition(ticker, volume, price)
  <2> DEFINE average2 == IF n + volume = 0 THEN Whole(0) ELSE old.avg_cost
             profit2 == Plus(realized_pnl, PnlForClosed(old, volume, price))
  <2>1. /\ n # 0 /\ ~SameDirection(n, volume) /\ Abs(volume) <= Abs(n)
        /\ realized_pnl' = profit2 /\ Pay(volume, price)
        /\ Hold(ticker, n + volume, average2) /\ paid' = paid
    BY <1>6 DEF ReducePosition
  <2>2. /\ IsAmount(profit2)
        /\ Balanced(old.avg_cost, n, realized_pnl, average2, n + volume, profit2, price * volume)
    BY <1>1, <2>1, ReducedBalances
  <2>3. average2 \in Fraction /\ IsAmount(average2)
    BY <1>1, <1>2
  <2> HIDE DEF average2, profit2
  <2>4. /\ new = [net_shares |-> n + volume, avg_cost |-> average2] /\ new \in Position
        /\ positions' = [positions EXCEPT ![ticker] = new]
    BY <1>1, <2>1, <2>3, Held
  <2> QED BY <1>1, <1>3, <2>1, <2>2, <2>3, <2>4 DEF TradeEffects, Pay
<1>7. CASE FlipPosition(ticker, volume, price)
  <2> DEFINE profit2 == Plus(realized_pnl, PnlForClosed(old, volume, price))
  <2>1. /\ n # 0 /\ ~SameDirection(n, volume) /\ Abs(volume) > Abs(n)
        /\ realized_pnl' = profit2 /\ Pay(volume, price)
        /\ Hold(ticker, n + volume, Whole(price)) /\ paid' = [paid EXCEPT ![ticker] = {price}]
    BY <1>7 DEF FlipPosition
  <2>2. /\ IsAmount(profit2)
        /\ Balanced(old.avg_cost, n, realized_pnl, Whole(price), n + volume, profit2, price * volume)
    BY <1>1, <2>1, FlippedBalances
  <2> HIDE DEF profit2
  <2>3. /\ new = [net_shares |-> n + volume, avg_cost |-> Whole(price)] /\ new \in Position
        /\ positions' = [positions EXCEPT ![ticker] = new]
    BY <1>1, <1>2, <2>1, Held
  <2>4. paid' \in [Ticker -> SUBSET Price]
    BY <1>3, <2>1
  <2> QED BY <1>1, <1>2, <2>1, <2>2, <2>3, <2>4 DEF TradeEffects, Pay
<1> QED BY <1>4, <1>5, <1>6, <1>7 DEF Trade

\* No position, no average.
LEMMA InitTypeOK == Init => TypeOK
<1> SUFFICES ASSUME Init PROVE TypeOK
  OBVIOUS
<1>1. IsAmount(Whole(0)) /\ Whole(0) \in Fraction
  BY WholeIsAmount
<1>2. AtMost(Whole(0), Whole(0))
  BY DEF AtMost, Whole
<1> QED BY <1>1, <1>2 DEF Init, TypeOK

\* An average stays an amount that is not negative.
LEMMA NextTypeOK == TypeOK /\ [Next]_vars => TypeOK'
<1> SUFFICES ASSUME TypeOK, [Next]_vars PROVE TypeOK'
  OBVIOUS
<1>1. CASE UNCHANGED vars
  BY <1>1 DEF vars, TypeOK
<1>2. ASSUME NEW ticker \in Ticker, NEW volume \in Volume, NEW price \in Price,
             Trade(ticker, volume, price)
      PROVE  TypeOK'
  <2> DEFINE old == positions[ticker]
             new == positions'[ticker]
  <2>1. /\ volume \in Int /\ price \in Nat /\ old.avg_cost \in Fraction
        /\ cash_balance \in Int /\ trades \in 0..MaxTrades
        /\ positions \in [Ticker -> Position]
        /\ \A other \in Ticker : /\ IsAmount(positions[other].avg_cost)
                                 /\ AtMost(Whole(0), positions[other].avg_cost)
    BY NumbersOfTrade DEF TypeOK, Position
  <2>2. TradeEffects(ticker, volume, price)
    BY <1>2, TradeHasEffects
  <2>3. /\ new \in Position /\ positions' = [positions EXCEPT ![ticker] = new]
        /\ IsAmount(new.avg_cost) /\ IsAmount(realized_pnl') /\ paid' \in [Ticker -> SUBSET Price]
        /\ cash_balance' = cash_balance - price * volume
        /\ trades < MaxTrades /\ trades' = trades + 1
        /\ Balanced(old.avg_cost, old.net_shares, realized_pnl,
                    new.avg_cost, new.net_shares, realized_pnl', price * volume)
    BY <2>2 DEF TradeEffects
  <2>4. AtMost(Whole(0), new.avg_cost)
    <3>1. PICK d \in Nat \ {0} : \E a, r, a2, r2 \in Int :
            Worth(old.avg_cost, a, d) /\ Worth(new.avg_cost, a2, d) /\ (a >= 0 => a2 >= 0)
      BY <2>3 DEF Balanced
    <3>2. PICK a \in Int, a2 \in Int :
            Worth(old.avg_cost, a, d) /\ Worth(new.avg_cost, a2, d) /\ (a >= 0 => a2 >= 0)
      BY <3>1
    <3>3. Worth(Whole(0), 0, d)
      <4>1. 0 * d = 0
        OBVIOUS
      <4> QED BY <4>1, WholeWorth
    <3>4. a >= 0
      <4>1. AtMost(Whole(0), old.avg_cost) <=> 0 <= a
        BY <3>2, <3>3, AtMostWorth
      <4> QED BY <2>1, <4>1
    <3>5. AtMost(Whole(0), new.avg_cost) <=> 0 <= a2
      BY <3>2, <3>3, AtMostWorth
    <3> QED BY <3>2, <3>4, <3>5
  <2>5. positions' \in [Ticker -> Position]
    BY <2>1, <2>3
  <2>6. ASSUME NEW other \in Ticker
        PROVE  IsAmount(positions'[other].avg_cost) /\ AtMost(Whole(0), positions'[other].avg_cost)
    <3>1. CASE other = ticker
      BY <2>3, <2>4, <3>1
    <3>2. CASE other # ticker
      <4>1. positions'[other] = positions[other]
        BY <2>1, <2>3, <3>2
      <4> QED BY <2>1, <4>1
    <3> QED BY <3>1, <3>2
  <2>7. cash_balance' \in Int
    <3>1. price * volume \in Int
      BY <2>1
    <3> QED BY <2>1, <2>3, <3>1
  <2>8. trades' \in 0..MaxTrades
    BY <2>1, <2>3
  <2> QED BY <2>3, <2>5, <2>6, <2>7, <2>8 DEF TypeOK, Position
<1> QED BY <1>1, <1>2 DEF Next

\* TypeOK, for any tickers, volumes, prices, cash and number of fills: amounts stay
\* in lowest terms and averages are never negative, long or short.
THEOREM PortfolioTypes == Spec => []TypeOK
<1> QED BY InitTypeOK, NextTypeOK, PTL DEF Spec

-----------------------------------------------------------------------------
(* Cash, positions and profit.                                             *)

\* An amount is worth one number of parts.
LEMMA WorthIsOne ==
  ASSUME NEW x, NEW n \in Int, NEW m \in Int, NEW d \in Nat \ {0}, Worth(x, n, d), Worth(x, m, d)
  PROVE  n = m
<1>1. x[2] \in Nat \ {0} /\ n * x[2] = m * x[2]
  BY DEF Worth, Fraction
<1> QED BY <1>1, Cancel

\* A balance can be written in parts in which another amount is whole as well.
LEMMA BalancedWith ==
  ASSUME NEW average, NEW shares \in Int, NEW profit, NEW average2, NEW shares2 \in Int, NEW profit2,
         NEW spent \in Int, NEW rest \in Fraction,
         Balanced(average, shares, profit, average2, shares2, profit2, spent)
  PROVE  \E d \in Nat \ {0} : \E a, r, a2, r2, l \in Int :
           /\ Worth(average, a, d) /\ Worth(profit, r, d)
           /\ Worth(average2, a2, d) /\ Worth(profit2, r2, d) /\ Worth(rest, l, d)
           /\ a2 * shares2 - a * shares = spent * d + (r2 - r)
<1>1. PICK d \in Nat \ {0} : \E a, r, a2, r2 \in Int :
        /\ Worth(average, a, d) /\ Worth(profit, r, d)
        /\ Worth(average2, a2, d) /\ Worth(profit2, r2, d)
        /\ a2 * shares2 - a * shares = spent * d + (r2 - r)
  BY DEF Balanced
<1>2. PICK a \in Int, r \in Int, a2 \in Int, r2 \in Int :
        /\ Worth(average, a, d) /\ Worth(profit, r, d)
        /\ Worth(average2, a2, d) /\ Worth(profit2, r2, d)
        /\ a2 * shares2 - a * shares = spent * d + (r2 - r)
  BY <1>1
<1> DEFINE k == rest[2]
           l == rest[1]
<1>3. k \in Nat \ {0} /\ l \in Int /\ Worth(rest, l, k)
  BY WorthOf
<1> HIDE DEF k, l
<1>4. /\ a * k \in Int /\ Worth(average, a * k, d * k)
      /\ r * k \in Int /\ Worth(profit, r * k, d * k)
      /\ a2 * k \in Int /\ Worth(average2, a2 * k, d * k)
      /\ r2 * k \in Int /\ Worth(profit2, r2 * k, d * k)
      /\ d * k \in Nat \ {0}
  BY <1>2, <1>3, WorthInParts
<1>5. l * d \in Int /\ Worth(rest, l * d, d * k)
  <2>1. l * d \in Int /\ Worth(rest, l * d, k * d)
    BY <1>3, WorthInParts
  <2>2. k * d = d * k
    BY <1>3
  <2> QED BY <2>1, <2>2
<1>6. (a2 * k) * shares2 - (a * k) * shares = spent * (d * k) + (r2 * k - r * k)
  <2> DEFINE u == a2 * shares2
             v == a * shares
             w == spent * d
             e == r2 - r
  <2>1. u \in Int /\ v \in Int /\ w \in Int /\ e \in Int
    OBVIOUS
  <2>2. u - v = w + e
    BY <1>2
  <2>3. /\ (a2 * k) * shares2 = u * k /\ (a * k) * shares = v * k
        /\ spent * (d * k) = w * k /\ r2 * k - r * k = e * k
    BY <1>3
  <2> HIDE DEF u, v, w, e
  <2>4. u * k - v * k = w * k + e * k
    <3>1. u = v + w + e
      BY <2>1, <2>2
    <3>2. (v + w + e) * k = v * k + w * k + e * k
      BY <1>3, <2>1
    <3>3. u * k \in Int /\ v * k \in Int /\ w * k \in Int /\ e * k \in Int
      BY <1>3, <2>1
    <3> QED BY <3>1, <3>2, <3>3
  <2> QED BY <2>3, <2>4
<1> DEFINE ak == a * k
           rk == r * k
           a2k == a2 * k
           r2k == r2 * k
           ld == l * d
           dk == d * k
<1>7. /\ ak \in Int /\ rk \in Int /\ a2k \in Int /\ r2k \in Int /\ ld \in Int /\ dk \in Nat \ {0}
      /\ Worth(average, ak, dk) /\ Worth(profit, rk, dk)
      /\ Worth(average2, a2k, dk) /\ Worth(profit2, r2k, dk) /\ Worth(rest, ld, dk)
      /\ a2k * shares2 - ak * shares = spent * dk + (r2k - rk)
  BY <1>4, <1>5, <1>6
<1> HIDE DEF ak, rk, a2k, r2k, ld, dk
<1> QED BY <1>7

\* A balanced fill of one position keeps the books balanced, whatever the rest of
\* the positions cost.
LEMMA BooksBalance ==
  ASSUME NEW average, NEW shares \in Int, NEW profit, NEW average2, NEW shares2 \in Int, NEW profit2,
         NEW spent \in Int, NEW rest \in Fraction, NEW cash \in Int, NEW start \in Int,
         Balanced(average, shares, profit, average2, shares2, profit2, spent),
         Plus(Whole(cash), Plus(Times(average, shares), rest)) = Plus(Whole(start), profit)
  PROVE  Plus(Whole(cash - spent), Plus(Times(average2, shares2), rest)) = Plus(Whole(start), profit2)
<1>1. PICK d \in Nat \ {0} : \E a, r, a2, r2, l \in Int :
           /\ Worth(average, a, d) /\ Worth(profit, r, d)
           /\ Worth(average2, a2, d) /\ Worth(profit2, r2, d) /\ Worth(rest, l, d)
           /\ a2 * shares2 - a * shares = spent * d + (r2 - r)
  BY BalancedWith
<1>2. PICK a \in Int, r \in Int, a2 \in Int, r2 \in Int, l \in Int :
           /\ Worth(average, a, d) /\ Worth(profit, r, d)
           /\ Worth(average2, a2, d) /\ Worth(profit2, r2, d) /\ Worth(rest, l, d)
           /\ a2 * shares2 - a * shares = spent * d + (r2 - r)
  BY <1>1
<1> DEFINE c == cash * d
           s == spent * d
           i == start * d
           x == a * shares
           y == a2 * shares2
<1>3. /\ c \in Int /\ s \in Int /\ i \in Int /\ x \in Int /\ y \in Int /\ cash - spent \in Int
      /\ (cash - spent) * d = c - s /\ y - x = s + (r2 - r)
  BY <1>2
<1>4. /\ Worth(Whole(cash), c, d) /\ Worth(Whole(start), i, d)
      /\ Worth(Times(average, shares), x, d) /\ Worth(Times(average2, shares2), y, d)
  BY <1>2, WholeWorth, TimesWorth
<1>5. Worth(Whole(cash - spent), c - s, d)
  <2>1. Worth(Whole(cash - spent), (cash - spent) * d, d)
    BY <1>3, WholeWorth
  <2> QED BY <1>3, <2>1
<1> HIDE DEF c, s, i, x, y
<1>6. x + l \in Int /\ y + l \in Int /\ c - s \in Int
  BY <1>2, <1>3
<1>7. /\ Worth(Plus(Times(average, shares), rest), x + l, d)
      /\ Worth(Plus(Times(average2, shares2), rest), y + l, d)
  BY <1>2, <1>3, <1>4, PlusWorth
<1> DEFINE xl == x + l
           yl == y + l
           cs == c - s
           left == Plus(Whole(cash), Plus(Times(average, shares), rest))
           left2 == Plus(Whole(cash - spent), Plus(Times(average2, shares2), rest))
           right == Plus(Whole(start), profit)
           right2 == Plus(Whole(start), profit2)
<1>8. xl \in Int /\ yl \in Int /\ cs \in Int
  BY <1>6
<1>9. /\ Worth(Plus(Times(average, shares), rest), xl, d)
      /\ Worth(Plus(Times(average2, shares2), rest), yl, d)
      /\ Worth(Whole(cash - spent), cs, d)
  BY <1>5, <1>7
<1> HIDE DEF xl, yl, cs
<1>10. /\ Worth(left, c + xl, d) /\ IsAmount(left)
       /\ Worth(left2, cs + yl, d) /\ IsAmount(left2)
       /\ Worth(right, i + r, d) /\ IsAmount(right)
       /\ Worth(right2, i + r2, d) /\ IsAmount(right2)
  BY <1>2, <1>3, <1>4, <1>8, <1>9, PlusWorth
<1> HIDE DEF left, left2, right, right2
<1>11. c + xl \in Int /\ cs + yl \in Int /\ i + r \in Int /\ i + r2 \in Int
  BY <1>2, <1>3, <1>8
<1>12. left = right
  BY DEF left, right
<1>13. c + xl = i + r
  BY <1>10, <1>11, <1>12, WorthIsOne
<1>14. cs + yl = i + r2
  BY <1>2, <1>3, <1>13 DEF cs, yl, xl
<1>15. left2 = right2
  BY <1>10, <1>11, <1>14, WorthUnique
<1> QED BY <1>15 DEF left2, right2

\* The fold of the model.
LEMMA CostsAreTotalled ==
  SumOf([ticker \in Ticker |-> Cost(ticker)]) = TotalOf([ticker \in Ticker |-> Cost(ticker)], Ticker)
BY DEF SumOf, FoldFunction, TotalOf

\* A cost is an amount.
LEMMA TimesIsAmount ==
  ASSUME NEW average \in Fraction, NEW n \in Int
  PROVE  Times(average, n) \in Fraction
<1>1. average[1] \in Int /\ average[2] \in Nat \ {0} /\ Worth(average, average[1], average[2])
  BY WorthOf
<1>2. IsAmount(Times(average, n))
  BY <1>1, TimesWorth
<1> QED BY <1>2 DEF IsAmount

\* At first all is cash.
LEMMA InitCash == Init => CashIsInPositionsOrRealized
<1> SUFFICES ASSUME Init PROVE CashIsInPositionsOrRealized
  OBVIOUS
<1> DEFINE f == [ticker \in Ticker |-> Cost(ticker)]
<1>1. \A ticker \in Ticker : f[ticker] = Whole(0)
  <2>1. Times(Whole(0), 0) = Whole(0)
    <3>1. IsAmount(Whole(0)) /\ Worth(Whole(0), 0, 1)
      BY WholeWorth
    <3>2. IsAmount(Times(Whole(0), 0)) /\ Worth(Times(Whole(0), 0), 0, 1)
      BY <3>1, TimesWorth
    <3> QED BY <3>1, <3>2, WorthUnique
  <2> QED BY <2>1 DEF Init, Cost
<1> HIDE DEF f
<1>2. TotalOf(f, Ticker) = Whole(0)
  BY <1>1, TotalOfNothing
<1> QED BY <1>2, CostsAreTotalled DEF Init, CashIsInPositionsOrRealized, f

\* A fill changes the cost of one ticker's position.
LEMMA NextCash == TypeOK /\ CashIsInPositionsOrRealized /\ [Next]_vars => CashIsInPositionsOrRealized'
<1> SUFFICES ASSUME TypeOK, CashIsInPositionsOrRealized, [Next]_vars
             PROVE  CashIsInPositionsOrRealized'
  OBVIOUS
<1>1. CASE UNCHANGED vars
  BY <1>1 DEF vars, CashIsInPositionsOrRealized, Cost
<1>2. ASSUME NEW ticker \in Ticker, NEW volume \in Volume, NEW price \in Price,
             Trade(ticker, volume, price)
      PROVE  CashIsInPositionsOrRealized'
  <2> DEFINE old == positions[ticker]
             new == positions'[ticker]
             spent == price * volume
             f == [other \in Ticker |-> Cost(other)]
             g == [other \in Ticker |-> Cost(other)']
  <2>1. TypeOK'
    BY NextTypeOK
  <2>2. /\ volume \in Int /\ price \in Nat /\ old \in Position /\ cash_balance \in Int
        /\ positions \in [Ticker -> Position] /\ InitialCash \in Int
    BY NumbersOfTrade DEF TypeOK, Position
  <2>3. TradeEffects(ticker, volume, price)
    BY <1>2, TradeHasEffects
  <2>4. /\ new \in Position /\ positions' = [positions EXCEPT ![ticker] = new]
        /\ cash_balance' = cash_balance - spent
        /\ Balanced(old.avg_cost, old.net_shares, realized_pnl,
                    new.avg_cost, new.net_shares, realized_pnl', spent)
    BY <2>3 DEF TradeEffects
  <2>5. spent \in Int /\ old.net_shares \in Int /\ new.net_shares \in Int
    BY <2>2, <2>4 DEF Position
  <2>6. \A other \in Ticker : f[other] \in Fraction /\ g[other] \in Fraction
    <3>1. \A other \in Ticker :
            /\ positions[other].avg_cost \in Fraction /\ positions[other].net_shares \in Int
            /\ positions'[other].avg_cost \in Fraction /\ positions'[other].net_shares \in Int
      BY <2>1 DEF TypeOK
    <3> QED BY <3>1, TimesIsAmount DEF Cost
  <2>7. \A other \in Ticker \ {ticker} : g[other] = f[other]
    BY <2>2, <2>4 DEF Cost
  <2>8. f[ticker] = Times(old.avg_cost, old.net_shares) /\ g[ticker] = Times(new.avg_cost, new.net_shares)
    BY DEF Cost
  <2>9. PICK rest \in Fraction :
          TotalOf(f, Ticker) = Plus(f[ticker], rest) /\ TotalOf(g, Ticker) = Plus(g[ticker], rest)
    <3> HIDE DEF f, g
    <3> QED BY <2>6, <2>7, TotalOneChanged
  <2>10. Plus(Whole(cash_balance), Plus(Times(old.avg_cost, old.net_shares), rest))
           = Plus(Whole(InitialCash), realized_pnl)
    BY <2>8, <2>9, CostsAreTotalled DEF CashIsInPositionsOrRealized
  <2>11. Plus(Whole(cash_balance - spent), Plus(Times(new.avg_cost, new.net_shares), rest))
           = Plus(Whole(InitialCash), realized_pnl')
    <3> DEFINE average == old.avg_cost
               shares == old.net_shares
               average2 == new.avg_cost
               shares2 == new.net_shares
               profit2 == realized_pnl'
    <3> HIDE DEF average, shares, average2, shares2, profit2, spent
    <3>1. /\ shares \in Int /\ shares2 \in Int /\ spent \in Int
          /\ Balanced(average, shares, realized_pnl, average2, shares2, profit2, spent)
          /\ Plus(Whole(cash_balance), Plus(Times(average, shares), rest))
               = Plus(Whole(InitialCash), realized_pnl)
      BY <2>4, <2>5, <2>10 DEF average, shares, average2, shares2, profit2
    <3>2. Plus(Whole(cash_balance - spent), Plus(Times(average2, shares2), rest))
            = Plus(Whole(InitialCash), profit2)
      BY <2>2, <3>1, BooksBalance
    <3> QED BY <3>2 DEF average2, shares2, profit2
  <2>12. SumOf(g) = TotalOf(g, Ticker)
    BY DEF SumOf, FoldFunction, TotalOf
  <2>13. Plus(Whole(cash_balance'), SumOf(g)) = Plus(Whole(InitialCash), realized_pnl')
    <3> HIDE DEF g, spent
    <3> QED BY <2>4, <2>8, <2>9, <2>11, <2>12
  <2> QED BY <2>13 DEF CashIsInPositionsOrRealized
<1> QED BY <1>1, <1>2 DEF Next

\* CashIsInPositionsOrRealized, for any tickers, volumes, prices and number of
\* fills: cash and the cost of the positions are the cash there was and the profit
\* realized.
THEOREM CashIsAccountedFor == Spec => []CashIsInPositionsOrRealized
<1> QED BY InitTypeOK, NextTypeOK, InitCash, NextCash, PTL DEF Spec

\* What a position is worth at a price, in parts of 1 / d.
LEMMA MarkedWorth ==
  ASSUME NEW average, NEW profit, NEW shares \in Int, NEW price \in Nat, NEW d \in Nat \ {0},
         NEW a \in Int, NEW r \in Int, Worth(average, a, d), Worth(profit, r, d)
  PROVE  LET worth == Plus(profit, Times(Minus(Whole(price), average), shares))
             n == r + (price * d - a) * shares
         IN  n \in Int /\ IsAmount(worth) /\ Worth(worth, n, d)
<1> DEFINE p == price * d
           g == p - a
           h == g * shares
           gain == Minus(Whole(price), average)
           total == Times(gain, shares)
<1>1. p \in Int /\ g \in Int /\ h \in Int /\ r + h \in Int
  OBVIOUS
<1>2. Worth(Whole(price), p, d)
  BY WholeWorth
<1> HIDE DEF p
<1>3. Worth(gain, p - a, d)
  BY <1>1, <1>2, MinusWorth
<1> HIDE DEF g, gain
<1>4. Worth(gain, g, d)
  BY <1>3 DEF g
<1>5. Worth(total, g * shares, d)
  BY <1>1, <1>4, TimesWorth
<1> HIDE DEF h, total
<1>6. Worth(total, h, d)
  BY <1>5 DEF h
<1>7. IsAmount(Plus(profit, total)) /\ Worth(Plus(profit, total), r + h, d)
  BY <1>1, <1>6, PlusWorth
<1> QED BY <1>1, <1>7 DEF total, gain, h, g, p

\* A balanced fill is worth nothing at its own price.
LEMMA NoProfitWhenBalanced ==
  ASSUME NEW average, NEW shares \in Int, NEW profit, NEW average2, NEW profit2,
         NEW volume \in Int, NEW price \in Nat,
         Balanced(average, shares, profit, average2, shares + volume, profit2, price * volume)
  PROVE  Plus(profit, Times(Minus(Whole(price), average), shares))
           = Plus(profit2, Times(Minus(Whole(price), average2), shares + volume))
<1> DEFINE shares2 == shares + volume
<1>1. PICK d \in Nat \ {0} : \E a, r, a2, r2 \in Int :
        /\ Worth(average, a, d) /\ Worth(profit, r, d)
        /\ Worth(average2, a2, d) /\ Worth(profit2, r2, d)
        /\ a2 * shares2 - a * shares = (price * volume) * d + (r2 - r)
  BY DEF Balanced
<1>2. PICK a \in Int, r \in Int, a2 \in Int, r2 \in Int :
        /\ Worth(average, a, d) /\ Worth(profit, r, d)
        /\ Worth(average2, a2, d) /\ Worth(profit2, r2, d)
        /\ a2 * shares2 - a * shares = (price * volume) * d + (r2 - r)
  BY <1>1
<1>3. r + (price * d - a) * shares = r2 + (price * d - a2) * shares2
  <2> DEFINE x == a * shares
             y == a2 * shares2
             p == (price * d) * shares
             s == (price * volume) * d
  <2>1. x \in Int /\ y \in Int /\ p \in Int /\ s \in Int /\ y - x = s + (r2 - r)
    BY <1>2
  <2>2. (price * d - a) * shares = p - x
    OBVIOUS
  <2>3. (price * d - a2) * shares2 = (p + s) - y
    OBVIOUS
  <2> HIDE DEF x, y, p, s
  <2>4. r + (p - x) = r2 + ((p + s) - y)
    BY <1>2, <2>1
  <2> QED BY <2>2, <2>3, <2>4
<1>4. shares2 \in Int
  OBVIOUS
<1> DEFINE worth == Plus(profit, Times(Minus(Whole(price), average), shares))
           worth2 == Plus(profit2, Times(Minus(Whole(price), average2), shares2))
           n == r + (price * d - a) * shares
<1>5. n \in Int /\ IsAmount(worth) /\ Worth(worth, n, d)
  BY <1>2, MarkedWorth
<1>6. IsAmount(worth2) /\ Worth(worth2, r2 + (price * d - a2) * shares2, d)
  <2> HIDE DEF shares2
  <2> QED BY <1>2, <1>4, MarkedWorth
<1>7. Worth(worth2, n, d)
  BY <1>3, <1>6
<1> HIDE DEF worth, worth2, n
<1>8. worth = worth2
  BY <1>5, <1>6, <1>7, WorthUnique
<1> QED BY <1>8 DEF worth, worth2

\* FillsMakeNoProfitAtTheirPrice: no fill, in any branch of Trade, makes or loses
\* money at the price it was made at.
THEOREM FillsAreFair == Spec => FillsMakeNoProfitAtTheirPrice
<1> DEFINE Fair == \A ticker \in Ticker, volume \in Volume, price \in Price :
       Trade(ticker, volume, price) =>
         Plus(realized_pnl, ComputeUnrealizedPnL(ticker, price))
           = Plus(realized_pnl, ComputeUnrealizedPnL(ticker, price))'
<1>1. TypeOK => Fair
  <2> SUFFICES ASSUME TypeOK, NEW ticker \in Ticker, NEW volume \in Volume, NEW price \in Price,
                      Trade(ticker, volume, price)
               PROVE  Plus(realized_pnl, ComputeUnrealizedPnL(ticker, price))
                        = Plus(realized_pnl, ComputeUnrealizedPnL(ticker, price))'
    OBVIOUS
  <2> DEFINE old == positions[ticker]
             new == positions'[ticker]
             average == old.avg_cost
             shares == old.net_shares
             average2 == new.avg_cost
             profit2 == realized_pnl'
  <2>1. volume \in Int /\ price \in Nat /\ shares \in Int
    BY NumbersOfTrade
  <2>2. /\ new.net_shares = shares + volume
        /\ Balanced(average, shares, realized_pnl, average2, new.net_shares, profit2, price * volume)
    BY TradeHasEffects DEF TradeEffects
  <2>3. Balanced(average, shares, realized_pnl, average2, shares + volume, profit2, price * volume)
    BY <2>2
  <2>4. Plus(realized_pnl, Times(Minus(Whole(price), average), shares))
          = Plus(profit2, Times(Minus(Whole(price), average2), shares + volume))
    <3> HIDE DEF average, shares, average2, profit2
    <3> QED BY <2>1, <2>3, NoProfitWhenBalanced
  <2> QED BY <2>2, <2>4 DEF ComputeUnrealizedPnL
<1> HIDE DEF Fair
<1>2. TypeOK => [Fair]_vars
  BY <1>1
<1>3. Spec => [][Fair]_vars
  BY <1>2, InitTypeOK, NextTypeOK, PTL DEF Spec
<1> QED BY <1>3 DEF Fair, FillsMakeNoProfitAtTheirPrice

-----------------------------------------------------------------------------
(* The average and the prices paid.                                        *)

\* A weighted average is at least a bound of both its parts.
LEMMA WeightedAbove ==
  ASSUME NEW low \in Int, NEW a \in Int, NEW price \in Nat, NEW x \in Nat \ {0}, NEW y \in Nat \ {0},
         NEW d \in Nat \ {0}, low * d <= a, low <= price
  PROVE  low * (d * (x + y)) <= a * x + (price * y) * d
<1> DEFINE l == low * d
           yd == y * d
<1>1. l \in Int /\ l <= a /\ yd \in Nat \ {0}
  OBVIOUS
<1>2. low * (d * (x + y)) = l * x + low * yd /\ (price * y) * d = price * yd
  OBVIOUS
<1> HIDE DEF l, yd
<1>3. l * x <= a * x /\ low * yd <= price * yd
  BY <1>1, TimesMonotone
<1>4. l * x \in Int /\ a * x \in Int /\ low * yd \in Int /\ price * yd \in Int
  BY <1>1
<1> QED BY <1>2, <1>3, <1>4

\* And at most one.
LEMMA WeightedBelow ==
  ASSUME NEW high \in Int, NEW a \in Int, NEW price \in Nat, NEW x \in Nat \ {0}, NEW y \in Nat \ {0},
         NEW d \in Nat \ {0}, a <= high * d, price <= high
  PROVE  a * x + (price * y) * d <= high * (d * (x + y))
<1> DEFINE h == high * d
           yd == y * d
<1>1. h \in Int /\ a <= h /\ yd \in Nat \ {0}
  OBVIOUS
<1>2. high * (d * (x + y)) = h * x + high * yd /\ (price * y) * d = price * yd
  OBVIOUS
<1> HIDE DEF h, yd
<1>3. a * x <= h * x /\ price * yd <= high * yd
  BY <1>1, TimesMonotone
<1>4. h * x \in Int /\ a * x \in Int /\ high * yd \in Int /\ price * yd \in Int
  BY <1>1
<1> QED BY <1>2, <1>3, <1>4

\* An addition moves the average towards the price of the fill, and not beyond.
LEMMA AverageMovesTowardsPrice ==
  ASSUME NEW old \in Position, NEW volume \in Int, NEW price \in Nat,
         SameDirection(old.net_shares, volume), NEW bound \in Nat
  PROVE  /\ AtMost(Whole(bound), old.avg_cost) =>
              \E q \in {bound, price} : AtMost(Whole(q), UpdatedAverage(old, volume, price))
         /\ AtMost(old.avg_cost, Whole(bound)) =>
              \E q \in {bound, price} : AtMost(UpdatedAverage(old, volume, price), Whole(q))
<1> DEFINE n == old.net_shares
           average == old.avg_cost
           average2 == UpdatedAverage(old, volume, price)
           a == average[1]
           d == average[2]
           x == Abs(n)
           y == Abs(volume)
           k == Abs(n + volume)
           a2 == a * x + (price * y) * d
           e == d * k
<1>1. n \in Int /\ average \in Fraction /\ SameDirection(n, volume)
  BY DEF Position
<1>2. a \in Int /\ d \in Nat \ {0} /\ Worth(average, a, d)
  BY <1>1, WorthOf
<1>3. x \in Nat \ {0} /\ y \in Nat \ {0} /\ k = x + y
  <2>1. /\ x \in Nat \ {0} /\ y \in Nat \ {0}
        /\ \/ x = n /\ y = volume /\ k = n + volume
           \/ x = -n /\ y = -volume /\ k = -(n + volume)
    <3> HIDE DEF n
    <3> QED BY <1>1, AbsOfSum
  <2> HIDE DEF x, y, k, n
  <2> QED BY <1>1, <2>1
<1>4. k \in Nat \ {0} /\ e \in Nat \ {0} /\ a2 \in Int /\ Worth(average2, a2, e)
  <2> HIDE DEF a, d
  <2> QED BY <1>2, UpdatedAverageWorth DEF a, d
<1>5. \A q \in Nat : /\ q * d \in Int /\ Worth(Whole(q), q * d, d)
                     /\ q * e \in Int /\ Worth(Whole(q), q * e, e)
  <2> HIDE DEF d, e
  <2> SUFFICES ASSUME NEW q \in Nat
               PROVE  /\ q * d \in Int /\ Worth(Whole(q), q * d, d)
                      /\ q * e \in Int /\ Worth(Whole(q), q * e, e)
    OBVIOUS
  <2>1. q \in Int
    OBVIOUS
  <2> QED BY <1>2, <1>4, <2>1, WholeWorth
<1>6. \A q \in Nat : /\ AtMost(Whole(q), average) <=> q * d <= a
                     /\ AtMost(average, Whole(q)) <=> a <= q * d
                     /\ AtMost(Whole(q), average2) <=> q * e <= a2
                     /\ AtMost(average2, Whole(q)) <=> a2 <= q * e
  <2> HIDE DEF average, average2, a, d, a2, e
  <2> QED BY <1>2, <1>4, <1>5, AtMostWorth
<1>7. \A q \in Nat : /\ q * d <= a /\ q <= price => q * e <= a2
                     /\ a <= q * d /\ price <= q => a2 <= q * e
  <2> SUFFICES ASSUME NEW q \in Nat
               PROVE  /\ q * d <= a /\ q <= price => q * e <= a2
                      /\ a <= q * d /\ price <= q => a2 <= q * e
    OBVIOUS
  <2>1. e = d * (x + y)
    BY <1>3
  <2> HIDE DEF a, d, x, y, e
  <2> QED BY <1>2, <1>3, <2>1, WeightedAbove, WeightedBelow
<1>8. (bound <= price => bound * d <= price * d) /\ (price <= bound => price * d <= bound * d)
  <2> HIDE DEF d
  <2> QED BY <1>2, TimesMonotone
<1>9. bound * d \in Int /\ price * d \in Int /\ (bound <= price \/ price <= bound)
  BY <1>5
<1> HIDE DEF n, average, average2, a, d, x, y, k, a2, e
<1>10. ASSUME AtMost(Whole(bound), average)
       PROVE  \E q \in {bound, price} : AtMost(Whole(q), average2)
  <2>1. bound * d <= a
    BY <1>6, <1>10
  <2>2. price <= bound => price * d <= a
    BY <1>2, <1>8, <1>9, <2>1
  <2> QED BY <1>6, <1>7, <1>9, <2>1, <2>2
<1>11. ASSUME AtMost(average, Whole(bound))
       PROVE  \E q \in {bound, price} : AtMost(average2, Whole(q))
  <2>1. a <= bound * d
    BY <1>6, <1>11
  <2>2. bound <= price => a <= price * d
    BY <1>2, <1>8, <1>9, <2>1
  <2> QED BY <1>6, <1>7, <1>9, <2>1, <2>2
<1> QED BY <1>10, <1>11 DEF average, average2

\* The average of one position lies between the prices it was built up at.
WithinPricesPaid(ticker) ==
  positions[ticker].net_shares # 0 =>
    /\ \E price \in paid[ticker] : AtMost(Whole(price), positions[ticker].avg_cost)
    /\ \E price \in paid[ticker] : AtMost(positions[ticker].avg_cost, Whole(price))

\* Only an addition moves an average that stays.
LEMMA NextAverage == TypeOK /\ AverageWithinPricesPaid /\ [Next]_vars => AverageWithinPricesPaid'
<1> SUFFICES ASSUME TypeOK, AverageWithinPricesPaid, [Next]_vars
             PROVE  AverageWithinPricesPaid'
  OBVIOUS
<1>1. CASE UNCHANGED vars
  BY <1>1 DEF vars, AverageWithinPricesPaid
<1>2. ASSUME NEW ticker \in Ticker, NEW volume \in Volume, NEW price \in Price,
             Trade(ticker, volume, price)
      PROVE  AverageWithinPricesPaid'
  <2> DEFINE old == positions[ticker]
             new == positions'[ticker]
             n == old.net_shares
  <2>1. /\ volume \in Int /\ price \in Nat /\ old \in Position /\ n \in Int /\ n + volume \in Int
        /\ old.avg_cost \in Fraction
        /\ positions \in [Ticker -> Position] /\ paid \in [Ticker -> SUBSET Price]
        /\ paid[ticker] \subseteq Nat
    <3>1. /\ volume \in Int /\ price \in Nat /\ old \in Position /\ n \in Int /\ n + volume \in Int
          /\ old.avg_cost \in Fraction
      BY NumbersOfTrade
    <3>2. positions \in [Ticker -> Position] /\ paid \in [Ticker -> SUBSET Price]
      BY DEF TypeOK, Position
    <3> HIDE DEF n, old
    <3> QED BY <3>1, <3>2
  <2>2. Whole(price) \in Fraction /\ Whole(0) \in Fraction
    BY <2>1, WholeIsAmount
  <2>3. AtMost(Whole(price), Whole(price))
    BY <2>1 DEF AtMost, Whole
  <2>4. WithinPricesPaid(ticker) /\ \A other \in Ticker : WithinPricesPaid(other)
    BY DEF AverageWithinPricesPaid, WithinPricesPaid
  <2>5. CASE OpenPosition(ticker, volume, price)
    <3>1. paid'[ticker] = {price} /\ new.avg_cost = Whole(price)
      <4>1. Hold(ticker, volume, Whole(price)) /\ paid' = [paid EXCEPT ![ticker] = {price}]
        BY <2>5 DEF OpenPosition
      <4>2. new = [net_shares |-> volume, avg_cost |-> Whole(price)]
        BY <2>1, <2>2, <4>1, Held
      <4> QED BY <2>1, <4>1, <4>2
    <3>2. WithinPricesPaid(ticker)'
      BY <2>3, <3>1 DEF WithinPricesPaid
    <3>3. \A other \in Ticker \ {ticker} : positions'[other] = positions[other] /\ paid'[other] = paid[other]
      BY <2>1, <2>5 DEF OpenPosition, Hold
    <3> QED BY <2>4, <3>2, <3>3 DEF AverageWithinPricesPaid, WithinPricesPaid
  <2>6. CASE FlipPosition(ticker, volume, price)
    <3>1. paid'[ticker] = {price} /\ new.avg_cost = Whole(price)
      <4>1. Hold(ticker, n + volume, Whole(price)) /\ paid' = [paid EXCEPT ![ticker] = {price}]
        BY <2>6 DEF FlipPosition
      <4>2. new = [net_shares |-> n + volume, avg_cost |-> Whole(price)]
        BY <2>1, <2>2, <4>1, Held
      <4> QED BY <2>1, <4>1, <4>2
    <3>2. WithinPricesPaid(ticker)'
      BY <2>3, <3>1 DEF WithinPricesPaid
    <3>3. \A other \in Ticker \ {ticker} : positions'[other] = positions[other] /\ paid'[other] = paid[other]
      BY <2>1, <2>6 DEF FlipPosition, Hold
    <3> QED BY <2>4, <3>2, <3>3 DEF AverageWithinPricesPaid, WithinPricesPaid
  <2>7. CASE ReducePosition(ticker, volume, price)
    <3>1. /\ n # 0 /\ paid' = paid
          /\ Hold(ticker, n + volume, IF n + volume = 0 THEN Whole(0) ELSE old.avg_cost)
      BY <2>7 DEF ReducePosition
    <3>2. new.net_shares = n + volume /\ (n + volume # 0 => new.avg_cost = old.avg_cost)
      <4> DEFINE average2 == IF n + volume = 0 THEN Whole(0) ELSE old.avg_cost
      <4>1. average2 \in Fraction
        BY <2>1, <2>2
      <4>2. new = [net_shares |-> n + volume, avg_cost |-> average2]
        <5> HIDE DEF average2
        <5>1. Hold(ticker, n + volume, average2)
          BY <3>1 DEF average2
        <5> QED BY <2>1, <4>1, <5>1, Held
      <4> QED BY <4>2
    <3>3. WithinPricesPaid(ticker)'
      BY <2>4, <3>1, <3>2 DEF WithinPricesPaid
    <3>4. \A other \in Ticker \ {ticker} : positions'[other] = positions[other]
      BY <2>1, <3>1 DEF Hold
    <3> QED BY <2>4, <3>1, <3>3, <3>4 DEF AverageWithinPricesPaid, WithinPricesPaid
  <2>8. CASE AddToPosition(ticker, volume, price)
    <3> DEFINE average2 == UpdatedAverage(old, volume, price)
    <3>1. /\ SameDirection(n, volume) /\ Hold(ticker, n + volume, average2)
          /\ paid' = [paid EXCEPT ![ticker] = @ \cup {price}]
      BY <2>8 DEF AddToPosition
    <3>2. n # 0
      BY <2>1, <3>1 DEF SameDirection
    <3>3. IsAmount(average2)
      <4>1. realized_pnl \in Fraction
        BY NumbersOfTrade
      <4> QED BY <2>1, <3>1, <4>1, AddedBalances
    <3>4. PICK low \in paid[ticker] : AtMost(Whole(low), old.avg_cost)
      BY <2>4, <3>2 DEF WithinPricesPaid
    <3>5. PICK high \in paid[ticker] : AtMost(old.avg_cost, Whole(high))
      BY <2>4, <3>2 DEF WithinPricesPaid
    <3>6. \E q \in {low, price} : AtMost(Whole(q), average2)
      <4>1. low \in Nat
        BY <2>1
      <4> QED BY <2>1, <3>1, <3>4, <4>1, AverageMovesTowardsPrice
    <3>7. \E q \in {high, price} : AtMost(average2, Whole(q))
      <4>1. high \in Nat
        BY <2>1
      <4> QED BY <2>1, <3>1, <3>5, <4>1, AverageMovesTowardsPrice
    <3> HIDE DEF average2
    <3>8. new.avg_cost = average2
      <4>1. average2 \in Fraction
        BY <3>3 DEF IsAmount
      <4>2. new = [net_shares |-> n + volume, avg_cost |-> average2]
        BY <2>1, <3>1, <4>1, Held
      <4> QED BY <4>2
    <3>9. paid'[ticker] = paid[ticker] \cup {price}
      BY <2>1, <3>1
    <3>10. WithinPricesPaid(ticker)'
      BY <3>6, <3>7, <3>8, <3>9 DEF WithinPricesPaid
    <3>11. \A other \in Ticker \ {ticker} : positions'[other] = positions[other] /\ paid'[other] = paid[other]
      BY <2>1, <3>1 DEF Hold
    <3> QED BY <2>4, <3>10, <3>11 DEF AverageWithinPricesPaid, WithinPricesPaid
  <2> QED BY <1>2, <2>5, <2>6, <2>7, <2>8 DEF Trade
<1> QED BY <1>1, <1>2 DEF Next

\* AverageWithinPricesPaid: an average lies between prices its position was built
\* up at, after any additions, reductions and flips.
THEOREM AveragesAreHonest == Spec => []AverageWithinPricesPaid
<1>1. Init => AverageWithinPricesPaid
  BY DEF Init, AverageWithinPricesPaid
<1> QED BY <1>1, InitTypeOK, NextTypeOK, NextAverage, PTL DEF Spec
=============================================================================
