------------------------------ MODULE DsaProofs ------------------------------
(***************************************************************************)
(* Long division as crypt/bch.c does it, the inverses of dsa_sign and      *)
(* dsa_check, what their calls compute and the verdict they come to, and   *)
(* the loops of bch.c over words and longs that all of it is stored in,    *)
(* for every base, size, key, digest and signature.                        *)
(***************************************************************************)
EXTENDS Dsa, FiniteSetTheorems, TLAPS

-----------------------------------------------------------------------------
(* Arithmetic.                                                             *)

LEMMA Times ==
  ASSUME NEW a \in Nat, NEW b \in Nat, NEW c \in Nat
  PROVE  /\ a * c \in Nat /\ c * a = a * c
         /\ (a + 1) * c = a * c + c
         /\ a <= b => a * c <= b * c
         /\ a < b => a * c + c <= b * c
         /\ a * c < b * c => a < b
         /\ c > 0 => a <= a * c
<1>1. /\ a * c \in Nat /\ b * c \in Nat /\ c * a = a * c
      /\ (a + 1) * c = a * c + c
  BY SMT
<1>2. ASSUME a <= b PROVE a * c <= b * c
  <2> DEFINE d == b - a
  <2>1. d \in Nat /\ b = a + d
    BY <1>2
  <2> HIDE DEF d
  <2>2. d * c \in Nat /\ (a + d) * c = a * c + d * c
    BY <2>1, SMT
  <2> QED
    BY <1>1, <2>1, <2>2
<1>3. ASSUME a < b PROVE a * c + c <= b * c
  <2> DEFINE d == b - (a + 1)
  <2>1. d \in Nat /\ b = (a + 1) + d
    BY <1>3
  <2> HIDE DEF d
  <2>2. d * c \in Nat /\ ((a + 1) + d) * c = (a + 1) * c + d * c
    BY <2>1, SMT
  <2> QED
    BY <1>1, <2>1, <2>2
<1>4. ASSUME a * c < b * c PROVE a < b
  <2> SUFFICES ASSUME b <= a PROVE FALSE
    OBVIOUS
  <2> DEFINE d == a - b
  <2>1. d \in Nat /\ a = b + d
    OBVIOUS
  <2> HIDE DEF d
  <2>2. d * c \in Nat /\ (b + d) * c = b * c + d * c
    BY <2>1, SMT
  <2> QED
    BY <1>1, <1>4, <2>1, <2>2
<1>5. ASSUME c > 0 PROVE a <= a * c
  <2>1. c - 1 \in Nat /\ a * (c - 1) \in Nat /\ a * c = a * (c - 1) + a
    BY <1>5, SMT
  <2> QED
    BY <2>1
<1> QED
  BY <1>1, <1>2, <1>3, <1>4, <1>5

LEMMA Div ==
  ASSUME NEW x \in Nat, NEW d \in Nat \ {0}
  PROVE  /\ x \div d \in Nat
         /\ (x \div d) * d <= x /\ x < (x \div d) * d + d
BY SMT

LEMMA Mod ==
  ASSUME NEW x \in Int, NEW r \in Nat \ {0}
  PROVE  /\ x % r \in 0 .. r - 1
         /\ x \in 0 .. r - 1 => x % r = x
<1>1. x % r \in 0 .. r - 1
  BY SMT
<1>2. x \in 0 .. r - 1 => x % r = x
  BY SMT
<1> QED
  BY <1>1, <1>2

LEMMA Multiple ==
  ASSUME NEW t \in Int, NEW d \in Nat \ {0}
  PROVE  (t * d) % d = 0
BY SMT

LEMMA OneMore ==
  ASSUME NEW t \in Int, NEW d \in Nat, d > 1
  PROVE  (1 + t * d) % d = 1
<1> DEFINE x == 1 + t * d
           q == x \div d
           r == x % d
<1>1. x \in Int
  BY SMT
<1>2. q \in Int /\ r \in Int /\ 0 <= r /\ r < d /\ x = q * d + r
  BY <1>1, SMT
<1>3. (q - t) * d = q * d - t * d /\ q * d \in Int /\ t * d \in Int
  BY <1>2, SMT
<1>4. (q - t) * d = 1 - r
  BY <1>2, <1>3
<1> HIDE DEF x, q, r
<1>5. q - t >= 1 => (q - t) * d >= d
  <2> SUFFICES ASSUME q - t >= 1 PROVE (q - t) * d >= d
    OBVIOUS
  <2>1. q - t \in Nat /\ d \in Nat /\ q - t > 0
    BY <1>2
  <2>2. d <= d * (q - t) /\ d * (q - t) = (q - t) * d
    BY <2>1, Times
  <2> QED
    BY <2>2
<1>6. t - q >= 1 => (t - q) * d >= d
  <2> SUFFICES ASSUME t - q >= 1 PROVE (t - q) * d >= d
    OBVIOUS
  <2>1. t - q \in Nat /\ d \in Nat /\ t - q > 0
    BY <1>2
  <2>2. d <= d * (t - q) /\ d * (t - q) = (t - q) * d
    BY <2>1, Times
  <2> QED
    BY <2>2
<1>7. (t - q) * d = 0 - (q - t) * d
  BY <1>2, SMT
<1>8. ~(q - t >= 1)
  BY <1>2, <1>4, <1>5
<1>9. ~(t - q >= 1)
  BY <1>2, <1>4, <1>6, <1>7
<1>10. q = t /\ q * d = t * d
  BY <1>2, <1>8, <1>9
<1> QED
  BY <1>2, <1>3, <1>10 DEF x, r

(* The greatest of some numbers that are not beyond n is one of them.      *)
LEMMA Greatest ==
  ASSUME NEW n \in Nat, NEW T, T \subseteq 0 .. n, T # {}
  PROVE  \E g \in T : \A m \in T : m <= g
<1> DEFINE F == {m .. n : m \in T}
<1>1. F \subseteq FiniteSubsetsOf(Nat)
  <2>1. ASSUME NEW m \in T PROVE m .. n \in FiniteSubsetsOf(Nat)
    <3>1. m \in Nat
      OBVIOUS
    <3>2. IsFiniteSet(m .. n)
      BY <3>1, FS_Interval
    <3> QED
      BY <3>1, <3>2 DEF FiniteSubsetsOf
  <2> QED
    BY <2>1
<1>2. F # {}
  BY Zenon
<1>3. IsWellFoundedOn(StrictSubsetOrdering(Nat), FiniteSubsetsOf(Nat))
  BY FS_StrictSubsetOrderingWellFounded
<1> HIDE DEF F
<1>4. \E x \in F : \A y \in F : ~(<<y, x>> \in StrictSubsetOrdering(Nat))
  BY <1>1, <1>2, <1>3, WFMin
<1>5. PICK g \in T : \A y \in F : ~(<<y, g .. n>> \in StrictSubsetOrdering(Nat))
  BY <1>4 DEF F
<1>6. ASSUME NEW m \in T, m > g PROVE FALSE
  <2>1. m .. n \in F
    BY DEF F
  <2>2. m .. n \subseteq g .. n /\ g \in g .. n /\ g \notin m .. n
    BY <1>6
  <2>3. <<m .. n, g .. n>> \in StrictSubsetOrdering(Nat)
    BY <2>2 DEF StrictSubsetOrdering
  <2> QED
    BY <1>5, <2>1, <2>3
<1> QED
  BY <1>5, <1>6

-----------------------------------------------------------------------------
(* The powers of the base, and what is stored.                             *)

LEMMA PowerSum ==
  ASSUME NEW i \in 0 .. Size + 1, NEW j \in 0 .. Size + 1, NEW k \in 0 .. Size + 1,
         i + j = k
  PROVE  Base ^ i \in Nat \ {0} /\ Base ^ k = Base ^ i * Base ^ j
<1>1. Size \in Nat
  BY DivisionAssumption
<1>2. i + j <= Size + 1
  BY <1>1
<1>3. Base ^ i \in Nat \ {0} /\ Base ^ (i + j) = Base ^ i * Base ^ j
  BY <1>2, PowerAssumption
<1> QED
  BY Zenon, <1>3

LEMMA Powers ==
  ASSUME NEW i \in 0 .. Size + 1, NEW j \in 0 .. Size + 1
  PROVE  /\ Base ^ i \in Nat \ {0}
         /\ i <= j => Base ^ i <= Base ^ j
         /\ i < j => Base * Base ^ i <= Base ^ j
<1>1. Base ^ i \in Nat \ {0} /\ Base ^ j \in Nat \ {0}
  BY PowerAssumption
<1>2. Size \in Nat /\ Size >= 1 /\ Base \in Nat
  BY DivisionAssumption
<1>3. ASSUME i <= j PROVE Base ^ i <= Base ^ j
  <2>1. PICK d \in 0 .. Size + 1 : d + i = j
    <3>1. j - i \in 0 .. Size + 1 /\ (j - i) + i = j
      BY <1>2, <1>3
    <3> QED
      BY <3>1
  <2>2. Base ^ d \in Nat \ {0} /\ Base ^ j = Base ^ d * Base ^ i
    BY <2>1, PowerSum
  <2>3. Base ^ i <= Base ^ i * Base ^ d /\ Base ^ i * Base ^ d = Base ^ d * Base ^ i
    BY <1>1, <2>2, Times
  <2> QED
    BY <2>2, <2>3
<1>4. ASSUME i < j PROVE Base * Base ^ i <= Base ^ j
  <2>1. PICK n \in 0 .. Size + 1 : n = i + 1
    <3>1. i + 1 \in 0 .. Size + 1
      BY <1>2, <1>4
    <3> QED
      BY <3>1
  <2>2. n <= j /\ 1 \in 0 .. Size + 1 /\ 1 + i = n
    BY <1>2, <1>4, <2>1
  <2>3. PICK d \in 0 .. Size + 1 : d + n = j
    <3>1. j - n \in 0 .. Size + 1 /\ (j - n) + n = j
      BY <1>2, <2>2
    <3> QED
      BY <3>1
  <2>4. Base ^ n \in Nat \ {0} /\ Base ^ d \in Nat \ {0}
    BY PowerAssumption
  <2>5. Base ^ n = Base ^ 1 * Base ^ i /\ Base ^ 1 = Base
    BY <2>2, PowerSum, PowerAssumption
  <2>6. Base ^ j = Base ^ d * Base ^ n
    BY <2>3, PowerSum
  <2>7. Base ^ n <= Base ^ n * Base ^ d /\ Base ^ n * Base ^ d = Base ^ d * Base ^ n
    BY <2>4, Times
  <2> QED
    BY <2>5, <2>6, <2>7
<1> QED
  BY <1>1, <1>3, <1>4

(* The powers that the estimate is about.                                  *)
LEMMA FewPowers ==
  /\ Size \in Nat /\ Size >= 4 /\ Base \in Nat /\ Base >= 2
  /\ Base ^ 0 = 1 /\ Base ^ 1 = Base /\ Base ^ 2 = Base * Base
  /\ Base ^ 3 = Base * Base ^ 2 /\ Base ^ 4 = Base ^ 2 * Base ^ 2
  /\ Base ^ 4 = Base * Base ^ 3
  /\ {Base ^ 2, Base ^ 3, Base ^ 4} \subseteq Nat \ {0}
<1>1. Size \in Nat /\ Size >= 4 /\ Base \in Nat /\ Base >= 2
  BY DivisionAssumption
<1>2. /\ {0, 1, 2, 3, 4} \subseteq 0 .. Size + 1
      /\ 1 + 1 = 2 /\ 1 + 2 = 3 /\ 2 + 2 = 4 /\ 1 + 3 = 4
  BY <1>1
<1>3. /\ Base ^ 2 = Base ^ 1 * Base ^ 1 /\ Base ^ 3 = Base ^ 1 * Base ^ 2
      /\ Base ^ 4 = Base ^ 2 * Base ^ 2 /\ Base ^ 4 = Base ^ 1 * Base ^ 3
      /\ {Base ^ 2, Base ^ 3, Base ^ 4} \subseteq Nat \ {0}
  BY <1>1, <1>2, PowerAssumption
<1> QED
  BY Zenon, <1>1, <1>3, PowerAssumption

(* A number has one highest digit, and what is shorter is less.            *)
LEMMA HexpOf ==
  ASSUME NEW x \in Nat \ {0}, x < Base ^ (Size + 1)
  PROVE  /\ Hexp(x) \in 0 .. Size
         /\ Base ^ Hexp(x) <= x /\ x < Base ^ (Hexp(x) + 1)
         /\ \A e \in 0 .. Size : /\ Base ^ e <= x => e <= Hexp(x)
                                 /\ x < Base ^ (e + 1) => Hexp(x) <= e
<1> DEFINE T == {e \in 0 .. Size : Base ^ e <= x}
<1>1. Size \in Nat /\ 0 \in T /\ T \subseteq 0 .. Size
  BY FewPowers
<1>2. PICK g \in T : \A m \in T : m <= g
  BY Zenon, <1>1, Greatest
<1>3. g \in 0 .. Size /\ Base ^ g <= x
  OBVIOUS
<1>4. x < Base ^ (g + 1)
  <2>1. CASE g = Size
    BY <2>1
  <2>2. CASE g # Size
    <3>1. g + 1 \in 0 .. Size /\ g + 1 \notin T
      BY <1>1, <1>2, <1>3, <2>2
    <3>2. Base ^ (g + 1) \in Nat
      BY <1>1, <3>1, PowerAssumption
    <3> QED
      BY <3>1, <3>2
  <2> QED
    BY <2>1, <2>2
<1>5. \E e \in 0 .. Size : Base ^ e <= x /\ x < Base ^ (e + 1)
  BY <1>3, <1>4
<1>6. /\ Hexp(x) \in 0 .. Size
      /\ Base ^ Hexp(x) <= x /\ x < Base ^ (Hexp(x) + 1)
  BY <1>5 DEF Hexp
<1> HIDE DEF T
<1> DEFINE h == Hexp(x)
<1>7. ASSUME NEW e \in 0 .. Size, Base ^ e <= x PROVE e <= h
  <2> SUFFICES ASSUME h + 1 <= e PROVE FALSE
    BY <1>1, <1>6
  <2>1. h + 1 \in 0 .. Size + 1 /\ e \in 0 .. Size + 1
    BY <1>1, <1>6
  <2>2. Base ^ (h + 1) <= Base ^ e /\ {Base ^ (h + 1), Base ^ e} \subseteq Nat
    BY <2>1, Powers
  <2> QED
    BY <1>6, <1>7, <2>2
<1>8. ASSUME NEW e \in 0 .. Size, x < Base ^ (e + 1) PROVE h <= e
  <2> SUFFICES ASSUME e + 1 <= h PROVE FALSE
    BY <1>1, <1>6
  <2>1. e + 1 \in 0 .. Size + 1 /\ h \in 0 .. Size + 1
    BY <1>1, <1>6
  <2>2. Base ^ (e + 1) <= Base ^ h /\ {Base ^ (e + 1), Base ^ h} \subseteq Nat
    BY <2>1, Powers
  <2> QED
    BY <1>6, <1>8, <2>2
<1> QED
  BY <1>6, <1>7, <1>8

-----------------------------------------------------------------------------
(* A digit of the quotient.                                                *)

(* With a divider D of which b is the highest place, shifted by J, B2 and  *)
(* B3 powers of the base B, d the three highest digits of D and f the four *)
(* highest of m, whose highest place is M: an estimate E that is not above *)
(* f / d, aligned, is at most one too high ...                             *)
LEMMA NotTooHigh ==
  ASSUME NEW B \in Nat, NEW B2 \in Nat, NEW B3 \in Nat \ {0}, B3 = B * B2,
         NEW D \in Nat, NEW J \in Nat, NEW b \in Nat, b <= D,
         NEW d \in Nat, D * B2 <= (d + 1) * b,
         NEW m \in Nat, NEW f \in Nat, NEW M \in Nat, f * M <= m * B3,
         NEW E \in Nat, E <= B2, (E * d) * (B * (b * J)) <= f * M
  PROVE  E * (D * J) <= m + D * J
<1> DEFINE S == D * J
           P1 == B * (b * J)
           e == E * (B * J)
<1>1. /\ S \in Nat /\ b * J \in Nat /\ b * J <= S /\ P1 \in Nat
      /\ e \in Nat /\ E * d \in Nat /\ f * M \in Nat /\ m * B3 \in Nat
      /\ D * B2 \in Nat /\ (d + 1) * b \in Nat /\ E * S \in Nat
  BY Times, SMT
<1>2. (E * S) * B3 = e * (D * B2)
  BY SMT
<1>3. e * (D * B2) <= e * ((d + 1) * b)
  <2>1. (D * B2) * e <= ((d + 1) * b) * e
    BY <1>1, Times
  <2>2. (D * B2) * e = e * (D * B2) /\ ((d + 1) * b) * e = e * ((d + 1) * b)
    BY <1>1, Times
  <2> QED
    BY <2>1, <2>2
<1>4. e * ((d + 1) * b) = (E * d) * P1 + E * P1
  BY SMT
<1>5. E * P1 <= S * B3
  <2>1. E * P1 = (E * B) * (b * J) /\ E * B \in Nat
    BY SMT
  <2>2. E * B <= B2 * B /\ B2 * B = B3
    BY Times
  <2>3. (E * B) * (b * J) <= B3 * (b * J)
    BY <1>1, <2>1, <2>2, Times
  <2>4. (b * J) * B3 <= S * B3
    BY <1>1, Times
  <2>5. B3 * (b * J) = (b * J) * B3 /\ B3 * (b * J) \in Nat /\ S * B3 \in Nat
        /\ (E * B) * (b * J) \in Nat
    BY <1>1, <2>1, Times
  <2> QED
    BY <2>1, <2>3, <2>4, <2>5
<1>6. (E * S) * B3 <= m * B3 + S * B3
  <2>1. (E * d) * P1 \in Nat /\ E * P1 \in Nat /\ S * B3 \in Nat
        /\ e * (D * B2) \in Nat /\ e * ((d + 1) * b) \in Nat
    BY <1>1, Times
  <2> QED
    BY <1>1, <1>2, <1>3, <1>4, <1>5, <2>1
<1>7. m * B3 + S * B3 = (m + S) * B3
  BY <1>1, SMT
<1>8. ~((m + S) * B3 < (E * S) * B3)
  <2>1. (m + S) * B3 \in Nat /\ (E * S) * B3 \in Nat
    BY <1>1, Times
  <2> QED
    BY <1>6, <1>7, <2>1
<1>9. ~(m + S < E * S)
  <2>1. ASSUME m + S < E * S PROVE (m + S) * B3 + B3 <= (E * S) * B3
    BY <1>1, <2>1, Times
  <2>2. (m + S) * B3 \in Nat /\ (E * S) * B3 \in Nat
    BY <1>1, Times
  <2> QED
    BY <1>8, <2>1, <2>2
<1> QED
  BY <1>1, <1>9

(* ... and one that is not below it is not too low.                        *)
LEMMA NotTooLow ==
  ASSUME NEW B \in Nat, NEW B2 \in Nat, NEW B3 \in Nat \ {0}, B3 = B * B2,
         NEW D \in Nat, NEW J \in Nat, NEW b \in Nat,
         NEW d \in Nat, d * b <= D * B2,
         NEW m \in Nat, NEW f \in Nat, NEW M \in Nat, m * B3 < (f + 1) * M,
         NEW E \in Nat, (f + 1) * M <= ((E + 1) * d) * (B * (b * J))
  PROVE  m < (E + 1) * (D * J)
<1> DEFINE e == (E + 1) * (B * J)
           S == (E + 1) * (D * J)
<1>1. /\ e \in Nat /\ S \in Nat /\ d * b \in Nat /\ D * B2 \in Nat
      /\ m * B3 \in Nat /\ (f + 1) * M \in Nat
      /\ ((E + 1) * d) * (B * (b * J)) \in Nat
  BY SMT
<1>2. ((E + 1) * d) * (B * (b * J)) = (d * b) * e
  BY SMT
<1>3. (D * B2) * e = S * B3
  BY SMT
<1>4. (d * b) * e <= (D * B2) * e
  BY <1>1, Times
<1>5. (d * b) * e \in Nat /\ (D * B2) * e \in Nat
  BY <1>1, Times
<1>6. m * B3 < S * B3
  BY <1>1, <1>2, <1>3, <1>4, <1>5
<1> QED
  BY <1>1, <1>6, Times

(* The k highest digits are the number itself, but for what is cut off.    *)
LEMMA HighestOf ==
  ASSUME NEW x \in Nat \ {0}, x < Base ^ (Size + 1), NEW k \in 1 .. 4
  PROVE  /\ Highest(k, x) \in Nat
         /\ Base ^ (k - 1) <= Highest(k, x) /\ Highest(k, x) < Base ^ k
         /\ Highest(k, x) * Base ^ Hexp(x) <= x * Base ^ (k - 1)
         /\ x * Base ^ (k - 1) < (Highest(k, x) + 1) * Base ^ Hexp(x)
<1> DEFINE h == Hexp(x)
           H0 == Base ^ Hexp(x)
           c == Base ^ (k - 1)
           d == Highest(k, x)
<1>1. Size \in Nat /\ Size >= 4 /\ Base \in Nat
  BY FewPowers
<1>2. h \in 0 .. Size /\ H0 <= x /\ x < Base ^ (h + 1)
  BY HexpOf
<1>3. k - 1 \in 0 .. Size + 1 /\ k \in 0 .. Size + 1 /\ h \in 0 .. Size + 1
      /\ 1 \in 0 .. Size + 1 /\ h + 1 \in 0 .. Size + 1
  BY <1>1, <1>2
<1>4. /\ H0 \in Nat \ {0} /\ c \in Nat \ {0}
      /\ Base ^ k = Base * c /\ Base ^ (h + 1) = Base * H0
      /\ {Base ^ k, Base ^ (h + 1)} \subseteq Nat
  <2>1. Base ^ k = Base ^ 1 * Base ^ (k - 1)
    <3>1. PICK j \in 0 .. Size + 1 : j = k - 1
      BY <1>3
    <3>2. 1 + j = k
      BY <3>1
    <3>3. Base ^ k = Base ^ 1 * Base ^ j
      BY <1>3, <3>2, PowerSum
    <3> QED
      BY <3>1, <3>3
  <2>2. Base ^ (h + 1) = Base ^ 1 * Base ^ h
    BY <1>1, <1>2, <1>3, PowerSum
  <2> QED
    BY Zenon, <1>3, <2>1, <2>2, FewPowers, PowerAssumption
<1>5. d \in Nat /\ d * H0 <= x * c /\ x * c < (d + 1) * H0
  <2>1. CASE h >= k - 1
    <3>1. PICK i \in 0 .. Size + 1 : i = h - k + 1
      <4>1. h - k + 1 \in 0 .. Size + 1
        BY <1>1, <1>2, <2>1
      <4> QED
        BY <4>1
    <3>2. i + (k - 1) = h
      BY <1>2, <3>1
    <3>3. Base ^ i \in Nat \ {0} /\ H0 = Base ^ i * c
      BY <1>3, <3>2, PowerSum
    <3>4. d = x \div Base ^ i
      BY <2>1, <3>1 DEF Highest
    <3>5. d \in Nat /\ d * Base ^ i <= x /\ x < d * Base ^ i + Base ^ i
      BY Zenon, <3>3, <3>4, Div
    <3> HIDE DEF d, c
    <3>6. PICK I \in Nat : I = Base ^ i
      BY <3>3
    <3>7. d * I \in Nat /\ d * I <= x /\ x < d * I + I /\ d * I + I = (d + 1) * I
      BY <3>5, <3>6, Times
    <3>8. (d * I) * c <= x * c /\ x * c + c <= ((d + 1) * I) * c /\ x * c \in Nat
      BY <1>4, <3>5, <3>6, <3>7, Times
    <3>9. (d * I) * c = d * (I * c) /\ ((d + 1) * I) * c = (d + 1) * (I * c)
          /\ d * (I * c) \in Nat /\ (d + 1) * (I * c) \in Nat
      BY <1>4, <3>5, SMT
    <3> QED
      BY <1>4, <3>3, <3>5, <3>6, <3>8, <3>9
  <2>2. CASE ~(h >= k - 1)
    <3>1. PICK i \in 0 .. Size + 1 : i = k - 1 - h
      <4>1. k - 1 - h \in 0 .. Size + 1
        BY <1>1, <1>2, <2>2
      <4> QED
        BY <4>1
    <3>2. i + h = k - 1
      BY <1>2, <3>1
    <3>3. Base ^ i \in Nat \ {0} /\ c = Base ^ i * H0
      BY <1>3, <3>2, PowerSum
    <3>4. d = x * Base ^ i
      BY <2>2, <3>1 DEF Highest
    <3> HIDE DEF d, c, H0
    <3>5. PICK I \in Nat : I = Base ^ i
      BY <3>3
    <3>6. d \in Nat /\ d * H0 = x * (I * H0) /\ (d + 1) * H0 = d * H0 + H0
          /\ d * H0 \in Nat
      BY <1>4, <3>4, <3>5, SMT
    <3> QED
      BY <1>4, <3>3, <3>5, <3>6
  <2> QED
    BY <2>1, <2>2
<1> HIDE DEF d, c, H0, h
<1>6. c <= d
  <2>1. H0 * c <= x * c /\ H0 * c = c * H0 /\ H0 * c \in Nat /\ x * c \in Nat
        /\ (d + 1) * H0 \in Nat
    BY <1>2, <1>4, <1>5, Times DEF H0
  <2>2. c * H0 < (d + 1) * H0
    BY <1>5, <2>1
  <2>3. c < d + 1
    BY <1>4, <1>5, <2>2, Times
  <2> QED
    BY <1>4, <1>5, <2>3
<1>7. d < Base ^ k
  <2>1. x * c + c <= (Base * H0) * c /\ x * c \in Nat /\ d * H0 \in Nat
    BY <1>1, <1>2, <1>4, <1>5, Times
  <2>2. (Base * H0) * c = (Base * c) * H0 /\ (Base * H0) * c \in Nat
    BY <1>1, <1>4, SMT
  <2>3. d * H0 < Base ^ k * H0
    BY <1>4, <1>5, <2>1, <2>2
  <2> QED
    BY <1>4, <1>5, <2>3, Times
<1> QED
  BY <1>5, <1>6, <1>7 DEF d, c, H0

(* The estimate is the quotient of the highest digits, of which it drops   *)
(* the last digit if it is overlong.                                       *)
LEMMA EstimateOf ==
  ASSUME div.m \in Nat \ {0}, div.by \in Nat \ {0},
         div.m < Base ^ (Size + 1), div.by < Base ^ (Size + 1)
  PROVE  LET E == Estimate
             F == IF Overlong THEN Base ELSE 1
             d == Highest(3, div.by)
             f == Highest(4, div.m)
         IN /\ E \in Nat /\ E <= Base ^ 2
            /\ (E * F) * d <= f /\ f + 1 <= ((E + 1) * F) * d
            /\ Base * d <= f => Overlong
<1> DEFINE E == Estimate
           F == IF Overlong THEN Base ELSE 1
           d == Highest(3, div.by)
           f == Highest(4, div.m)
           q == Quotient
<1>1. /\ d \in Nat \ {0} /\ Base ^ 2 <= d
      /\ f \in Nat /\ f < Base ^ 4
      /\ Base \in Nat \ {0} /\ Base ^ 2 \in Nat \ {0} /\ Base ^ 4 = Base ^ 2 * Base ^ 2
  <2>1. 3 - 1 = 2 /\ 3 \in 1 .. 4 /\ 4 \in 1 .. 4
    OBVIOUS
  <2>2. d \in Nat /\ Base ^ 2 <= d
    BY <2>1, HighestOf
  <2>3. f \in Nat /\ f < Base ^ 4
    BY <2>1, HighestOf
  <2> QED
    BY <2>2, <2>3, FewPowers
<1>2. q = f \div d /\ q \in Nat /\ q * d <= f /\ f < q * d + d
  BY Zenon, <1>1, Div DEF Quotient
<1>3. Overlong <=> q >= Base
  BY DEF Overlong
<1>4. E = IF Overlong THEN q \div Base ELSE q
  BY DEF Estimate
<1> HIDE DEF d, f, q, E
<1>5. q * d \in Nat /\ (q + 1) * d = q * d + d
  BY <1>1, <1>2, Times
<1>6. q < Base ^ 2
  <2>1. Base ^ 2 * Base ^ 2 <= d * Base ^ 2 /\ d * Base ^ 2 = Base ^ 2 * d
        /\ Base ^ 2 * d \in Nat /\ Base ^ 2 * Base ^ 2 \in Nat
    BY <1>1, Times
  <2>2. q * d < Base ^ 2 * d
    BY <1>1, <1>2, <1>5, <2>1
  <2> QED
    BY <1>1, <1>2, <2>2, Times
<1>7. CASE Overlong
  <2>1. E \in Nat /\ E * Base <= q /\ q < E * Base + Base
    BY Zenon, <1>1, <1>2, <1>4, <1>7, Div
  <2>2. E * Base \in Nat /\ (E + 1) * Base = E * Base + Base /\ E <= E * Base
    BY <1>1, <2>1, Times
  <2>3. (E * Base) * d <= q * d /\ (E * Base) * d \in Nat
    BY <1>1, <1>2, <2>1, <2>2, Times
  <2>4. (q + 1) * d <= ((E + 1) * Base) * d /\ ((E + 1) * Base) * d \in Nat
    BY <1>1, <1>2, <2>1, <2>2, Times
  <2>5. E <= Base ^ 2
    BY <1>1, <1>2, <1>6, <2>1, <2>2
  <2> QED
    BY <1>1, <1>2, <1>5, <1>7, <2>1, <2>3, <2>4, <2>5 DEF E, d, f
<1>8. CASE ~Overlong
  <2>1. E = q /\ E * 1 = q /\ (E + 1) * 1 = q + 1
    BY <1>2, <1>4, <1>8
  <2>2. q * d <= f /\ f + 1 <= (q + 1) * d
    BY <1>1, <1>2, <1>5
  <2>3. ~(Base * d <= f)
    <3>1. (q + 1) * d <= Base * d /\ Base * d \in Nat
      BY <1>1, <1>2, <1>3, <1>8, Times
    <3> QED
      BY <1>1, <1>5, <2>2, <3>1
  <2> QED
    BY <1>1, <1>2, <1>6, <1>8, <2>1, <2>2, <2>3 DEF E, d, f
<1> QED
  BY <1>7, <1>8

(* What fits is stored as it is, and so is what is a digit longer.         *)
LEMMA Room ==
  ASSUME NEW x \in Int, Fits(x)
  PROVE  /\ Half \in Nat /\ Full \in Nat \ {0} /\ Half * 2 <= Full
         /\ Full = Base ^ Size /\ Half < Full /\ Abs(x) \in Nat /\ Base * Abs(x) + Base <= Half
         /\ Abs(x) < Half /\ Half < Base ^ (Size + 1) /\ Abs(x) < Base ^ (Size + 1)
         /\ x \in Number
<1>1. Size \in Nat /\ Base \in Nat \ {0} /\ Base >= 2 /\ Size \in 0 .. Size + 1
      /\ Size + 1 \in 0 .. Size + 1
  BY FewPowers
<1>2. Full \in Nat \ {0} /\ Full <= Base ^ (Size + 1) /\ Base ^ (Size + 1) \in Nat
  BY <1>1, Powers DEF Full
<1>3. Half \in Nat /\ Half * 2 <= Full /\ Half < Full
  <2>1. Half \in Nat /\ Half * 2 <= Full
    BY <1>2, Div DEF Half
  <2> QED
    BY <1>2, <2>1
<1> DEFINE r == Half \div Base
<1>4. r \in Nat /\ r * Base <= Half
  BY <1>1, <1>3, Div
<1>5. Abs(x) \in Nat /\ Abs(x) < r
  BY DEF Abs, Fits
<1> HIDE DEF r
<1> DEFINE a == Abs(x)
<1>6. a * Base + Base <= r * Base /\ a * Base \in Nat /\ r * Base \in Nat
      /\ Base * a = a * Base /\ a <= a * Base
  BY <1>1, <1>4, <1>5, Times
<1>7. Base * a + Base <= Half /\ a < Half
  BY <1>1, <1>3, <1>4, <1>5, <1>6
<1> HIDE DEF a
<1>8. x \in Number
  BY <1>3, <1>7 DEF Number, Abs, a
<1> QED
  BY <1>2, <1>3, <1>5, <1>7, <1>8 DEF a, Full

LEMMA WrapOf ==
  ASSUME NEW x \in Int, Half \in Nat, Full \in Nat \ {0}, Half * 2 <= Full, x \in Number
  PROVE  Wrap(x) = x
<1>1. x + Half \in Int /\ x + Half \in 0 .. Full - 1
  BY DEF Number
<1>2. (x + Half) % Full = x + Half
  BY Zenon, <1>1, Mod
<1> QED
  BY <1>2 DEF Wrap

(* A division whose estimates have not slipped.                            *)
Shape ==
  /\ div \in [of : Int, by : Nat \ {0}, m : Nat, shifted : Nat, left : 0 .. Size]
  /\ Fits(div.of) /\ Fits(div.by) /\ div.m <= Abs(div.of)
  /\ \E t \in Nat : Abs(div.of) = t * div.by + div.m
  /\ ~Dividing => div.shifted = div.by /\ div.m < div.by
  /\ Dividing => /\ Hexp(div.by) + div.left <= Size
                 /\ div.shifted = div.by * Base ^ (div.left - 1)
                 /\ div.m < Base * div.shifted

(* The estimate takes at most one time too much, and unless it slips all   *)
(* that can be taken.                                                      *)
LEMMA EstimateRight ==
  ASSUME Shape, Dividing, Takes
  PROVE  /\ Estimate \in Nat
         /\ Estimate * div.shifted <= div.m + div.shifted
         /\ ~Slips => div.m < (Estimate + 1) * div.shifted
<1> DEFINE E == Estimate
           F == IF Overlong THEN Base ELSE 1
           m == div.m
           D == div.by
           S == div.shifted
           d == Highest(3, div.by)
           f == Highest(4, div.m)
           b == Base ^ Hexp(div.by)
           J == Base ^ (div.left - 1)
           M == Base ^ Hexp(div.m)
           n == Hexp(div.by) + (div.left - 1)
           N == Base ^ (Hexp(div.by) + (div.left - 1))
<1>1. /\ m \in Nat /\ D \in Nat \ {0} /\ S \in Nat /\ div.left \in 0 .. Size
      /\ div.left > 0 /\ div.of \in Int /\ Fits(div.of) /\ m <= Abs(div.of)
      /\ Fits(D) /\ Hexp(D) + div.left <= Size /\ S = D * J /\ m < Base * S
  BY DEF Shape, Dividing
<1>2. /\ Size \in Nat /\ Size >= 4 /\ Base \in Nat \ {0} /\ Base ^ 3 = Base * Base ^ 2
      /\ Base ^ 2 \in Nat \ {0} /\ Base ^ 3 \in Nat \ {0}
  BY FewPowers
<1>3. D < Base ^ (Size + 1) /\ m < Base ^ (Size + 1) /\ Base ^ (Size + 1) \in Nat
  <2>1. Abs(div.of) < Base ^ (Size + 1) /\ Abs(D) < Base ^ (Size + 1)
        /\ Abs(div.of) \in Nat
    BY <1>1, Room
  <2>2. Abs(D) = D
    BY <1>1 DEF Abs
  <2>3. Size + 1 \in 0 .. Size + 1
    BY <1>2
  <2> QED
    BY <1>1, <2>1, <2>2, <2>3, PowerAssumption
<1>4. Hexp(D) \in 0 .. Size /\ b <= D /\ D < Base ^ (Hexp(D) + 1)
  BY <1>1, <1>3, HexpOf
<1>5. /\ n \in 0 .. Size - 1 /\ div.left - 1 \in 0 .. Size + 1
      /\ Hexp(D) \in 0 .. Size + 1 /\ Hexp(D) + 1 \in 0 .. Size + 1
      /\ n \in 0 .. Size + 1 /\ n + 1 \in 0 .. Size + 1 /\ n + 2 \in 0 .. Size + 1
      /\ n \in 0 .. Size /\ n + 1 \in 0 .. Size /\ 1 \in 0 .. Size + 1
      /\ (Hexp(D) + 1) + (div.left - 1) = n + 1 /\ Hexp(D) + (div.left - 1) = n
      /\ (n + 1) + 1 = n + 2
  BY <1>1, <1>2, <1>4
<1>6. /\ b \in Nat \ {0} /\ J \in Nat \ {0} /\ N \in Nat \ {0} /\ N = b * J
      /\ Base ^ (n + 1) = Base * N /\ Base ^ (n + 2) = Base * (Base * N)
      /\ Base ^ (Hexp(D) + 1) = Base * b
  <2>1. b \in Nat \ {0} /\ J \in Nat \ {0} /\ N \in Nat \ {0}
    BY <1>5, PowerAssumption
  <2>2. N = b * J
    BY <1>5, PowerSum
  <2>3. Base ^ (n + 1) = Base ^ n * Base ^ 1 /\ Base ^ (n + 2) = Base ^ (n + 1) * Base ^ 1
        /\ Base ^ (Hexp(D) + 1) = Base ^ Hexp(D) * Base ^ 1
    BY <1>5, PowerSum
  <2>4. Base ^ 1 = Base /\ N * Base = Base * N
        /\ (Base * N) * Base = Base * (Base * N) /\ b * Base = Base * b
    BY <1>2, <2>1, PowerAssumption, SMT
  <2> QED
    BY <2>1, <2>2, <2>3, <2>4
<1>7. N <= S /\ S < Base * N
  <2>1. b * J <= D * J
    BY <1>1, <1>4, <1>6, Times
  <2>2. D * J + J <= (Base * b) * J /\ D * J \in Nat
    BY <1>1, <1>2, <1>4, <1>6, Times
  <2>3. (Base * b) * J = Base * (b * J) /\ Base * (b * J) \in Nat
    BY <1>2, <1>6, SMT
  <2> QED
    BY <1>1, <1>6, <2>1, <2>2, <2>3
<1>8. S <= m
  BY <1>1 DEF Takes, Cmp
<1>9. Hexp(m) \in {n, n + 1} /\ Hexp(S) = n /\ m \in Nat \ {0}
  <2>1. m \in Nat \ {0} /\ S \in Nat \ {0} /\ S < Base ^ (Size + 1)
    BY <1>1, <1>3, <1>6, <1>7, <1>8
  <2>2. n <= Hexp(m) /\ n <= Hexp(S)
    <3>1. N <= m
      BY <1>1, <1>6, <1>7, <1>8
    <3> QED
      BY <1>3, <1>5, <1>7, <2>1, <3>1, HexpOf
  <2>3. Hexp(S) <= n
    BY <1>5, <1>6, <1>7, <2>1, HexpOf
  <2>4. Hexp(m) <= n + 1
    <3>1. S * Base + Base <= (Base * N) * Base /\ S * Base = Base * S
          /\ (Base * N) * Base = Base * (Base * N) /\ Base * S \in Nat
          /\ Base * (Base * N) \in Nat
      <4>1. Base * N \in Nat
        BY <1>2, <1>6, Times
      <4> QED
        BY <1>1, <1>2, <1>7, <4>1, Times
    <3>2. m < Base ^ (n + 2)
      BY <1>1, <1>2, <1>6, <3>1
    <3>3. m < Base ^ ((n + 1) + 1)
      BY <1>5, <3>2
    <3> QED
      BY <1>3, <1>5, <2>1, <3>3, HexpOf
  <2>5. Hexp(m) \in 0 .. Size /\ Hexp(S) \in 0 .. Size
    BY <1>3, <2>1, HexpOf
  <2> QED
    BY <1>5, <2>1, <2>2, <2>3, <2>4, <2>5
<1>10. /\ d \in Nat /\ d * b <= D * Base ^ 2 /\ D * Base ^ 2 <= (d + 1) * b
       /\ f \in Nat /\ f * M <= m * Base ^ 3 /\ m * Base ^ 3 < (f + 1) * M
       /\ Base ^ 2 <= d
  <2>1. 3 - 1 = 2 /\ 4 - 1 = 3 /\ 3 \in 1 .. 4 /\ 4 \in 1 .. 4
    OBVIOUS
  <2>2. /\ d \in Nat /\ d * b <= D * Base ^ 2 /\ D * Base ^ 2 < (d + 1) * b
        /\ Base ^ 2 <= d
    BY <1>1, <1>3, <2>1, HighestOf
  <2>3. f \in Nat /\ f * M <= m * Base ^ 3 /\ m * Base ^ 3 < (f + 1) * M
    BY <1>3, <1>9, <2>1, HighestOf
  <2>4. D * Base ^ 2 \in Nat /\ (d + 1) * b \in Nat
    BY <1>1, <1>2, <1>6, <2>2, Times
  <2> QED
    BY <2>2, <2>3, <2>4
<1>11. /\ E \in Nat /\ E <= Base ^ 2
       /\ (E * F) * d <= f /\ f + 1 <= ((E + 1) * F) * d
       /\ Base * d <= f => Overlong
  BY <1>1, <1>3, <1>9, EstimateOf
<1>12. F \in Nat \ {0} /\ (Overlong => F = Base) /\ (~Overlong => F = 1)
       /\ M \in Nat \ {0}
  <2>1. Hexp(m) \in 0 .. Size + 1
    BY <1>5, <1>9
  <2> QED
    BY <1>2, <2>1, PowerAssumption
<1>13. Slips <=> Overlong /\ Hexp(m) = n + 1
  BY <1>5, <1>9 DEF Slips
<1> HIDE DEF E, F, m, D, S, d, f, b, J, M, n, N
(* Of equally long numbers the estimate is overlong.                       *)
<1>14. Hexp(m) = n => Overlong /\ M = N
  <2> SUFFICES ASSUME Hexp(m) = n PROVE Overlong /\ M = N
    OBVIOUS
  <2>1. M = N
    BY DEF M, N, n, m
  <2>2. (Base * d) * N = (d * b) * (Base * J)
    BY <1>2, <1>6, <1>10, SMT
  <2>3. (d * b) * (Base * J) <= (D * Base ^ 2) * (Base * J)
    BY <1>1, <1>2, <1>6, <1>10, Times
  <2>4. (D * Base ^ 2) * (Base * J) = S * Base ^ 3
    <3>1. \A z \in Nat : (D * z) * (Base * J) = (D * J) * (Base * z)
      BY <1>1, <1>2, <1>6, SMT
    <3> QED
      BY Zenon, <1>1, <1>2, <3>1
  <2>5. S * Base ^ 3 <= m * Base ^ 3 /\ S * Base ^ 3 \in Nat /\ m * Base ^ 3 \in Nat
    BY <1>1, <1>2, <1>8, Times
  <2>6. Base * d \in Nat /\ (Base * d) * N \in Nat /\ (f + 1) * N \in Nat
    BY <1>2, <1>6, <1>10, Times
  <2>7. (Base * d) * N < (f + 1) * N
    BY <1>10, <2>1, <2>2, <2>3, <2>4, <2>5, <2>6
  <2>8. Base * d < f + 1
    BY <1>6, <1>10, <2>6, <2>7, Times
  <2>9. Base * d <= f
    BY <1>10, <2>6, <2>8
  <2> QED
    BY <1>11, <2>1, <2>9
<1>15. Hexp(m) = n + 1 => M = Base * N
  BY <1>6 DEF M, n, m
<1>16. (E * d) * (Base * (b * J)) <= f * M
  <2>1. E * F \in Nat /\ (E * F) * d \in Nat /\ E * d \in Nat
        /\ (E * F) * d = (E * d) * F /\ (E * d) <= (E * d) * F
    BY <1>10, <1>11, <1>12, Times, SMT
  <2>2. CASE Hexp(m) = n
    <3>1. ((E * F) * d) * M <= f * M
      BY <1>10, <1>11, <1>12, <2>1, Times
    <3>2. F = Base /\ M = b * J
      BY <1>6, <1>12, <1>14, <2>2
    <3>3. ((E * F) * d) * M = (E * d) * (Base * (b * J))
      BY <1>2, <1>6, <1>10, <1>11, <3>2, SMT
    <3> QED
      BY <3>1, <3>3
  <2>3. CASE Hexp(m) = n + 1
    <3>1. E * d <= f
      BY <1>10, <1>11, <2>1
    <3>2. (E * d) * M <= f * M
      BY <1>10, <1>12, <2>1, <3>1, Times
    <3> QED
      BY <1>6, <1>15, <2>3, <3>2
  <2> QED
    BY <1>9, <2>2, <2>3
<1>17. E * (D * J) <= m + D * J
  BY <1>1, <1>2, <1>4, <1>6, <1>10, <1>11, <1>12, <1>16, NotTooHigh DEF b, D
<1>18. ASSUME ~Slips PROVE m < (E + 1) * (D * J)
  <2>1. F * M = Base * (b * J)
    <3>1. CASE Hexp(m) = n
      BY <1>6, <1>12, <1>14, <3>1
    <3>2. CASE Hexp(m) = n + 1
      <4>1. F = 1 /\ M = Base * N
        BY <1>12, <1>13, <1>15, <1>18, <3>2
      <4> QED
        BY <1>6, <1>12, <4>1
    <3> QED
      BY <1>9, <3>1, <3>2
  <2>2. (f + 1) * M <= (((E + 1) * F) * d) * M
    <3>1. ((E + 1) * F) * d \in Nat
      BY <1>10, <1>11, <1>12, Times
    <3> QED
      BY <1>10, <1>11, <1>12, <3>1, Times
  <2>3. (((E + 1) * F) * d) * M = ((E + 1) * d) * (F * M)
    BY <1>10, <1>11, <1>12, SMT
  <2>4. (f + 1) * M <= ((E + 1) * d) * (Base * (b * J))
    BY <2>1, <2>2, <2>3
  <2> QED
    BY <1>1, <1>2, <1>6, <1>10, <1>11, <1>12, <2>4, NotTooLow
<1> QED
  BY <1>1, <1>11, <1>17, <1>18 DEF E, m, S

(* The division of n by d begins.                                          *)
LEMMA DivideShape ==
  ASSUME NEW n \in Int, Fits(n), NEW d \in Nat \ {0}, Fits(d), Divide(n, d)
  PROVE  Shape' /\ div'.by = d /\ div'.of = n
<1> DEFINE a == Abs(n)
           more == Hexp(Abs(n)) - Hexp(d)
<1>1. /\ a \in Nat /\ Base * a + Base <= Half /\ a < Half /\ Half < Full
      /\ Full = Base ^ Size /\ a < Base ^ (Size + 1)
      /\ Half \in Nat /\ Full \in Nat \ {0} /\ Half * 2 <= Full
  BY Room
<1>2. d < Base ^ (Size + 1)
  <2>1. Abs(d) < Base ^ (Size + 1) /\ Abs(d) = d
    BY Room DEF Abs
  <2> QED
    BY <2>1
<1>3. Size \in Nat /\ Base \in Nat \ {0} /\ Base ^ 0 = 1 /\ Base ^ 1 = Base
  BY FewPowers
<1>4. Cmp(d, a) > 0 <=> a < d
  BY <1>1 DEF Cmp
<1>5. a = 0 * d + a
  BY <1>1
<1> HIDE DEF a
<1>6. CASE a < d
  <2>1. div' = [of |-> n, by |-> d, m |-> a, shifted |-> d, left |-> 0]
    BY <1>4, <1>6 DEF Divide, a
  <2>2. \E t \in Nat : a = t * d + a
    BY <1>5
  <2>3. Abs(div'.of) = a /\ ~(Dividing)'
    BY <2>1 DEF a, Dividing
  <2> QED
    BY <1>1, <1>3, <1>6, <2>1, <2>2, <2>3 DEF Shape, Dividing
<1>7. CASE ~(a < d)
  <2>1. d <= a /\ a \in Nat \ {0}
    BY <1>1, <1>7
  <2>2. /\ Hexp(d) \in 0 .. Size /\ Base ^ Hexp(d) <= d
        /\ d < Base ^ (Hexp(d) + 1)
    BY <1>2, HexpOf
  <2>3. /\ Hexp(a) \in 0 .. Size /\ Base ^ Hexp(a) <= a
        /\ a < Base ^ (Hexp(a) + 1)
    BY <1>1, <2>1, HexpOf
  <2>4. /\ Base ^ Hexp(d) \in Nat \ {0} /\ Base ^ Hexp(a) \in Nat \ {0}
        /\ Base ^ (Hexp(d) + 1) \in Nat \ {0} /\ Base ^ (Hexp(a) + 1) \in Nat \ {0}
    <3>1. {Hexp(d), Hexp(a), Hexp(d) + 1, Hexp(a) + 1} \subseteq 0 .. Size + 1
      BY <1>3, <2>2, <2>3
    <3> QED
      BY <3>1, PowerAssumption
  <2>5. Hexp(a) < Size
    <3>1. Hexp(a) # Size
      BY <1>1, <2>3
    <3> QED
      BY <1>3, <2>3, <3>1
  <2>6. Hexp(d) <= Hexp(a)
    <3>1. Base ^ Hexp(d) <= a
      BY <2>1, <2>2, <2>4
    <3> QED
      BY <1>1, <2>1, <2>2, <3>1, HexpOf
  <2>7. PICK j \in 0 .. Size + 1 : j = more
    <3>1. more \in 0 .. Size + 1
      BY <1>3, <2>2, <2>3, <2>6 DEF a
    <3> QED
      BY <3>1
  <2>8. /\ Hexp(d) + j = Hexp(a) /\ (Hexp(d) + 1) + j = Hexp(a) + 1
        /\ 1 + Hexp(a) = Hexp(a) + 1 /\ 1 \in 0 .. Size + 1
        /\ {Hexp(d), Hexp(a), Hexp(d) + 1, Hexp(a) + 1} \subseteq 0 .. Size + 1
        /\ j + 1 \in 0 .. Size /\ j + 1 > 0 /\ (j + 1) - 1 = j
        /\ Hexp(d) + (j + 1) <= Size
    BY <1>3, <2>2, <2>3, <2>5, <2>7 DEF a
  <2>9. PICK J \in Nat \ {0} : J = Base ^ j
    BY PowerAssumption
  <2>10. /\ Base ^ Hexp(a) = Base ^ Hexp(d) * J
         /\ Base ^ (Hexp(a) + 1) = Base ^ (Hexp(d) + 1) * J
         /\ Base ^ (Hexp(a) + 1) = Base * Base ^ Hexp(a)
    BY <1>3, <2>8, <2>9, PowerSum
  <2>11. /\ d * J \in Nat
         /\ Base ^ Hexp(d) * J <= d * J
         /\ d * J <= Base ^ (Hexp(d) + 1) * J
    BY <2>2, <2>4, <2>9, Times
  <2>12. d * J <= Base * a
    <3>1. Base ^ Hexp(a) * Base <= a * Base /\ Base ^ Hexp(a) * Base = Base * Base ^ Hexp(a)
          /\ a * Base = Base * a /\ a * Base \in Nat
      BY <1>1, <1>3, <2>3, <2>4, Times
    <3>2. d * J <= Base ^ (Hexp(a) + 1)
      BY <2>10, <2>11
    <3>3. Base ^ (Hexp(a) + 1) <= a * Base
      BY <2>10, <3>1
    <3> QED
      BY <2>4, <2>11, <3>1, <3>2, <3>3
  <2>13. a < Base * (d * J)
    <3>1. Base ^ Hexp(a) <= d * J
      BY <2>10, <2>11
    <3>2. Base ^ Hexp(a) * Base <= (d * J) * Base /\ (d * J) * Base = Base * (d * J)
          /\ Base ^ Hexp(a) * Base = Base * Base ^ Hexp(a)
      BY <1>3, <2>4, <2>11, <3>1, Times
    <3>3. Base * (d * J) \in Nat
      BY <1>3, <2>11, Times
    <3> QED
      BY <1>1, <2>3, <2>4, <2>10, <3>2, <3>3
  <2>14. ByteShl(d, j) = d * J
    <3>1. Base * a \in Nat
      BY <1>1, <1>3, Times
    <3>2. d * J \in Number
      BY <1>1, <1>3, <2>11, <2>12, <3>1 DEF Number
    <3>3. Wrap(d * J) = d * J
      BY <1>1, <2>11, <3>2, WrapOf
    <3> QED
      BY <2>9, <3>3 DEF ByteShl
  <2>15. div' = [of |-> n, by |-> d, m |-> a, shifted |-> d * J, left |-> j + 1]
    BY <1>4, <1>7, <2>7, <2>14 DEF Divide, a
  <2>16. \E t \in Nat : a = t * d + a
    BY <1>5
  <2>17. Abs(div'.of) = a /\ (Dividing)'
    BY <2>8, <2>15 DEF a, Dividing
  <2> QED
    BY <1>1, <2>8, <2>9, <2>11, <2>13, <2>15, <2>16, <2>17 DEF Shape
<1> QED
  BY <1>6, <1>7

(* A digit more.                                                           *)
LEMMA DigitShape ==
  ASSUME Shape, Digit, ~slipped'
  PROVE  Shape' /\ div'.by = div.by /\ div'.of = div.of
<1>1. /\ Dividing /\ ~(Takes /\ Slips)
      /\ div' = [div EXCEPT
           !.m = IF Takes THEN Reduced ELSE @,
           !.shifted = IF div.left > 1 THEN ByteShr(@, 1) ELSE @,
           !.left = @ - 1]
  BY Zenon DEF Digit
<1>2. /\ div \in [of : Int, by : Nat \ {0}, m : Nat, shifted : Nat, left : 0 .. Size]
      /\ Fits(div.of) /\ Fits(div.by) /\ div.m <= Abs(div.of)
      /\ Hexp(div.by) + div.left <= Size /\ div.left > 0
      /\ div.shifted = div.by * Base ^ (div.left - 1)
      /\ div.m < Base * div.shifted
  BY <1>1 DEF Shape, Dividing
<1>3. PICK t \in Nat : Abs(div.of) = t * div.by + div.m
  BY DEF Shape
<1>4. Size \in Nat /\ Base \in Nat \ {0} /\ Base ^ 0 = 1 /\ Base ^ 1 = Base
  BY FewPowers
<1> DEFINE m == div.m
           S == div.shifted
           D == div.by
           J == Base ^ (div.left - 1)
<1>5. m \in Nat /\ S \in Nat /\ D \in Nat \ {0} /\ J \in Nat \ {0} /\ S = D * J
      /\ Hexp(D) \in Int
  <2>1. div.left - 1 \in 0 .. Size + 1
    BY <1>2, <1>4
  <2>2. J \in Nat \ {0}
    BY <2>1, PowerAssumption
  <2>3. Hexp(D) \in Int
    <3>1. Abs(D) < Base ^ (Size + 1) /\ Abs(D) = D
      BY <1>2, Room DEF Abs
    <3>2. Hexp(D) \in 0 .. Size
      BY <1>2, <3>1, HexpOf
    <3> QED
      BY <1>4, <3>2
  <2> QED
    BY <1>2, <2>2, <2>3
(* What is taken away is a multiple of the shifted divider.                *)
<1>6. \E c \in Nat : div'.m = m - c * S /\ c * S <= m /\ div'.m < S
  <2>1. CASE Takes
    <3>1. /\ Estimate \in Nat /\ Estimate * S <= m + S
          /\ m < (Estimate + 1) * S
      BY <1>1, <2>1, EstimateRight
    <3> DEFINE E == Estimate
               x == m - E * S
    <3>2. div'.m = IF x < 0 THEN x + S ELSE x
      BY <1>1, <1>2, <2>1 DEF Reduced
    <3> HIDE DEF E, m, S
    <3>3. E * S \in Nat /\ (E + 1) * S = E * S + S
      BY <1>5, <3>1, Times DEF E
    <3>4. CASE x < 0
      <4>1. E # 0
        BY <1>5, <3>3, <3>4
      <4>2. E - 1 \in Nat /\ (E - 1) * S = E * S - S
        <5>1. E - 1 \in Nat
          BY <3>1, <4>1 DEF E
        <5>2. ((E - 1) + 1) * S = (E - 1) * S + S /\ (E - 1) * S \in Nat
          BY <1>5, <5>1, Times
        <5>3. (E - 1) + 1 = E
          BY <3>1 DEF E
        <5> QED
          BY <1>5, <3>3, <5>1, <5>2, <5>3
      <4> QED
        BY <1>5, <3>1, <3>2, <3>3, <3>4, <4>2 DEF E
    <3>5. CASE ~(x < 0)
      BY <1>5, <3>1, <3>2, <3>3, <3>5 DEF E
    <3> QED
      BY <3>4, <3>5
  <2>2. CASE ~Takes
    <3>1. div'.m = m /\ m < S
      BY <1>1, <1>2, <2>2 DEF Takes, Cmp
    <3>2. 0 * S = 0
      BY <1>5
    <3> QED
      BY <1>5, <3>1, <3>2
  <2> QED
    BY <2>1, <2>2
<1>7. PICK c \in Nat : div'.m = m - c * S /\ c * S <= m /\ div'.m < S
  BY <1>6
<1> HIDE DEF m, S, D, J
<1>8. c * S \in Nat /\ c * S = (c * J) * D /\ c * J \in Nat
      /\ (t + c * J) * D = t * D + c * S /\ t * D \in Nat
  BY <1>5, SMT
<1>9. div'.m \in Nat /\ div'.m <= m /\ \E u \in Nat : Abs(div.of) = u * D + div'.m
  <2>1. div'.m \in Nat /\ div'.m <= m
    BY <1>5, <1>7, <1>8
  <2>2. Abs(div.of) = t * D + m
    BY <1>3 DEF m, D
  <2>3. Abs(div.of) = (t + c * J) * D + div'.m
    BY <1>5, <1>7, <1>8, <2>2
  <2>4. t + c * J \in Nat
    BY <1>8
  <2> QED
    BY <2>1, <2>3, <2>4
<1>10. /\ div'.of = div.of /\ div'.by = D /\ div'.left = div.left - 1
       /\ div'.shifted = IF div.left > 1 THEN ByteShr(S, 1) ELSE S
  BY <1>1, <1>2 DEF S, D
<1>11. Abs(div.of) \in Nat /\ Abs(div'.of) = Abs(div.of)
  BY <1>2, <1>10 DEF Abs
<1>12. CASE div.left > 1
  <2>1. PICK i \in 0 .. Size + 1 : i = div.left - 2
    <3>1. div.left - 2 \in 0 .. Size + 1
      BY <1>2, <1>4, <1>12
    <3> QED
      BY <3>1
  <2>2. i + 1 = div.left - 1 /\ i = div'.left - 1 /\ div.left - 1 \in 0 .. Size + 1
        /\ 1 \in 0 .. Size + 1 /\ div'.left > 0 /\ div'.left \in 0 .. Size
    BY <1>2, <1>4, <1>10, <1>12, <2>1
  <2>3. PICK I \in Nat \ {0} : I = Base ^ i
    BY PowerAssumption
  <2>4. J = I * Base
    <3>1. PICK k \in 0 .. Size + 1 : k = div.left - 1
      BY <2>2
    <3>2. Base ^ k = Base ^ i * Base ^ 1
      BY <2>2, <3>1, PowerSum
    <3> QED
      BY <1>4, <2>3, <3>1, <3>2 DEF J
  <2>5. D * I \in Nat /\ S = (D * I) * Base /\ S = Base * (D * I)
    BY <1>4, <1>5, <2>3, <2>4, SMT
  <2>6. S \div Base = D * I
    BY <1>4, <2>5, SMT
  <2>7. div'.shifted = D * I
    BY <1>4, <1>10, <1>12, <2>6 DEF ByteShr
  <2>8. div' \in [of : Int, by : Nat \ {0}, m : Nat, shifted : Nat, left : 0 .. Size]
    BY Zenon, <1>1, <1>2, <1>9, <2>2, <2>5, <2>7
  <2>9. Hexp(div'.by) + div'.left <= Size
    BY <1>2, <1>4, <1>5, <1>10 DEF D
  <2>10. (Dividing)' /\ div'.m <= Abs(div.of)
    BY <1>2, <1>9, <1>11, <2>2 DEF Dividing, m
  <2> QED
    BY <1>2, <1>7, <1>9, <1>10, <1>11, <2>2, <2>3, <2>5, <2>7, <2>8, <2>9, <2>10
       DEF Shape, D
<1>13. CASE ~(div.left > 1)
  <2>1. div.left = 1 /\ div'.left = 0 /\ div.left - 1 = 0
    BY <1>2, <1>4, <1>10, <1>13
  <2>2. J = 1
    BY <1>4, <2>1 DEF J
  <2>3. S = D /\ div'.shifted = D
    BY <1>5, <1>10, <1>13, <2>2
  <2>4. div' \in [of : Int, by : Nat \ {0}, m : Nat, shifted : Nat, left : 0 .. Size]
    <3>1. div'.m \in Nat /\ div'.shifted \in Nat /\ div'.left \in 0 .. Size
      BY <1>4, <1>5, <1>9, <2>1, <2>3
    <3> QED
      BY Zenon, <1>1, <1>2, <3>1
  <2>5. ~(Dividing)' /\ div'.m <= Abs(div.of)
    BY <1>2, <1>9, <1>11, <2>1 DEF Dividing, m
  <2> QED
    BY <1>2, <1>7, <1>9, <1>10, <1>11, <2>3, <2>4, <2>5 DEF Shape, D
<1> QED
  BY <1>10, <1>12, <1>13 DEF D

-----------------------------------------------------------------------------
(* What is kept, until an estimate slips.                                  *)

Regs == {"k", "k_inv", "r", "s", "w", "u1", "u2", "t0", "t1", "v"}

InCall == {"operand", "bit", "acc", "base", "mod"}
Divides == {"operand", "acc", "base", "mod"}

Types ==
  /\ phase \in {"sign", "signed", "check"}
  /\ pc \in {"random", "gcd", "call", "done"} \cup InCall
  /\ pc = "random" => phase = "sign"
  /\ priv \in 0 .. Q - 1 /\ pub \in 0 .. P - 1 /\ H \in Nat /\ Fits(H + Q)
  /\ call \in Nat \ {0} /\ (pc \in InCall => call <= Len(Calls))
  /\ loop \in [acc : Int, base : Int, e : Int, bits : Int]

Registers ==
  /\ reg \in [Regs -> Int] /\ \A x \in Regs : Fits(reg[x])
  /\ reg.k \in 0 .. Q - 1
  /\ {reg.u1, reg.u2, reg.t0, reg.t1, reg.v} \subseteq 0 .. P - 1
  /\ reg.s \in Nat /\ Fits((reg.s * Q) * Q + Q)
  /\ phase = "sign" => reg.s \in 0 .. Q - 1

(* The gcd.                                                                *)
Coefficients ==
  /\ gcd \in [u : Nat, v : Nat \ {0}, A : Int, B : Int, C : Int, D : Int]
  /\ gcd.A * X + gcd.B * Q = gcd.u
  /\ gcd.C * X + gcd.D * Q = gcd.v

(* With each halving u or v gives up as much as the coefficients, of which *)
(* one may have doubled before, may grow: a is that of n, o the other one. *)
Kept(n, o, a, K) ==
  /\ (n * o) * K <= X * Q
  /\ Abs(a) <= 2 * (K * Q) /\ (Odd(n) => Abs(a) <= K * Q)

Bounded(K) == Kept(gcd.u, gcd.v, gcd.A, K) /\ Kept(gcd.v, gcd.u, gcd.C, K)

Growth ==
  /\ Odd(gcd.u) \/ Odd(gcd.v)
  /\ \E K \in Nat \ {0} : Bounded(K)
  /\ Odd(gcd.v) => Abs(gcd.C) <= (X * Q) * Q

Inverts ==
  pc = "call" /\ call = 1 =>
    ((IF phase = "sign" THEN reg.k_inv ELSE reg.w) * X) % Q = 1

(* The loops of mulmod and powmod.                                         *)
Loops ==
  /\ pc \in InCall \ {"mod"} => loop.acc \in 0 .. Call.mod - 1
  /\ pc \in {"operand"} => Fits(loop.base)
  /\ pc \in {"bit", "acc"} => loop.base \in 0 .. Call.mod - 1
  /\ Dividing => pc \in Divides
  /\ pc \in Divides => div.by = Call.mod

Good ==
  /\ Types /\ Registers /\ Shape /\ Inverts /\ Loops
  /\ pc # "random" => Coefficients
  /\ pc = "gcd" => Growth

IInv == slipped \in BOOLEAN /\ (~slipped => Good)

-----------------------------------------------------------------------------
(* What fits.                                                              *)

LEMMA Smaller ==
  ASSUME NEW x \in Int, NEW y \in Int, Fits(y), Abs(x) <= Abs(y)
  PROVE  Fits(x)
<1>1. Half \in Nat /\ Base \in Nat \ {0}
  BY Room, FewPowers
<1>2. Half \div Base \in Nat
  BY <1>1, Div
<1>3. Abs(x) \in Nat /\ Abs(y) \in Nat
  BY DEF Abs
<1> QED
  BY <1>2, <1>3 DEF Fits

LEMMA Keys ==
  /\ P \in Nat /\ Q \in Nat \ {0} /\ G \in Nat /\ Q > 1 /\ Q % 2 = 1 /\ P > Q /\ G < P
  /\ Fits(P * P) /\ P * P \in Nat
  /\ \A x \in 0 .. P - 1, y \in 0 .. P - 1 :
       /\ x * y \in Nat /\ x + y \in Nat
       /\ Fits(x) /\ Fits(x + y) /\ Fits(x * y)
  /\ Fits(P) /\ Fits(Q) /\ Fits((Q * Q) * Q + Q) /\ Q * Q \in Nat
<1>1. /\ P \in Nat /\ Q \in Nat \ {0} /\ G \in Nat /\ Q > 1 /\ Q % 2 = 1
      /\ P > Q /\ G < P /\ P > 2
  BY DsaAssumption
<1>2. Fits(P * P) /\ Fits((Q * Q) * Q + Q)
  BY SizeAssumption
<1>3. P * P \in Nat /\ 3 * P <= P * P /\ 3 * P \in Nat /\ Q * Q \in Nat
  BY <1>1, Times
<1>4. ASSUME NEW z \in Nat, z <= P * P PROVE Fits(z)
  <2>1. Abs(z) <= Abs(P * P)
    BY <1>3, <1>4 DEF Abs
  <2> QED
    BY <1>2, <1>3, <2>1, Smaller
<1>5. ASSUME NEW x \in 0 .. P - 1, NEW y \in 0 .. P - 1
      PROVE  /\ x * y \in Nat /\ x + y \in Nat
             /\ Fits(x) /\ Fits(x + y) /\ Fits(x * y)
  <2>1. x \in Nat /\ y \in Nat /\ x <= P /\ y <= P
    BY <1>1
  <2>2. x * y \in Nat /\ x * y <= P * y /\ P * y = y * P /\ y * P <= P * P
        /\ y * P \in Nat
    BY <1>1, <2>1, Times
  <2> QED
    BY <1>1, <1>3, <1>4, <2>1, <2>2
<1>6. Fits(P) /\ Fits(Q)
  BY <1>1, <1>3, <1>4
<1> QED
  BY <1>1, <1>2, <1>3, <1>5, <1>6

LEMMA Modest ==
  ASSUME NEW x \in 0 .. Q - 1
  PROVE  x \in Nat /\ Fits(x) /\ Fits((x * Q) * Q + Q)
<1>1. x \in Nat /\ x <= Q /\ x \in 0 .. P - 1
  BY Keys
<1>2. Fits(x)
  BY <1>1, Keys
<1>3. x * Q <= Q * Q /\ x * Q \in Nat
  BY <1>1, Keys, Times
<1>4. (x * Q) * Q <= (Q * Q) * Q /\ (x * Q) * Q \in Nat /\ (Q * Q) * Q \in Nat
  BY <1>3, Keys, Times
<1>5. Abs((x * Q) * Q + Q) <= Abs((Q * Q) * Q + Q)
  BY <1>4, Keys DEF Abs
<1>6. Fits((x * Q) * Q + Q)
  BY <1>4, <1>5, Keys, Smaller
<1> QED
  BY <1>1, <1>2, <1>6

LEMMA InvertedFits ==
  ASSUME Registers, phase \in {"sign", "signed", "check"}
  PROVE  X \in Nat /\ Fits((X * Q) * Q + Q) /\ X * Q \in Nat /\ (X * Q) * Q \in Nat
<1>1. X \in Nat /\ Fits((X * Q) * Q + Q)
  <2>1. CASE phase = "sign"
    BY <2>1, Modest DEF X, Registers
  <2>2. CASE phase # "sign"
    BY <2>2 DEF X, Registers
  <2> QED
    BY <2>1, <2>2
<1>2. X * Q \in Nat
  BY <1>1, Keys, Times
<1>3. (X * Q) * Q \in Nat
  BY <1>2, Keys, Times
<1> QED
  BY <1>1, <1>2, <1>3

-----------------------------------------------------------------------------
(* The gcd.                                                                *)

(* Of two products, of which the second factors are x and an odd one.      *)
Products(a, b, x, q) == a * x + b * q

LEMMA Halves ==
  ASSUME NEW a \in Int, NEW b \in Int, NEW x \in Int, NEW q \in Int,
         Odd(q), ~Odd(Products(a, b, x, q))
  PROVE  /\ ~Odd(a) /\ ~Odd(b) =>
              2 * Products(a \div 2, b \div 2, x, q) = Products(a, b, x, q)
         /\ Odd(a) \/ Odd(b) =>
              2 * Products((a + q) \div 2, (b - x) \div 2, x, q) = Products(a, b, x, q)
<1> USE DEF Products
<1>0. PICK h \in Int : Products(a, b, x, q) = 2 * h
  <2>1. a * x \in Int /\ b * q \in Int
    BY SMT
  <2> QED
    BY <2>1 DEF Odd
<1>1. ASSUME NEW c \in Int, NEW d \in Int, (2 * c) * x + (2 * d) * q = 2 * h
      PROVE  c * x + d * q = h
  <2>1. (2 * c) * x = 2 * (c * x) /\ (2 * d) * q = 2 * (d * q)
        /\ c * x \in Int /\ d * q \in Int
    BY SMT
  <2> QED
    BY <1>0, <1>1, <2>1
<1>2. ASSUME ~Odd(a), ~Odd(b)
      PROVE  Products(a \div 2, b \div 2, x, q) = h
  <2>1. /\ a = 2 * (a \div 2) /\ a \div 2 \in Int
        /\ b = 2 * (b \div 2) /\ b \div 2 \in Int
    BY <1>2 DEF Odd
  <2> QED
    BY <1>0, <1>1, <2>1
<1>3. ASSUME Odd(a) \/ Odd(b)
      PROVE  Products((a + q) \div 2, (b - x) \div 2, x, q) = h
  <2>1. PICK r \in Int : q = 2 * r + 1
    BY SMT DEF Odd
  <2>2. b * q = 2 * (b * r) + b /\ b * r \in Int
    BY <2>1, SMT
  <2>3. Odd(a)
    <3> SUFFICES ASSUME ~Odd(a) PROVE FALSE
      OBVIOUS
    <3>1. PICK e \in Int : a = 2 * e
      BY SMT DEF Odd
    <3>2. a * x = 2 * (e * x) /\ e * x \in Int
      BY <3>1, SMT
    <3>3. PICK f \in Int : b = 2 * f
      <4>1. h - e * x - b * r \in Int /\ b = 2 * (h - e * x - b * r)
        BY <1>0, <2>2, <3>2
      <4> QED
        BY Zenon, <4>1
    <3>4. ~Odd(b)
      BY <3>3 DEF Odd
    <3> QED
      BY <1>3, <3>4
  <2>4. PICK e \in Int : a = 2 * e + 1
    BY <2>3, SMT DEF Odd
  <2>5. a * x = 2 * (e * x) + x /\ e * x \in Int
    BY <2>4, SMT
  <2>6. PICK c \in Int : a + q = 2 * c
    <3>1. e + r + 1 \in Int /\ a + q = 2 * (e + r + 1)
      BY <2>1, <2>4
    <3> QED
      BY Zenon, <3>1
  <2>7. PICK d \in Int : b - x = 2 * d
    <3>1. /\ h - e * x - b * r - x \in Int
          /\ b - x = 2 * (h - e * x - b * r - x)
      BY <1>0, <2>2, <2>5
    <3> QED
      BY Zenon, <3>1
  <2>8. (a + q) \div 2 = c /\ (b - x) \div 2 = d
    BY <2>6, <2>7
  <2>9. (2 * c) * x + (2 * d) * q = 2 * h
    <3>1. (2 * c) * x = a * x + q * x /\ (2 * d) * q = b * q - q * x
      BY <2>6, <2>7, SMT
    <3>2. {a * x, q * x, b * q} \subseteq Int
      BY SMT
    <3> QED
      BY <1>0, <3>1, <3>2
  <2> QED
    BY <1>1, <2>8, <2>9
<1>4. ~Odd(a) /\ ~Odd(b) => Products(a \div 2, b \div 2, x, q) = h
  BY <1>2
<1>5. Odd(a) \/ Odd(b) => Products((a + q) \div 2, (b - x) \div 2, x, q) = h
  BY <1>3
<1> HIDE DEF Products
<1> QED
  BY <1>0, <1>4, <1>5

(* What Halve makes of two coefficients.                                   *)
LEMMA HalveRight ==
  ASSUME NEW a \in Int, NEW b \in Int, X \in Int, ~Odd(Products(a, b, X, Q))
  PROVE  /\ Halve(a, b)[1] \in Int /\ Halve(a, b)[2] \in Int
         /\ Products(Halve(a, b)[1], Halve(a, b)[2], X, Q) \in Int
         /\ 2 * Products(Halve(a, b)[1], Halve(a, b)[2], X, Q) = Products(a, b, X, Q)
         /\ \A z \in Nat : Abs(a) <= 2 * z /\ Q <= z => Abs(Halve(a, b)[1]) <= 2 * z
<1>1. Q \in Nat /\ Q \in Int /\ Odd(Q)
  BY Keys DEF Odd
<1>2. PICK x \in Int, q \in Nat : x = X /\ q = Q
  BY <1>1
<1>3. Halve(a, b) = IF ~Odd(a) /\ ~Odd(b) THEN <<a \div 2, b \div 2>>
                                          ELSE <<(a + q) \div 2, (b - x) \div 2>>
  BY <1>2 DEF Halve, Halved
<1>4. /\ Halve(a, b)[1] = IF ~Odd(a) /\ ~Odd(b) THEN a \div 2 ELSE (a + q) \div 2
      /\ Halve(a, b)[2] = IF ~Odd(a) /\ ~Odd(b) THEN b \div 2 ELSE (b - x) \div 2
  BY <1>3
<1>5. Halve(a, b)[1] \in Int /\ Halve(a, b)[2] \in Int
  BY <1>4
<1>6. /\ ~Odd(a) /\ ~Odd(b) =>
           2 * Products(a \div 2, b \div 2, X, Q) = Products(a, b, X, Q)
      /\ Odd(a) \/ Odd(b) =>
           2 * Products((a + Q) \div 2, (b - X) \div 2, X, Q) = Products(a, b, X, Q)
  BY <1>1, Halves
<1>7. 2 * Products(Halve(a, b)[1], Halve(a, b)[2], X, Q) = Products(a, b, X, Q)
  BY <1>6 DEF Halve, Halved
<1>8. ASSUME NEW z \in Nat, Abs(a) <= 2 * z, Q <= z
      PROVE  Abs(Halve(a, b)[1]) <= 2 * z
  BY <1>2, <1>4, <1>8 DEF Abs
<1>9. Products(Halve(a, b)[1], Halve(a, b)[2], X, Q) \in Int
  <2>1. \A c \in Int, d \in Int : Products(c, d, x, q) \in Int
    BY SMT DEF Products
  <2> QED
    BY Zenon, <1>2, <1>5, <2>1
<1> QED
  BY <1>5, <1>7, <1>8, <1>9

(* What halving and subtracting keep.                                      *)
LEMMA Halving ==
  ASSUME NEW n \in Nat, NEW o \in Nat, NEW a \in Int, NEW b \in Int, X \in Nat,
         ~Odd(n), Products(a, b, X, Q) = n
  PROVE  /\ Halved(n) \in Nat /\ (n # 0 => Halved(n) # 0)
         /\ Halve(a, b)[1] \in Int /\ Halve(a, b)[2] \in Int
         /\ Products(Halve(a, b)[1], Halve(a, b)[2], X, Q) = Halved(n)
         /\ \A K \in Nat \ {0} :
              /\ Kept(n, o, a, K) => Kept(Halved(n), o, Halve(a, b)[1], 2 * K)
              /\ \A c \in Int : Kept(o, n, c, K) => Kept(o, Halved(n), c, 2 * K)
<1>1. Q \in Nat \ {0}
  BY Keys
<1> DEFINE a1 == Halve(a, b)[1]
           b1 == Halve(a, b)[2]
<1>2. PICK h \in Nat : n = 2 * h /\ Halved(n) = h
  BY DEF Halved, Odd
<1>3. /\ a1 \in Int /\ b1 \in Int
      /\ Products(a1, b1, X, Q) \in Int
      /\ 2 * Products(a1, b1, X, Q) = Products(a, b, X, Q)
      /\ \A z \in Nat : Abs(a) <= 2 * z /\ Q <= z => Abs(a1) <= 2 * z
  <2>1. X \in Int /\ ~Odd(Products(a, b, X, Q))
    OBVIOUS
  <2> QED
    BY <2>1, HalveRight
<1> HIDE DEF a1, b1
<1>4. Products(a1, b1, X, Q) = h
  BY <1>2, <1>3
<1>5. ASSUME NEW K \in Nat \ {0}
      PROVE  /\ Kept(n, o, a, K) => Kept(h, o, a1, 2 * K)
             /\ \A c \in Int : Kept(o, n, c, K) => Kept(o, h, c, 2 * K)
  <2> DEFINE z == K * Q
             T == X * Q
  <2>1. z \in Nat /\ Q <= z /\ T \in Nat /\ (2 * K) * Q = 2 * z
    <3>1. Q <= Q * K /\ Q * K = K * Q /\ K * Q \in Nat
      BY <1>1, Times
    <3> QED
      BY <1>1, <3>1, SMT
  <2>2. (h * o) * (2 * K) = (n * o) * K /\ (o * h) * (2 * K) = (o * n) * K
    BY <1>2, SMT
  <2>3. \A y \in Int, m \in Nat, g \in Nat :
           Kept(m, g, y, K) <=>
             (m * g) * K <= T /\ Abs(y) <= 2 * z /\ (Odd(m) => Abs(y) <= z)
    BY DEF Kept
  <2>4. \A y \in Int, m \in Nat, g \in Nat :
           Kept(m, g, y, 2 * K) <=>
             (m * g) * (2 * K) <= T /\ Abs(y) <= 2 * (2 * z) /\ (Odd(m) => Abs(y) <= 2 * z)
    BY <2>1 DEF Kept
  <2> HIDE DEF z, T
  <2>5. ASSUME Kept(n, o, a, K) PROVE Kept(h, o, a1, 2 * K)
    <3>1. (n * o) * K <= T /\ Abs(a) <= 2 * z
      BY <2>3, <2>5
    <3>2. Abs(a1) <= 2 * z /\ Abs(a1) \in Nat
      BY <1>3, <2>1, <3>1 DEF Abs
    <3>3. (h * o) * (2 * K) <= T /\ Abs(a1) <= 2 * (2 * z)
      BY <2>1, <2>2, <3>1, <3>2
    <3> QED
      BY <1>3, <2>4, <3>2, <3>3
  <2>6. ASSUME NEW c \in Int, Kept(o, n, c, K) PROVE Kept(o, h, c, 2 * K)
    <3>1. (o * n) * K <= T /\ Abs(c) <= 2 * z /\ (Odd(o) => Abs(c) <= z)
      BY <2>3, <2>6
    <3>2. Abs(c) \in Nat
      BY DEF Abs
    <3>3. Abs(c) <= 2 * (2 * z) /\ Abs(c) <= 2 * z /\ (o * h) * (2 * K) <= T
      BY <2>1, <2>2, <3>1, <3>2
    <3> QED
      BY <2>4, <3>3
  <2> QED
    BY <2>5, <2>6
<1>6. n # 0 => h # 0
  BY <1>2
<1> QED
  BY <1>2, <1>3, <1>4, <1>5, <1>6 DEF a1, b1

LEMMA Subtracting ==
  ASSUME NEW n \in Nat, NEW o \in Nat, NEW a \in Int, NEW c \in Int, X \in Nat,
         Odd(n), Odd(o), o <= n, NEW K \in Nat \ {0},
         Kept(n, o, a, K), Kept(o, n, c, K)
  PROVE  ~Odd(n - o) /\ Kept(n - o, o, a - c, K) /\ Kept(o, n - o, c, K)
<1>1. Q \in Nat \ {0}
  BY Keys
<1> DEFINE z == K * Q
           T == X * Q
           d == n - o
<1>2. z \in Nat /\ T \in Nat /\ d \in Nat /\ d <= n /\ ~Odd(d)
  <2>1. z \in Nat /\ T \in Nat
    BY <1>1, Times
  <2>2. d \in Nat /\ d <= n
    OBVIOUS
  <2>3. ~Odd(d)
    BY DEF Odd
  <2> QED
    BY <2>1, <2>2, <2>3
<1>3. \A y \in Int, m \in Nat, g \in Nat :
         Kept(m, g, y, K) <=>
           (m * g) * K <= T /\ Abs(y) <= 2 * z /\ (Odd(m) => Abs(y) <= z)
  BY DEF Kept
<1> HIDE DEF z, T, d
<1>4. (n * o) * K <= T /\ Abs(a) <= z /\ Abs(c) <= z
  BY <1>3
<1>5. (d * o) * K <= T /\ (o * d) * K <= T
  <2>1. d * o <= n * o /\ d * o \in Nat /\ n * o \in Nat /\ o * d = d * o
    BY <1>2, Times
  <2>2. (d * o) * K <= (n * o) * K /\ (d * o) * K \in Nat /\ (n * o) * K \in Nat
    BY <2>1, Times
  <2> QED
    BY <1>2, <1>4, <2>1, <2>2
<1>6. Abs(a - c) <= 2 * z /\ Abs(c) <= 2 * z /\ a - c \in Int
  BY <1>2, <1>4 DEF Abs
<1>7. Kept(d, o, a - c, K) /\ Kept(o, d, c, K)
  BY <1>2, <1>3, <1>4, <1>5, <1>6
<1> QED
  BY <1>2, <1>7 DEF d

(* The steps of the gcd keep what it is about.                             *)
LEMMA GcdBegins ==
  ASSUME NEW x \in Nat
  PROVE  /\ GcdOf(x) \in [u : Nat, v : Nat \ {0}, A : Int, B : Int, C : Int, D : Int]
         /\ GcdOf(x).A * x + GcdOf(x).B * Q = GcdOf(x).u
         /\ GcdOf(x).C * x + GcdOf(x).D * Q = GcdOf(x).v
         /\ Odd(GcdOf(x).v) /\ Abs(GcdOf(x).C) <= (x * Q) * Q
         /\ (GcdOf(x).u * GcdOf(x).v) * 1 <= x * Q
         /\ (GcdOf(x).v * GcdOf(x).u) * 1 <= x * Q
         /\ Abs(GcdOf(x).A) <= 2 * (1 * Q) /\ Abs(GcdOf(x).A) <= 1 * Q
         /\ Abs(GcdOf(x).C) <= 2 * (1 * Q) /\ Abs(GcdOf(x).C) <= 1 * Q
<1>1. Q \in Nat \ {0} /\ Q % 2 = 1
  BY Keys
<1>2. /\ GcdOf(x).u = x /\ GcdOf(x).v = Q /\ GcdOf(x).A = 1 /\ GcdOf(x).B = 0
      /\ GcdOf(x).C = 0 /\ GcdOf(x).D = 1
      /\ GcdOf(x) \in [u : Nat, v : Nat \ {0}, A : Int, B : Int, C : Int, D : Int]
  BY <1>1 DEF GcdOf
<1>3. 1 * x + 0 * Q = x /\ 0 * x + 1 * Q = Q
  BY <1>1
<1>4. x * Q \in Nat /\ (x * Q) * Q \in Nat /\ (x * Q) * 1 = x * Q /\ (Q * x) * 1 = x * Q
      /\ 1 * Q = Q
  BY <1>1, SMT
<1>5. Odd(Q) /\ Abs(0) = 0 /\ Abs(1) = 1
  BY <1>1 DEF Odd, Abs
<1> QED
  BY <1>1, <1>2, <1>3, <1>4, <1>5

LEMMA GcdStarts ==
  ASSUME NEW x \in Nat, gcd' = GcdOf(x), X' = x
  PROVE  Coefficients' /\ Growth'
<1>1. Coefficients'
  BY GcdBegins, Zenon DEF Coefficients
<1>2. Bounded(1)' /\ 1 \in Nat \ {0}
  BY GcdBegins, SMTT(30) DEF Bounded, Kept
<1> QED
  BY Zenon, <1>1, <1>2, GcdBegins DEF Growth

LEMMA HalveUKeeps ==
  ASSUME Coefficients, Growth, X \in Nat, X' = X, HalveU
  PROVE  Coefficients' /\ Growth'
<1> DEFINE A1 == Halve(gcd.A, gcd.B)[1]
           B1 == Halve(gcd.A, gcd.B)[2]
           h == Halved(gcd.u)
<1>1. gcd \in [u : Nat, v : Nat \ {0}, A : Int, B : Int, C : Int, D : Int]
  BY DEF Coefficients
<1>2. gcd' = [gcd EXCEPT !.u = h, !.A = A1, !.B = B1]
  BY <1>1 DEF HalveU
<1>3. ~Odd(gcd.u) /\ Odd(gcd.v) /\ Products(gcd.A, gcd.B, X, Q) = gcd.u
  BY Zenon DEF HalveU, Growth, Coefficients, Products
<1>4. /\ h \in Nat /\ A1 \in Int /\ B1 \in Int
      /\ Products(A1, B1, X, Q) = h
      /\ \A K \in Nat \ {0} :
           /\ Kept(gcd.u, gcd.v, gcd.A, K) => Kept(h, gcd.v, A1, 2 * K)
           /\ Kept(gcd.v, gcd.u, gcd.C, K) => Kept(gcd.v, h, gcd.C, 2 * K)
  BY Zenon, <1>1, <1>3, Halving
<1> HIDE DEF A1, B1, h
<1>5. /\ gcd'.u = h /\ gcd'.v = gcd.v /\ gcd'.A = A1 /\ gcd'.B = B1
      /\ gcd'.C = gcd.C /\ gcd'.D = gcd.D
      /\ gcd' \in [u : Nat, v : Nat \ {0}, A : Int, B : Int, C : Int, D : Int]
  BY Zenon, <1>1, <1>2, <1>4
<1>6. Coefficients'
  BY <1>4, <1>5, Zenon DEF Coefficients, Products
<1>7. \E L \in Nat \ {0} : Bounded(L)'
  <2>1. PICK K \in Nat \ {0} : Bounded(K)
    BY DEF Growth
  <2>2. Kept(h, gcd.v, A1, 2 * K) /\ Kept(gcd.v, h, gcd.C, 2 * K)
    BY <1>4, <1>1, <2>1 DEF Bounded
  <2>3. Bounded(2 * K)'
    BY <1>5, <2>2 DEF Bounded, Kept
  <2> QED
    BY <2>3
<1>8. Odd(gcd.v) => Abs(gcd.C) <= (X * Q) * Q
  BY DEF Growth
<1> QED
  BY <1>3, <1>5, <1>6, <1>7, <1>8 DEF Growth

(* An odd v leaves its coefficient no more room than this.                 *)
LEMMA LastBound ==
  ASSUME NEW u \in Nat \ {0}, NEW v \in Nat \ {0}, NEW c \in Int, X \in Nat,
         NEW K \in Nat \ {0}, Kept(v, u, c, K), Odd(v)
  PROVE  Abs(c) <= (X * Q) * Q
<1> DEFINE T == X * Q
<1>1. Q \in Nat /\ T \in Nat
  BY Keys, Times
<1>2. (v * u) * K <= T /\ Abs(c) <= K * Q
  BY DEF Kept
<1> HIDE DEF T
<1>3. v * u \in Nat /\ v * u > 0
  BY SMT
<1>4. K <= K * (v * u) /\ K * (v * u) = (v * u) * K /\ (v * u) * K \in Nat
  BY <1>3, Times
<1>5. K <= T
  BY <1>1, <1>2, <1>4
<1>6. K * Q <= T * Q /\ K * Q \in Nat /\ T * Q \in Nat /\ Abs(c) \in Nat
  BY <1>1, <1>5, Times DEF Abs
<1> QED
  BY <1>2, <1>6 DEF T

LEMMA HalveVKeeps ==
  ASSUME Coefficients, Growth, X \in Nat, X' = X, HalveV
  PROVE  Coefficients' /\ Growth'
<1> DEFINE C1 == Halve(gcd.C, gcd.D)[1]
           D1 == Halve(gcd.C, gcd.D)[2]
           h == Halved(gcd.v)
<1>1. gcd \in [u : Nat, v : Nat \ {0}, A : Int, B : Int, C : Int, D : Int]
  BY DEF Coefficients
<1>2. gcd' = [gcd EXCEPT !.v = h, !.C = C1, !.D = D1]
  BY <1>1 DEF HalveV
<1>3. gcd.u # 0 /\ Odd(gcd.u) /\ ~Odd(gcd.v) /\ Products(gcd.C, gcd.D, X, Q) = gcd.v
  BY Zenon DEF HalveV, Coefficients, Products
<1>4. /\ h \in Nat \ {0} /\ C1 \in Int /\ D1 \in Int
      /\ Products(C1, D1, X, Q) = h
      /\ \A K \in Nat \ {0} :
           /\ Kept(gcd.v, gcd.u, gcd.C, K) => Kept(h, gcd.u, C1, 2 * K)
           /\ Kept(gcd.u, gcd.v, gcd.A, K) => Kept(gcd.u, h, gcd.A, 2 * K)
  BY Zenon, <1>1, <1>3, Halving
<1> HIDE DEF C1, D1, h
<1>5. /\ gcd'.u = gcd.u /\ gcd'.v = h /\ gcd'.A = gcd.A /\ gcd'.B = gcd.B
      /\ gcd'.C = C1 /\ gcd'.D = D1
      /\ gcd' \in [u : Nat, v : Nat \ {0}, A : Int, B : Int, C : Int, D : Int]
  BY Zenon, <1>1, <1>2, <1>4
<1>6. Coefficients'
  BY <1>4, <1>5, Zenon DEF Coefficients, Products
<1>7. PICK K \in Nat \ {0} : Bounded(K)
  BY DEF Growth
<1>8. Kept(h, gcd.u, C1, 2 * K) /\ Kept(gcd.u, h, gcd.A, 2 * K)
  BY <1>4, <1>1, <1>7 DEF Bounded
<1>9. 2 * K \in Nat \ {0} /\ Bounded(2 * K)'
  BY <1>5, <1>8 DEF Bounded, Kept
<1>10. Odd(gcd'.v) => Abs(gcd'.C) <= (X' * Q) * Q
  <2>1. gcd.u \in Nat \ {0} /\ 2 * K \in Nat \ {0}
    BY <1>1, <1>3
  <2>2. Odd(h) => Abs(C1) <= (X * Q) * Q
    BY Zenon, <1>4, <1>8, <2>1, LastBound
  <2> QED
    BY <1>5, <2>2
<1>11. \E L \in Nat \ {0} : Bounded(L)'
  BY <1>9
<1> QED
  BY <1>3, <1>5, <1>6, <1>10, <1>11 DEF Growth

LEMMA SubtractKeeps ==
  ASSUME Coefficients, Growth, X \in Nat, X' = X, Subtract
  PROVE  Coefficients' /\ Growth'
<1>1. /\ gcd \in [u : Nat, v : Nat \ {0}, A : Int, B : Int, C : Int, D : Int]
      /\ Odd(gcd.u) /\ Odd(gcd.v)
      /\ gcd' = IF TakesV
                THEN [gcd EXCEPT !.u = @ - gcd.v, !.A = @ - gcd.C, !.B = @ - gcd.D]
                ELSE [gcd EXCEPT !.v = @ - gcd.u, !.C = @ - gcd.A, !.D = @ - gcd.B]
  BY DEF Coefficients, Subtract
<1>2. PICK K \in Nat \ {0} : Kept(gcd.u, gcd.v, gcd.A, K) /\ Kept(gcd.v, gcd.u, gcd.C, K)
  BY DEF Growth, Bounded
<1>3. /\ gcd.A * X + gcd.B * Q = gcd.u /\ gcd.C * X + gcd.D * Q = gcd.v
      /\ Odd(gcd.v) => Abs(gcd.C) <= (X * Q) * Q
  BY DEF Coefficients, Growth
<1>4. Q \in Nat
  BY Keys
<1>5. ASSUME NEW a \in Int, NEW b \in Int, NEW c \in Int, NEW d \in Int
      PROVE  (a - c) * X + (b - d) * Q = (a * X + b * Q) - (c * X + d * Q)
  <2>1. /\ (a - c) * X = a * X - c * X /\ (b - d) * Q = b * Q - d * Q
        /\ {a * X, c * X, b * Q, d * Q} \subseteq Int
    BY <1>4, SMT
  <2> QED
    BY <2>1
<1>6. CASE TakesV
  <2>1. gcd.v <= gcd.u
    BY <1>1, <1>6 DEF TakesV, Cmp
  <2>2. /\ gcd'.u = gcd.u - gcd.v /\ gcd'.v = gcd.v
        /\ gcd'.A = gcd.A - gcd.C /\ gcd'.B = gcd.B - gcd.D
        /\ gcd'.C = gcd.C /\ gcd'.D = gcd.D
        /\ gcd' \in [u : Nat, v : Nat \ {0}, A : Int, B : Int, C : Int, D : Int]
    <3>1. PICK n \in Nat, a \in Int, b \in Int :
            n = gcd.u - gcd.v /\ a = gcd.A - gcd.C /\ b = gcd.B - gcd.D
      BY <1>1, <2>1
    <3>2. gcd' = [gcd EXCEPT !.u = n, !.A = a, !.B = b]
      BY <1>1, <1>6, <3>1
    <3> QED
      BY Zenon, <1>1, <3>1, <3>2
  <2>3. Kept(gcd'.u, gcd'.v, gcd'.A, K) /\ Kept(gcd'.v, gcd'.u, gcd'.C, K)
    BY <1>1, <1>2, <2>1, <2>2, Subtracting
  <2>4. Bounded(K)'
    BY <2>3 DEF Bounded, Kept
  <2>5. gcd'.A * X + gcd'.B * Q = gcd'.u
    BY <1>1, <1>3, <1>5, <2>2
  <2> QED
    BY <1>1, <1>3, <2>2, <2>4, <2>5, Zenon DEF Coefficients, Growth
<1>7. CASE ~TakesV
  <2>1. gcd.u < gcd.v
    BY <1>1, <1>7 DEF TakesV, Cmp
  <2>2. /\ gcd'.u = gcd.u /\ gcd'.v = gcd.v - gcd.u
        /\ gcd'.A = gcd.A /\ gcd'.B = gcd.B
        /\ gcd'.C = gcd.C - gcd.A /\ gcd'.D = gcd.D - gcd.B
        /\ gcd' \in [u : Nat, v : Nat \ {0}, A : Int, B : Int, C : Int, D : Int]
    <3>1. PICK n \in Nat \ {0}, c \in Int, d \in Int :
            n = gcd.v - gcd.u /\ c = gcd.C - gcd.A /\ d = gcd.D - gcd.B
      BY <1>1, <2>1
    <3>2. gcd' = [gcd EXCEPT !.v = n, !.C = c, !.D = d]
      BY <1>1, <1>7, <3>1
    <3> QED
      BY Zenon, <1>1, <3>1, <3>2
  <2>3. ~Odd(gcd'.v) /\ Kept(gcd'.u, gcd'.v, gcd'.A, K) /\ Kept(gcd'.v, gcd'.u, gcd'.C, K)
    BY <1>1, <1>2, <2>1, <2>2, Subtracting
  <2>4. Bounded(K)'
    BY <2>3 DEF Bounded, Kept
  <2>5. gcd'.C * X + gcd'.D * Q = gcd'.v
    BY <1>1, <1>3, <1>5, <2>2
  <2> QED
    BY <1>1, <1>3, <2>2, <2>3, <2>4, <2>5, Zenon DEF Coefficients, Growth
<1> QED
  BY <1>6, <1>7

(* What the gcd ends with is an inverse, and fits.                         *)
LEMMA InverseFits ==
  ASSUME Coefficients, Growth, X \in Nat, Fits((X * Q) * Q + Q), gcd.v = 1
  PROVE  InverseOfX \in Int /\ Fits(InverseOfX) /\ (InverseOfX * X) % Q = 1
<1>1. gcd.C \in Int /\ gcd.D \in Int /\ Q \in Nat \ {0} /\ Q > 1 /\ X \in Int
  BY Keys DEF Coefficients
<1>2. gcd.C * X + gcd.D * Q = 1
  BY Zenon DEF Coefficients
<1>3. Abs(gcd.C) <= (X * Q) * Q
  BY DEF Growth, Odd
<1>4. (X * Q) * Q \in Nat
  BY <1>1, Times
<1>5. InverseOfX \in Int /\ Abs(InverseOfX) <= Abs((X * Q) * Q + Q)
  BY <1>1, <1>3, <1>4 DEF InverseOfX, Abs
<1>6. Fits(InverseOfX)
  <2>1. (X * Q) * Q + Q \in Int
    BY <1>1, <1>4
  <2> QED
    BY <1>5, <2>1, Smaller
<1>7. \E t \in Int : InverseOfX * X = 1 + t * Q
  <2>1. PICK c \in Int, d \in Int, x \in Int, q \in Nat :
          c = gcd.C /\ d = gcd.D /\ x = X /\ q = Q
    BY <1>1
  <2>2. c * x + d * q = 1
    BY <1>2, <2>1, Zenon
  <2>3. /\ (c + q) * x = c * x + x * q /\ (0 - d) * q = 0 - d * q
        /\ (x - d) * q = x * q - d * q /\ {c * x, x * q, d * q} \subseteq Int
    BY SMT
  <2>4. c * x = 1 + (0 - d) * q /\ (c + q) * x = 1 + (x - d) * q
    BY <2>2, <2>3
  <2>5. InverseOfX = c \/ InverseOfX = c + q
    BY <2>1 DEF InverseOfX
  <2>6. InverseOfX * x = 1 + (0 - d) * q \/ InverseOfX * x = 1 + (x - d) * q
    BY <2>4, <2>5
  <2>7. 0 - d \in Int /\ x - d \in Int
    OBVIOUS
  <2> QED
    BY Zenon, <2>1, <2>6, <2>7
<1>8. PICK t \in Int : InverseOfX * X = 1 + t * Q
  BY <1>7
<1>9. (1 + t * Q) % Q = 1
  BY <1>1, OneMore
<1>10. (InverseOfX * X) % Q = 1
  BY <1>8, <1>9, Zenon
<1> QED
  BY <1>5, <1>6, <1>10

-----------------------------------------------------------------------------
(* The calls.                                                              *)

(* What the loops rely on.                                                 *)
Legal(c) ==
  /\ c.op \in {"mul", "pow", "mod"} /\ c.mod \in {P, Q}
  /\ c.base \in Int /\ Fits(c.base) /\ c.e \in Int /\ Fits(c.e)
  /\ c.op = "pow" => c.mod = P /\ c.base \in 0 .. P - 1 /\ c.e \in 0 .. P - 1
  /\ c.to \in Regs \ {"k", "k_inv", "w"}
  /\ c.to = "s" => phase = "sign" /\ c.mod = Q

LEMMA CallsAreLegal ==
  ASSUME Types, Registers, call <= Len(Calls)
  PROVE  Legal(Call)
<1>1. /\ P \in Nat /\ Q \in Nat /\ G \in 0 .. P - 1 /\ Q < P
      /\ \A x \in 0 .. P - 1 : Fits(x) /\ x \in Int
      /\ \A x \in 0 .. Q - 1 : Fits(x) /\ x \in Int /\ x \in 0 .. P - 1
  <2>1. /\ P \in Nat /\ Q \in Nat /\ G \in Nat /\ G < P /\ Q < P
        /\ \A x \in 0 .. P - 1 : Fits(x)
    BY Keys
  <2> QED
    BY <2>1
<1>2. /\ reg \in [Regs -> Int] /\ \A x \in Regs : Fits(reg[x])
      /\ reg.k \in 0 .. P - 1 /\ reg.u1 \in 0 .. P - 1 /\ reg.u2 \in 0 .. P - 1
      /\ priv \in Int /\ Fits(priv) /\ pub \in 0 .. P - 1
      /\ H \in Nat /\ Fits(H + Q) /\ Fits(0)
  <2>1. 0 \in 0 .. P - 1 /\ 0 \in 0 .. Q - 1
    BY Keys
  <2> QED
    BY Zenon, <1>1, <2>1 DEF Registers, Types
<1>3. Fits(H)
  <2>1. H + Q \in Int /\ Abs(H) <= Abs(H + Q) /\ H \in Int
    BY <1>1, <1>2 DEF Abs
  <2> QED
    BY <1>2, <2>1, Smaller
<1>4. /\ reg.k \in Int /\ reg.k_inv \in Int /\ reg.r \in Int /\ reg.s \in Int
      /\ reg.w \in Int /\ reg.u1 \in Int /\ reg.u2 \in Int
      /\ reg.t0 \in Int /\ reg.t1 \in Int /\ reg.v \in Int
      /\ Fits(reg.k) /\ Fits(reg.k_inv) /\ Fits(reg.r) /\ Fits(reg.s)
      /\ Fits(reg.w) /\ Fits(reg.u1) /\ Fits(reg.u2)
      /\ Fits(reg.t0) /\ Fits(reg.t1) /\ Fits(reg.v)
  BY <1>2 DEF Regs
<1>5. call \in Nat \ {0} /\ phase \in {"sign", "signed", "check"}
  BY DEF Types
<1>6. CASE phase = "sign"
  <2>1. Sum \in Int /\ Fits(Sum)
    <3>1. reg.s \in 0 .. Q - 1
      BY <1>6 DEF Registers
    <3>2. reg.s + H \in Int /\ H + Q \in Int /\ Abs(reg.s + H) <= Abs(H + Q)
      BY <1>1, <1>2, <3>1 DEF Abs
    <3>3. Fits(reg.s + H)
      BY <1>2, <3>2, Smaller
    <3>4. Wrap(reg.s + H) = reg.s + H
      BY <3>2, <3>3, Room, WrapOf
    <3> QED
      BY <3>2, <3>3, <3>4 DEF Sum
  <2>2. Calls = SignCalls /\ Len(SignCalls) = 5
    BY <1>6 DEF Calls, SignCalls
  <2>3. call \in {1, 2, 3, 4, 5} /\ Call = SignCalls[call]
    BY <1>5, <2>2 DEF Call
  <2>4. CASE call = 1
    <3>1. Call = [op |-> "pow", base |-> G, e |-> reg.k, mod |-> P, to |-> "r"]
      BY <2>3, <2>4 DEF SignCalls
    <3> QED
      BY <1>1, <1>2, <1>4, <3>1 DEF Legal, Regs
  <2>5. CASE call = 2
    <3>1. Call = [op |-> "mod", base |-> reg.r, e |-> 0, mod |-> Q, to |-> "r"]
      BY <2>3, <2>5 DEF SignCalls
    <3> QED
      BY <1>1, <1>2, <1>4, <3>1 DEF Legal, Regs
  <2>6. CASE call = 3
    <3>1. Call = [op |-> "mul", base |-> priv, e |-> reg.r, mod |-> Q, to |-> "s"]
      BY <2>3, <2>6 DEF SignCalls
    <3> QED
      BY <1>1, <1>2, <1>4, <1>6, <3>1 DEF Legal, Regs
  <2>7. CASE call = 4
    <3>1. Call = [op |-> "mod", base |-> Sum, e |-> 0, mod |-> Q, to |-> "s"]
      BY <2>3, <2>7 DEF SignCalls
    <3> QED
      BY <1>1, <1>2, <1>4, <1>6, <2>1, <3>1 DEF Legal, Regs
  <2>8. CASE call = 5
    <3>1. Call = [op |-> "mul", base |-> reg.s, e |-> reg.k_inv, mod |-> Q, to |-> "s"]
      BY <2>3, <2>8 DEF SignCalls
    <3> QED
      BY <1>1, <1>2, <1>4, <1>6, <3>1 DEF Legal, Regs
  <2> QED
    BY <2>3, <2>4, <2>5, <2>6, <2>7, <2>8
<1>7. CASE phase # "sign"
  <2>1. Calls = CheckCalls /\ Len(CheckCalls) = 6
    BY <1>7 DEF Calls, CheckCalls
  <2>2. call \in {1, 2, 3, 4, 5, 6} /\ Call = CheckCalls[call]
    BY <1>5, <2>1 DEF Call
  <2>3. CASE call = 1
    <3>1. Call = [op |-> "mul", base |-> reg.w, e |-> H, mod |-> Q, to |-> "u1"]
      BY <2>2, <2>3 DEF CheckCalls
    <3> QED
      BY <1>1, <1>2, <1>3, <1>4, <3>1 DEF Legal, Regs
  <2>4. CASE call = 2
    <3>1. Call = [op |-> "mul", base |-> reg.w, e |-> reg.r, mod |-> Q, to |-> "u2"]
      BY <2>2, <2>4 DEF CheckCalls
    <3> QED
      BY <1>1, <1>2, <1>4, <3>1 DEF Legal, Regs
  <2>5. CASE call = 3
    <3>1. Call = [op |-> "pow", base |-> G, e |-> reg.u1, mod |-> P, to |-> "t0"]
      BY <2>2, <2>5 DEF CheckCalls
    <3> QED
      BY <1>1, <1>2, <1>4, <3>1 DEF Legal, Regs
  <2>6. CASE call = 4
    <3>1. Call = [op |-> "pow", base |-> pub, e |-> reg.u2, mod |-> P, to |-> "t1"]
      BY <2>2, <2>6 DEF CheckCalls
    <3> QED
      BY <1>1, <1>2, <1>4, <3>1 DEF Legal, Regs
  <2>7. CASE call = 5
    <3>1. Call = [op |-> "mul", base |-> reg.t0, e |-> reg.t1, mod |-> P, to |-> "v"]
      BY <2>2, <2>7 DEF CheckCalls
    <3> QED
      BY <1>1, <1>2, <1>4, <3>1 DEF Legal, Regs
  <2>8. CASE call = 6
    <3>1. Call = [op |-> "mod", base |-> reg.v, e |-> 0, mod |-> Q, to |-> "v"]
      BY <2>2, <2>8 DEF CheckCalls
    <3> QED
      BY <1>1, <1>2, <1>4, <3>1 DEF Legal, Regs
  <2> QED
    BY <2>2, <2>3, <2>4, <2>5, <2>6, <2>7, <2>8
<1> QED
  BY <1>6, <1>7

(* What a call is about does not change while it is under way.             *)
LEMMA CallStays ==
  ASSUME UNCHANGED <<phase, args, reg, call>>
  PROVE  /\ Call' = Call /\ X' = X /\ Len(Calls)' = Len(Calls) /\ IsMul' = IsMul
         /\ Registers => Registers'
<1>1. phase' = phase /\ priv' = priv /\ pub' = pub /\ H' = H /\ reg' = reg /\ call' = call
  BY DEF args
<1>2. Sum' = Sum
  BY <1>1 DEF Sum, Wrap
<1>3. Calls' = Calls
  BY <1>1, <1>2 DEF Calls, SignCalls, CheckCalls
<1>4. Call' = Call
  BY <1>1, <1>3 DEF Call
<1>5. X' = X /\ IsMul' = IsMul
  BY <1>1, <1>4 DEF X, IsMul
<1>6. Registers => Registers'
  BY <1>1 DEF Registers
<1> QED
  BY <1>3, <1>4, <1>5, <1>6

LEMMA LoopStep ==
  ASSUME Good, UNCHANGED <<phase, args, gcd, reg, call>>,
         pc \in InCall \cup {"call"}, pc' \in InCall, call <= Len(Calls),
         loop' \in [acc : Int, base : Int, e : Int, bits : Int],
         Shape', Loops'
  PROVE  Good'
<1>1. phase' = phase /\ priv' = priv /\ pub' = pub /\ H' = H /\ reg' = reg
      /\ call' = call /\ gcd' = gcd
  BY DEF args
<1>2. X' = X /\ Len(Calls)' = Len(Calls) /\ Registers'
  BY CallStays DEF Good
<1>3. pc' # "random" /\ pc' # "gcd" /\ pc' # "call" /\ pc # "random"
      /\ pc' \in {"random", "gcd", "call", "done"} \cup InCall
  BY DEF InCall
<1>4. Types'
  BY <1>1, <1>2, <1>3 DEF Good, Types
<1>5. Coefficients'
  BY <1>1, <1>2, <1>3, Zenon DEF Good, Coefficients
<1>6. Inverts'
  BY <1>3 DEF Inverts
<1> QED
  BY <1>2, <1>3, <1>4, <1>5, <1>6 DEF Good

LEMMA BitsOf ==
  ASSUME NEW x \in Nat, Fits(x)
  PROVE  Bits(x) \in Int
<1>1. Hexp(x) \in Int
  <2>1. CASE x = 0
    BY <2>1 DEF Hexp
  <2>2. CASE x # 0
    <3>1. Abs(x) < Base ^ (Size + 1) /\ Abs(x) = x
      BY Room DEF Abs
    <3>2. Hexp(x) \in 0 .. Size
      BY <2>2, <3>1, HexpOf
    <3> QED
      BY <3>2, FewPowers
  <2> QED
    BY <2>1, <2>2
<1>2. BitsPerDigit \in Nat
  BY DsaAssumption
<1> QED
  BY <1>1, <1>2, SMT DEF Bits

(* What the loops make of numbers below P fits.                            *)
LEMMA Below ==
  ASSUME NEW x \in 0 .. P - 1, NEW y \in 0 .. P - 1
  PROVE  /\ Wrap(x + y) \in Int /\ Fits(Wrap(x + y))
         /\ Wrap(x * y) \in Int /\ Fits(Wrap(x * y))
<1>1. x + y \in Int /\ x * y \in Int /\ Fits(x + y) /\ Fits(x * y)
  <2>1. x + y \in Nat /\ x * y \in Nat /\ Fits(x + y) /\ Fits(x * y)
    BY Keys, Zenon
  <2> QED
    BY <2>1
<1>2. \A z \in Int : Fits(z) => Wrap(z) = z
  BY Room, WrapOf
<1> QED
  BY <1>1, <1>2

LEMMA CombinedFits ==
  ASSUME loop.acc \in 0 .. P - 1, loop.base \in 0 .. P - 1
  PROVE  /\ Combined \in Int /\ Fits(Combined)
         /\ Grown \in Int /\ Fits(Grown)
<1>1. Combined \in Int /\ Fits(Combined)
  BY Below DEF Combined, Product
<1>2. loop.base \in Int /\ 2 * loop.base = loop.base + loop.base
  BY Keys
<1>3. Grown \in Int /\ Fits(Grown)
  BY <1>2, Below DEF Grown, Doubled, Squared
<1> QED
  BY <1>1, <1>3

(* What a division that is over leaves.                                    *)
LEMMA ResultOf ==
  ASSUME Shape, ~Dividing
  PROVE  Result \in 0 .. div.by - 1 /\ Result \in Nat /\ Fits(Result)
<1>1. /\ div \in [of : Int, by : Nat \ {0}, m : Nat, shifted : Nat, left : 0 .. Size]
      /\ div.m < div.by /\ Fits(div.of) /\ div.m <= Abs(div.of)
  BY DEF Shape
<1>2. div.m \in Nat /\ div.of \in Int /\ div.by \in Nat
  BY <1>1
<1>3. Abs(div.m) <= Abs(div.of)
  BY <1>1, <1>2 DEF Abs
<1>4. Fits(div.m)
  BY <1>1, <1>2, <1>3, Smaller
<1> QED
  BY <1>1, <1>2, <1>4 DEF Result

-----------------------------------------------------------------------------
(* The steps of a call.                                                    *)

(* What modulo stands for in each of them.                                 *)
LEMMA Modulo ==
  ASSUME Good, call <= Len(Calls)
  PROVE  /\ Legal(Call) /\ Call.mod \in Nat \ {0} /\ Call.mod > 1 /\ Fits(Call.mod)
         /\ Call.mod <= P
         /\ \A x \in 0 .. Call.mod - 1 : x \in 0 .. P - 1 /\ x \in Int /\ Fits(x)
<1>1. Legal(Call)
  BY CallsAreLegal DEF Good
<1>2. P \in Nat /\ Q \in Nat /\ Q > 1 /\ Q < P /\ Fits(P) /\ Fits(Q)
      /\ \A x \in 0 .. P - 1 : Fits(x)
  BY Keys
<1>3. Call.mod \in {P, Q}
  BY <1>1 DEF Legal
<1>4. Call.mod \in Nat \ {0} /\ Call.mod > 1 /\ Fits(Call.mod) /\ Call.mod <= P
  BY <1>2, <1>3
<1>5. \A x \in 0 .. Call.mod - 1 : x \in 0 .. P - 1 /\ x \in Int
  BY <1>2, <1>4
<1> QED
  BY <1>1, <1>2, <1>4, <1>5

LEMMA BeginKeeps ==
  ASSUME Good, Begin
  PROVE  Good'
<1>1. pc = "call" /\ call <= Len(Calls) /\ UNCHANGED <<phase, args, gcd, reg, call>>
  BY DEF Begin
<1>2. /\ Legal(Call) /\ Call.mod \in Nat \ {0} /\ Call.mod > 1 /\ Fits(Call.mod)
  BY <1>1, Modulo
<1>3. Call' = Call
  BY <1>1, CallStays
<1>4. ~Dividing
  BY <1>1 DEF Good, Loops, Divides
<1>5. CASE Call.op = "mul"
  <2>1. /\ Divide(Call.e, Call.mod) /\ pc' = "operand"
        /\ loop' = [acc |-> 0, base |-> Call.base, e |-> Call.e, bits |-> 0]
    BY <1>5 DEF Begin
  <2>2. Call.e \in Int /\ Fits(Call.e) /\ Call.base \in Int /\ Fits(Call.base)
    BY <1>2 DEF Legal
  <2>3. Shape' /\ div'.by = Call.mod
    BY <1>2, <2>1, <2>2, DivideShape
  <2>4. /\ loop' \in [acc : Int, base : Int, e : Int, bits : Int]
        /\ loop'.acc = 0 /\ loop'.base = Call.base
    BY <2>1, <2>2
  <2>5. Loops'
    BY <1>2, <1>3, <2>1, <2>2, <2>3, <2>4 DEF Loops, InCall, Divides
  <2> QED
    BY <1>1, <2>1, <2>3, <2>4, <2>5, LoopStep DEF InCall
<1>6. CASE Call.op = "pow"
  <2>1. /\ div' = div /\ pc' = "bit"
        /\ loop' = [acc |-> 1, base |-> Call.base, e |-> Call.e, bits |-> Bits(Call.e)]
    BY <1>6 DEF Begin
  <2>2. Call.mod = P /\ Call.base \in 0 .. P - 1 /\ Call.e \in 0 .. P - 1 /\ Fits(Call.e)
    BY <1>2, <1>6 DEF Legal
  <2>3. Call.e \in Nat /\ Call.e \in Int /\ Call.base \in Int
    BY <1>2, <2>2
  <2>4. Bits(Call.e) \in Int
    BY <2>2, <2>3, BitsOf
  <2>5. Shape' /\ ~(Dividing)'
    BY <1>4, <2>1 DEF Good, Shape, Dividing
  <2>6. /\ loop' \in [acc : Int, base : Int, e : Int, bits : Int]
        /\ loop'.acc = 1 /\ loop'.base = Call.base
    BY <2>1, <2>3, <2>4
  <2>7. Loops'
    BY <1>2, <1>3, <2>1, <2>2, <2>5, <2>6 DEF Loops, InCall, Divides
  <2> QED
    BY <1>1, <2>1, <2>5, <2>6, <2>7, LoopStep DEF InCall
<1>7. CASE Call.op = "mod"
  <2>1. /\ Divide(Call.base, Call.mod) /\ pc' = "mod"
        /\ loop' = [acc |-> 0, base |-> 0, e |-> 0, bits |-> 0]
    BY <1>7 DEF Begin
  <2>2. Call.base \in Int /\ Fits(Call.base)
    BY <1>2 DEF Legal
  <2>3. Shape' /\ div'.by = Call.mod
    BY <1>2, <2>1, <2>2, DivideShape
  <2>4. loop' \in [acc : Int, base : Int, e : Int, bits : Int]
    BY <2>1
  <2>5. Loops'
    BY <1>3, <2>1, <2>3 DEF Loops, InCall, Divides
  <2> QED
    BY <1>1, <2>1, <2>3, <2>4, <2>5, LoopStep DEF InCall
<1> QED
  BY <1>2, <1>5, <1>6, <1>7 DEF Legal

LEMMA OperandReducedKeeps ==
  ASSUME Good, OperandReduced
  PROVE  Good'
<1>1. /\ pc = "operand" /\ ~Dividing /\ pc' = "base"
      /\ loop' = [loop EXCEPT !.e = Result, !.bits = Bits(Result)]
      /\ Divide(loop.base, Call.mod)
      /\ UNCHANGED <<phase, args, gcd, reg, call>>
  BY DEF OperandReduced
<1>2. /\ call <= Len(Calls) /\ Fits(loop.base) /\ loop.acc \in 0 .. Call.mod - 1
      /\ loop \in [acc : Int, base : Int, e : Int, bits : Int] /\ Shape
  BY <1>1 DEF Good, Types, Loops, InCall
<1>3. Call.mod \in Nat \ {0} /\ Fits(Call.mod) /\ Call' = Call
  BY <1>1, <1>2, Modulo, CallStays
<1>4. Result \in Nat /\ Fits(Result)
  BY <1>1, <1>2, ResultOf
<1>5. Bits(Result) \in Int
  BY <1>4, BitsOf
<1>6. Shape' /\ div'.by = Call.mod
  <2>1. loop.base \in Int
    BY <1>2
  <2> QED
    BY <1>1, <1>2, <1>3, <2>1, DivideShape
<1>7. /\ loop' \in [acc : Int, base : Int, e : Int, bits : Int]
      /\ loop'.acc = loop.acc
  <2>1. Result \in Int
    BY <1>4
  <2> HIDE DEF Result
  <2> QED
    BY Zenon, <1>1, <1>2, <1>5, <2>1
<1>8. Loops'
  BY <1>1, <1>2, <1>3, <1>6, <1>7 DEF Loops, InCall, Divides
<1> QED
  BY <1>1, <1>2, <1>6, <1>7, <1>8, LoopStep DEF InCall

LEMMA SetBitKeeps ==
  ASSUME Good, SetBit
  PROVE  Good'
<1>1. /\ pc = "bit" /\ pc' = "acc" /\ Divide(Combined, Call.mod)
      /\ UNCHANGED <<phase, args, gcd, reg, call, loop>>
  BY DEF SetBit
<1>2. /\ call <= Len(Calls) /\ loop.acc \in 0 .. Call.mod - 1
      /\ loop.base \in 0 .. Call.mod - 1
      /\ loop \in [acc : Int, base : Int, e : Int, bits : Int]
  BY <1>1 DEF Good, Types, Loops, InCall
<1>3. /\ Call.mod \in Nat \ {0} /\ Fits(Call.mod)
      /\ loop.acc \in 0 .. P - 1 /\ loop.base \in 0 .. P - 1
  BY <1>2, Modulo
<1>4. Shape' /\ div'.by = Call.mod
  BY <1>1, <1>3, CombinedFits, DivideShape
<1>5. Call' = Call /\ loop' = loop
  BY <1>1, CallStays
<1>6. Loops'
  BY <1>1, <1>2, <1>4, <1>5 DEF Loops, InCall, Divides
<1> QED
  BY <1>1, <1>2, <1>4, <1>5, <1>6, LoopStep DEF InCall

(* The next bit.                                                           *)
LEMMA GrowKeeps ==
  ASSUME Good, pc \in {"bit", "acc"}, Grow, loop'.acc \in 0 .. Call.mod - 1,
         loop' \in [acc : Int, base : Int, e : Int, bits : Int],
         UNCHANGED <<phase, args, gcd, reg, call>>
  PROVE  Good'
<1>1. pc' = "base" /\ Divide(Grown, Call.mod)
  BY DEF Grow
<1>2. /\ call <= Len(Calls) /\ loop.acc \in 0 .. Call.mod - 1
      /\ loop.base \in 0 .. Call.mod - 1
  BY Zenon DEF Good, Types, Loops, InCall
<1>3. /\ Call.mod \in Nat \ {0} /\ Fits(Call.mod)
      /\ loop.acc \in 0 .. P - 1 /\ loop.base \in 0 .. P - 1
  BY Zenon, <1>2, Modulo
<1>4. Shape' /\ div'.by = Call.mod
  BY <1>1, <1>3, CombinedFits, DivideShape
<1>5. Call' = Call
  BY CallStays
<1>6. Loops'
  BY <1>1, <1>4, <1>5 DEF Loops, InCall, Divides
<1> QED
  BY <1>1, <1>2, <1>4, <1>6, LoopStep DEF InCall

LEMMA AccumulatedKeeps ==
  ASSUME Good, Accumulated
  PROVE  Good'
<1>1. /\ pc = "acc" /\ ~Dividing /\ Grow
      /\ loop' = [loop EXCEPT !.acc = Result, !.e = loop.e \div 2, !.bits = loop.bits - 1]
      /\ UNCHANGED <<phase, args, gcd, reg, call>>
  BY DEF Accumulated
<1>2. /\ loop \in [acc : Int, base : Int, e : Int, bits : Int]
      /\ Shape /\ div.by = Call.mod
  BY <1>1 DEF Good, Types, Loops, Divides
<1>3. Result \in 0 .. Call.mod - 1 /\ Result \in Nat
  BY <1>1, <1>2, ResultOf
<1>4. loop' \in [acc : Int, base : Int, e : Int, bits : Int] /\ loop'.acc = Result
  <2>1. Result \in Int /\ loop.e \div 2 \in Int /\ loop.bits - 1 \in Int
    BY <1>2, <1>3
  <2> QED
    BY Zenon, <1>1, <1>2, <2>1
<1> QED
  BY <1>1, <1>3, <1>4, GrowKeeps

LEMMA ClearBitKeeps ==
  ASSUME Good, ClearBit
  PROVE  Good'
<1>1. /\ pc = "bit" /\ Grow
      /\ loop' = [loop EXCEPT !.e = loop.e \div 2, !.bits = loop.bits - 1]
      /\ UNCHANGED <<phase, args, gcd, reg, call>>
  BY DEF ClearBit
<1>2. /\ loop \in [acc : Int, base : Int, e : Int, bits : Int]
      /\ loop.acc \in 0 .. Call.mod - 1
  BY <1>1 DEF Good, Types, Loops, InCall
<1>3. loop' \in [acc : Int, base : Int, e : Int, bits : Int] /\ loop'.acc = loop.acc
  <2>1. loop.e \div 2 \in Int /\ loop.bits - 1 \in Int
    BY <1>2
  <2> QED
    BY Zenon, <1>1, <1>2, <2>1
<1> QED
  BY <1>1, <1>2, <1>3, GrowKeeps

LEMMA BaseReducedKeeps ==
  ASSUME Good, BaseReduced
  PROVE  Good'
<1>1. /\ pc = "base" /\ ~Dividing /\ pc' = "bit" /\ div' = div
      /\ loop' = [loop EXCEPT !.base = Result]
      /\ UNCHANGED <<phase, args, gcd, reg, call>>
  BY DEF BaseReduced
<1>2. /\ call <= Len(Calls) /\ loop.acc \in 0 .. Call.mod - 1
      /\ loop \in [acc : Int, base : Int, e : Int, bits : Int]
      /\ Shape /\ div.by = Call.mod
  BY <1>1 DEF Good, Types, Loops, InCall, Divides
<1>3. Result \in 0 .. Call.mod - 1 /\ Result \in Nat
  BY <1>1, <1>2, ResultOf
<1>4. /\ loop' \in [acc : Int, base : Int, e : Int, bits : Int]
      /\ loop'.acc = loop.acc /\ loop'.base = Result
  <2>1. Result \in Int
    BY <1>3
  <2> QED
    BY <1>1, <1>2, <2>1
<1>5. Shape' /\ ~(Dividing)'
  BY Zenon, <1>1, <1>2 DEF Shape, Dividing
<1>6. Call' = Call
  BY <1>1, CallStays
<1>7. Loops'
  BY <1>1, <1>2, <1>3, <1>4, <1>5, <1>6 DEF Loops, InCall, Divides
<1> QED
  BY <1>1, <1>2, <1>4, <1>5, <1>7, LoopStep DEF InCall

(* What a call returns.                                                    *)
LEMMA ReturnsKeeps ==
  ASSUME Good, NEW x \in 0 .. Call.mod - 1, Returns(x), pc \in InCall, ~Dividing
  PROVE  Good'
<1>1. /\ reg' = [reg EXCEPT ![Call.to] = x] /\ call' = call + 1 /\ pc' = "call"
      /\ div' = div /\ phase' = phase /\ priv' = priv /\ pub' = pub /\ H' = H
      /\ gcd' = gcd /\ loop' = loop
  BY DEF Returns, args
<1>2. call <= Len(Calls) /\ Types /\ Registers /\ Shape
  BY DEF Good, Types
<1>3. /\ Legal(Call) /\ x \in 0 .. P - 1 /\ x \in Int /\ Fits(x)
      /\ Call.mod \in Nat \ {0}
  BY <1>2, Modulo
<1>4. /\ Call.to \in Regs \ {"k", "k_inv", "w"}
      /\ Call.to = "s" => phase = "sign" /\ x \in 0 .. Q - 1
  BY <1>3 DEF Legal
<1>5. /\ reg' \in [Regs -> Int] /\ \A y \in Regs : Fits(reg'[y])
      /\ \A y \in Regs : y # Call.to => reg'[y] = reg[y]
      /\ reg'[Call.to] = x
  BY Zenon, <1>1, <1>2, <1>3, <1>4 DEF Registers
<1>6. reg'.k = reg.k /\ X' = X
  <2>1. reg'.k = reg.k
    BY <1>4, <1>5 DEF Regs
  <2>2. phase # "sign" => reg'.s = reg.s
    BY <1>4, <1>5 DEF Regs
  <2> QED
    BY <1>1, <2>1, <2>2 DEF X
<1>7. /\ \A y \in {"u1", "u2", "t0", "t1", "v"} : reg'[y] \in 0 .. P - 1
  BY Zenon, <1>2, <1>3, <1>5 DEF Registers, Regs
<1>8. /\ reg'.s \in Nat /\ Fits((reg'.s * Q) * Q + Q)
      /\ phase = "sign" => reg'.s \in 0 .. Q - 1
  <2>1. CASE Call.to = "s"
    <3>1. reg'.s = x /\ x \in 0 .. Q - 1
      BY <1>4, <1>5, <2>1
    <3> QED
      BY <3>1, Modest
  <2>2. CASE Call.to # "s"
    <3>1. reg'.s = reg.s
      BY <1>5, <2>2 DEF Regs
    <3> QED
      BY <1>2, <3>1, Zenon DEF Registers
  <2> QED
    BY <2>1, <2>2
<1>9. Registers'
  BY Zenon, <1>1, <1>2, <1>5, <1>6, <1>7, <1>8 DEF Registers
<1>10. Types'
  BY <1>1, <1>2 DEF Types, InCall
<1>11. Shape' /\ ~(Dividing)'
  BY <1>1, <1>2 DEF Shape, Dividing
<1>12. Inverts' /\ Loops'
  BY <1>1, <1>2, <1>11 DEF Inverts, Loops, InCall, Divides, Types
<1>13. Coefficients'
  <2>1. Coefficients
    BY DEF Good, InCall
  <2> QED
    BY <1>1, <1>6, <2>1, Zenon DEF Coefficients
<1> QED
  BY <1>1, <1>9, <1>10, <1>11, <1>12, <1>13 DEF Good

LEMMA ReturnKeeps ==
  ASSUME Good, Return \/ ModReturn
  PROVE  Good'
<1>1. CASE Return
  <2>1. pc = "bit" /\ Returns(loop.acc)
    BY <1>1 DEF Return
  <2>2. loop.acc \in 0 .. Call.mod - 1 /\ ~Dividing
    BY <2>1 DEF Good, Loops, InCall, Divides
  <2> QED
    BY <2>1, <2>2, ReturnsKeeps DEF InCall
<1>2. CASE ModReturn
  <2>1. pc = "mod" /\ ~Dividing /\ Returns(Result)
    BY <1>2 DEF ModReturn
  <2>2. div.by = Call.mod /\ Shape
    BY <2>1 DEF Good, Loops, Divides
  <2>3. Result \in 0 .. Call.mod - 1
    BY <2>1, <2>2, ResultOf
  <2> QED
    BY <2>1, <2>3, ReturnsKeeps DEF InCall
<1> QED
  BY <1>1, <1>2

-----------------------------------------------------------------------------
(* The other steps.                                                        *)

(* What stays as it is between the calls.                                  *)
LEMMA Between ==
  ASSUME Good, pc \notin Divides, pc' \notin InCall, div' = div, loop' = loop,
         pc' = "random" \/ Coefficients', pc' = "gcd" => Growth',
         Types', Registers', Inverts'
  PROVE  Good'
<1>1. Shape /\ ~Dividing
  BY DEF Good, Loops
<1>2. Shape' /\ ~(Dividing)'
  BY <1>1 DEF Shape, Dividing
<1>3. Loops'
  BY <1>2 DEF Loops, InCall, Divides
<1> QED
  BY <1>2, <1>3 DEF Good

LEMMA RandomKeeps ==
  ASSUME Good, Random
  PROVE  Good'
<1>1. PICK k \in Nonces : reg' = [reg EXCEPT !.k = k] /\ gcd' = GcdOf(k)
  BY DEF Random
<1>2. /\ pc = "random" /\ pc' = "gcd" /\ phase = "sign" /\ phase' = "sign"
      /\ div' = div /\ priv' = priv /\ pub' = pub /\ H' = H /\ call' = call
      /\ loop' = loop
  BY DEF Random, args, Good, Types
<1>3. Types /\ Registers
  BY DEF Good
<1>4. k \in 0 .. Q - 1 /\ k \in Nat
  <2> DEFINE top == Base ^ Hexp(Q)
  <2>1. Q \in Nat \ {0} /\ Q < Base ^ (Size + 1)
    <3>1. Abs(Q) < Base ^ (Size + 1) /\ Abs(Q) = Q /\ Q \in Nat \ {0}
      BY Keys, Room DEF Abs
    <3> QED
      BY <3>1
  <2>2. Hexp(Q) \in 0 .. Size + 1
    <3>1. Hexp(Q) \in 0 .. Size
      BY <2>1, HexpOf
    <3> QED
      BY <3>1, FewPowers
  <2>3. top \in Nat \ {0}
    BY <2>2, PowerAssumption
  <2>4. k \in 0 .. (Q \div top) * top - 1
    BY DEF Nonces
  <2> HIDE DEF top
  <2>5. (Q \div top) * top <= Q /\ (Q \div top) * top \in Int
    <3>1. Q \div top \in Nat
      BY <2>1, <2>3, Div
    <3>2. (Q \div top) * top \in Nat
      BY <2>3, <3>1, Times
    <3> QED
      BY <2>1, <2>3, <3>2, Div
  <2> QED
    BY <2>1, <2>4, <2>5
<1>5. /\ reg' \in [Regs -> Int] /\ reg'.k = k
      /\ \A y \in Regs : y # "k" => reg'[y] = reg[y]
  BY <1>1, <1>3, <1>4 DEF Registers, Regs
<1>6. Fits(k)
  BY <1>4, Modest
<1>7. Registers'
  <2>1. \A y \in Regs : Fits(reg'[y])
    BY <1>3, <1>5, <1>6 DEF Registers
  <2>2. reg'.u1 = reg.u1 /\ reg'.u2 = reg.u2 /\ reg'.t0 = reg.t0 /\ reg'.t1 = reg.t1
        /\ reg'.v = reg.v /\ reg'.s = reg.s
    BY <1>5 DEF Regs
  <2> QED
    BY <1>2, <1>3, <1>4, <1>5, <2>1, <2>2 DEF Registers
<1>8. X' = k
  BY <1>2, <1>5 DEF X
<1>9. Coefficients' /\ Growth'
  BY <1>1, <1>4, <1>8, GcdStarts
<1>10. Types'
  BY <1>2, <1>3 DEF Types, InCall
<1>11. Inverts'
  BY <1>2 DEF Inverts
<1> QED
  BY <1>2, <1>7, <1>9, <1>10, <1>11, Between DEF InCall, Divides

LEMMA GcdStepKeeps ==
  ASSUME Good, HalveU \/ HalveV \/ Subtract
  PROVE  Good'
<1>1. /\ pc = "gcd" /\ pc' = "gcd"
      /\ UNCHANGED <<div, phase, args, reg, call, loop>>
  BY DEF HalveU, HalveV, Subtract
<1>2. X' = X /\ Registers' /\ Len(Calls)' = Len(Calls)
  BY <1>1, CallStays DEF Good
<1>3. X \in Nat
  BY InvertedFits DEF Good, Types
<1>4. Coefficients /\ Growth
  BY <1>1 DEF Good
<1>5. Coefficients' /\ Growth'
  BY <1>2, <1>3, <1>4, HalveUKeeps, HalveVKeeps, SubtractKeeps
<1>6. Types' /\ Inverts'
  BY <1>1 DEF Good, Types, Inverts, InCall, args
<1> QED
  BY <1>1, <1>2, <1>5, <1>6, Between DEF InCall, Divides

LEMMA InvertedKeeps ==
  ASSUME Good, Inverted
  PROVE  Good'
<1>1. /\ pc = "gcd"
      /\ div' = div /\ phase' = phase /\ priv' = priv /\ pub' = pub /\ H' = H
      /\ gcd' = gcd /\ call' = call /\ loop' = loop
  BY DEF Inverted, args
<1>2. Types /\ Registers /\ Coefficients /\ Growth
  BY <1>1 DEF Good
<1>3. X \in Nat /\ Fits((X * Q) * Q + Q)
  BY <1>2, InvertedFits DEF Types
<1>4. CASE gcd.v = 1
  <2> DEFINE to == IF phase = "sign" THEN "k_inv" ELSE "w"
             inverse == InverseOfX
  <2>1. pc' = "call" /\ reg' = [reg EXCEPT ![to] = inverse]
    BY <1>4 DEF Inverted
  <2>2. inverse \in Int /\ Fits(inverse) /\ (inverse * X) % Q = 1
    BY <1>2, <1>3, <1>4, InverseFits
  <2> HIDE DEF inverse
  <2>3. /\ reg' \in [Regs -> Int] /\ reg'[to] = inverse /\ to \in {"k_inv", "w"}
        /\ \A y \in Regs : y # to => reg'[y] = reg[y]
    BY <1>2, <2>1, <2>2 DEF Registers, Regs
  <2>4. reg'.k = reg.k /\ reg'.u1 = reg.u1 /\ reg'.u2 = reg.u2 /\ reg'.t0 = reg.t0
        /\ reg'.t1 = reg.t1 /\ reg'.v = reg.v /\ reg'.s = reg.s
    BY <2>3 DEF Regs
  <2>5. \A y \in Regs : Fits(reg'[y])
    BY <1>2, <2>2, <2>3 DEF Registers
  <2>6. Registers'
    BY <1>1, <1>2, <2>3, <2>4, <2>5 DEF Registers
  <2>7. X' = X
    BY <1>1, <2>4 DEF X
  <2>8. Inverts'
    BY <1>1, <2>2, <2>3, <2>7 DEF Inverts
  <2>9. Coefficients'
    BY <1>1, <1>2, <2>7, Zenon DEF Coefficients
  <2>10. Types'
    BY <1>1, <1>2, <2>1 DEF Types, InCall
  <2> QED
    BY <1>1, <2>1, <2>6, <2>8, <2>9, <2>10, Between DEF InCall, Divides
<1>5. CASE gcd.v # 1
  <2>1. /\ pc' = (IF phase = "sign" THEN "random" ELSE "done") /\ reg' = reg
    BY <1>5 DEF Inverted
  <2>2. X' = X /\ Registers'
    BY <1>1, <1>2, <2>1 DEF X, Registers
  <2>3. Coefficients'
    BY <1>1, <1>2, <2>2, Zenon DEF Coefficients
  <2>4. Types' /\ Inverts' /\ pc' \in {"random", "done"}
    BY <1>1, <1>2, <2>1 DEF Types, Inverts, InCall
  <2> QED
    BY <1>1, <2>2, <2>3, <2>4, Between DEF InCall, Divides
<1> QED
  BY <1>4, <1>5

LEMMA EndKeeps ==
  ASSUME Good, Sign \/ Compare
  PROVE  Good'
<1>1. /\ pc = "call" /\ div' = div /\ priv' = priv /\ pub' = pub /\ H' = H
      /\ reg' = reg /\ loop' = loop
  BY DEF Sign, Compare, args
<1>2. Types /\ Registers /\ Coefficients
  BY <1>1 DEF Good
<1>3. CASE Sign
  <2>1. phase' = "signed" /\ gcd' = GcdOf(reg.s) /\ call' = 1 /\ pc' = "gcd"
    BY <1>3 DEF Sign
  <2>2. X' = reg.s /\ reg.s \in Nat
    BY <1>1, <1>2, <2>1 DEF X, Registers
  <2>3. Coefficients' /\ Growth'
    BY <2>1, <2>2, GcdStarts
  <2>4. Types' /\ Registers' /\ Inverts'
    BY <1>1, <1>2, <2>1 DEF Types, Registers, Inverts, InCall
  <2> QED
    BY <1>1, <2>1, <2>3, <2>4, Between DEF InCall, Divides
<1>4. CASE Compare
  <2>1. phase' = phase /\ gcd' = gcd /\ call' = call /\ pc' = "done"
    BY <1>4 DEF Compare
  <2>2. X' = X
    BY <1>1, <2>1 DEF X
  <2>3. Coefficients'
    BY <1>2, <2>1, <2>2, Zenon DEF Coefficients
  <2>4. Types' /\ Registers' /\ Inverts'
    BY <1>1, <1>2, <2>1 DEF Types, Registers, Inverts, InCall
  <2> QED
    BY <1>1, <2>1, <2>3, <2>4, Between DEF InCall, Divides
<1> QED
  BY <1>3, <1>4

LEMMA DigitDoneKeeps ==
  ASSUME Good, DigitDone, ~slipped'
  PROVE  Good'
<1>1. Digit /\ Dividing /\ UNCHANGED <<phase, args, pc, gcd, reg, call, loop>>
  BY DEF DigitDone, Digit
<1>2. Shape' /\ div'.by = div.by
  BY <1>1, DigitShape DEF Good
<1>3. pc \in Divides /\ div.by = Call.mod /\ Call' = Call
  BY <1>1, CallStays DEF Good, Loops
<1>4. Loops'
  <2>1. pc' = pc /\ loop' = loop
    BY <1>1
  <2> QED
    BY <1>2, <1>3, <2>1 DEF Good, Loops
<1>5. pc \in InCall /\ pc' = pc /\ loop' = loop
  BY <1>1, <1>3 DEF InCall, Divides
<1>6. /\ call <= Len(Calls)
      /\ loop' \in [acc : Int, base : Int, e : Int, bits : Int]
  BY <1>5 DEF Good, Types
<1> QED
  BY <1>1, <1>2, <1>4, <1>5, <1>6, LoopStep

-----------------------------------------------------------------------------
LEMMA InitGood == Init => IInv
<1> SUFFICES ASSUME Init PROVE IInv
  OBVIOUS
<1>1. PICK r \in Rs, s \in Ss :
        /\ reg = [x \in {"k", "k_inv", "r", "s", "w", "u1", "u2", "t0", "t1", "v"} |->
                   IF x = "r" THEN r ELSE IF x = "s" THEN s ELSE 0]
        /\ gcd = GcdOf(s)
        /\ \/ phase = "check" /\ pc = "gcd"
           \/ phase = "sign" /\ pc = "random" /\ r = 0 /\ s = 0
  BY DEF Init
<1>2. /\ r \in Nat /\ s \in Nat /\ Fits(r) /\ Fits((s * Q) * Q + Q)
      /\ P \in Nat /\ Q \in Nat \ {0} /\ Q > 1 /\ P > Q /\ Fits(0) /\ Fits(1)
  <2>1. r \in Nat /\ s \in Nat
    BY DsaAssumption
  <2>2. Fits(r) /\ Fits((s * Q) * Q + Q)
    BY SizeAssumption
  <2>3. 0 \in 0 .. Q - 1 /\ 1 \in 0 .. Q - 1
    BY Keys
  <2> QED
    BY <2>1, <2>2, <2>3, Keys, Modest
<1>3. Fits(s)
  <2>1. s * Q \in Nat /\ s <= s * Q
    BY <1>2, Times
  <2>2. (s * Q) * Q \in Nat /\ s * Q <= (s * Q) * Q
    BY <1>2, <2>1, Times
  <2>3. Abs(s) <= Abs((s * Q) * Q + Q)
    BY <1>2, <2>1, <2>2 DEF Abs
  <2>4. s \in Int /\ (s * Q) * Q + Q \in Int
    BY <1>2, <2>2
  <2> QED
    BY <1>2, <2>3, <2>4, Smaller
<1>4. Registers
  <2>1. /\ reg.k = 0 /\ reg.u1 = 0 /\ reg.u2 = 0 /\ reg.t0 = 0 /\ reg.t1 = 0
        /\ reg.v = 0 /\ reg.s = s
    BY <1>1
  <2>2. reg \in [Regs -> Int] /\ \A x \in Regs : Fits(reg[x])
    BY <1>1, <1>2, <1>3 DEF Regs
  <2>3. phase = "sign" => reg.s \in 0 .. Q - 1
    BY <1>1, <1>2, <2>1
  <2> QED
    BY <1>2, <2>1, <2>2, <2>3 DEF Registers
<1>5. priv \in 0 .. Q - 1 /\ pub \in 0 .. P - 1 /\ H \in Nat /\ Fits(H + Q)
  <2>1. priv \in Privs /\ pub = PubOf(priv) /\ H \in {DigestOf(x) : x \in Digests}
    BY DEF Init
  <2>2. pub \in 0 .. P - 1 /\ H \in Nat /\ Fits(H + Q)
    BY <2>1, SizeAssumption
  <2>3. priv \in 0 .. Q - 1
    BY <1>2, <2>1, DsaAssumption
  <2> QED
    BY <2>2, <2>3
<1>6. /\ div = [of |-> 0, by |-> 1, m |-> 0, shifted |-> 1, left |-> 0]
      /\ slipped = FALSE /\ call = 1
      /\ loop = [acc |-> 0, base |-> 0, e |-> 0, bits |-> 0]
  BY DEF Init
<1>7. Types
  BY <1>1, <1>5, <1>6 DEF Types, InCall
<1>8. Shape /\ ~Dividing
  <2>1. Size \in Nat /\ Abs(0) = 0 /\ 0 = 0 * 1 + 0
    BY FewPowers DEF Abs
  <2> QED
    BY <1>2, <1>6, <2>1 DEF Shape, Dividing
<1>9. Inverts /\ Loops
  BY <1>1, <1>8 DEF Inverts, Loops, InCall, Divides
<1>10. pc # "random" => Coefficients /\ Growth
  <2> SUFFICES ASSUME pc # "random" PROVE Coefficients /\ Growth
    OBVIOUS
  <2>1. X = s
    BY <1>1 DEF X
  <2>2. Coefficients
    BY <1>1, <1>2, <2>1, GcdBegins, Zenon DEF Coefficients
  <2>3. Bounded(1) /\ 1 \in Nat \ {0}
    <3>1. Kept(gcd.u, gcd.v, gcd.A, 1) /\ Kept(gcd.v, gcd.u, gcd.C, 1)
      BY <1>1, <1>2, <2>1, GcdBegins, Zenon DEF Kept
    <3> QED
      BY <3>1 DEF Bounded
  <2> QED
    BY Zenon, <1>1, <1>2, <2>1, <2>2, <2>3, GcdBegins DEF Growth
<1> QED
  BY Zenon, <1>4, <1>6, <1>7, <1>8, <1>9, <1>10 DEF IInv, Good

LEMMA NextGood == IInv /\ [Next]_vars => IInv'
<1> SUFFICES ASSUME IInv, [Next]_vars PROVE IInv'
  OBVIOUS
<1>1. slipped' = slipped \/ slipped' = (slipped \/ (Takes /\ Slips))
  BY Zenon DEF Next, vars, Random, HalveU, HalveV, Subtract, Inverted, Begin, OperandReduced,
         SetBit, Accumulated, ClearBit, BaseReduced, Return, ModReturn, Returns, Sign,
         Compare, DigitDone, Digit
<1>2. slipped' \in BOOLEAN /\ (slipped => slipped')
  BY <1>1, Zenon DEF IInv
<1>3. ASSUME ~slipped' PROVE Good'
  <2>1. Good
    BY <1>2, <1>3 DEF IInv
  <2>2. CASE Random
    BY <2>1, <2>2, RandomKeeps
  <2>3. CASE HalveU \/ HalveV \/ Subtract
    BY <2>1, <2>3, GcdStepKeeps
  <2>4. CASE Inverted
    BY <2>1, <2>4, InvertedKeeps
  <2>5. CASE Begin
    BY <2>1, <2>5, BeginKeeps
  <2>6. CASE OperandReduced
    BY <2>1, <2>6, OperandReducedKeeps
  <2>7. CASE SetBit
    BY <2>1, <2>7, SetBitKeeps
  <2>8. CASE Accumulated
    BY <2>1, <2>8, AccumulatedKeeps
  <2>9. CASE ClearBit
    BY <2>1, <2>9, ClearBitKeeps
  <2>10. CASE BaseReduced
    BY <2>1, <2>10, BaseReducedKeeps
  <2>11. CASE Return \/ ModReturn
    BY <2>1, <2>11, ReturnKeeps
  <2>12. CASE Sign \/ Compare
    BY <2>1, <2>12, EndKeeps
  <2>13. CASE DigitDone
    BY <1>3, <2>1, <2>13, DigitDoneKeeps
  <2>14. CASE UNCHANGED vars
    <3>1. /\ UNCHANGED <<phase, args, reg, call>> /\ div' = div /\ pc' = pc
          /\ gcd' = gcd /\ loop' = loop
      BY <2>14 DEF vars
    <3>2. /\ Call' = Call /\ X' = X /\ Len(Calls)' = Len(Calls) /\ Registers'
      BY <2>1, <3>1, CallStays DEF Good
    <3>3. Types' /\ Inverts' /\ Loops' /\ Shape'
      BY <2>1, <3>1, <3>2 DEF Good, Types, Inverts, Loops, Shape, Dividing, args
    <3>4. Coefficients' <=> Coefficients
      BY <3>1, <3>2, Zenon DEF Coefficients
    <3>5. Growth' <=> Growth
      BY <3>1, <3>2 DEF Growth, Bounded, Kept
    <3> QED
      BY <2>1, <3>1, <3>2, <3>3, <3>4, <3>5 DEF Good
  <2> QED
    BY <2>2, <2>3, <2>4, <2>5, <2>6, <2>7, <2>8, <2>9, <2>10, <2>11, <2>12, <2>13,
       <2>14 DEF Next
<1> QED
  BY <1>2, <1>3 DEF IInv

(* Until an estimate slips, every number of every call is below its modulus *)
(* and is stored as it is.                                                 *)
THEOREM Invariance == Spec => []IInv
<1>1. Init => IInv
  BY InitGood
<1>2. IInv /\ [Next]_vars => IInv'
  BY NextGood
<1> QED
  BY <1>1, <1>2, PTL DEF Spec

(* bch_div_mod's digits, each estimated from the highest ones and          *)
(* corrected once, make the remainder, unless one of them slips.           *)
THEOREM DigitsMakeTheRemainder == Spec => []Remainder
<1>1. IInv => Remainder
  <2> SUFFICES ASSUME IInv, ~slipped PROVE Remainder
    BY DEF Remainder
  <2>1. Shape
    BY DEF IInv, Good
  <2>2. /\ div \in [of : Int, by : Nat \ {0}, m : Nat, shifted : Nat, left : 0 .. Size]
        /\ Fits(div.of) /\ div.m <= Abs(div.of)
        /\ ~Dividing => div.shifted = div.by /\ div.m < div.by
        /\ Dividing => div.m < Base * div.shifted
    BY <2>1 DEF Shape
  <2>3. div.of \in Number /\ div.m \in 0 .. Half
    <3>1. div.of \in Int /\ div.m \in Nat
      BY <2>2
    <3>2. div.of \in Number /\ Abs(div.of) < Half /\ Half \in Nat /\ Abs(div.of) \in Nat
      BY <2>2, <3>1, Room
    <3> QED
      BY <2>2, <3>1, <3>2
  <2>4. DivTypeOK
    BY <2>2, <2>3 DEF DivTypeOK, IInv
  <2>5. (Abs(div.of) - div.m) % div.by = 0
    <3>1. PICK t \in Nat : Abs(div.of) = t * div.by + div.m
      BY <2>1 DEF Shape
    <3>2. PICK d \in Nat \ {0}, m \in Nat : d = div.by /\ m = div.m
      BY <2>2
    <3>3. t * d \in Nat
      BY <3>2, Times
    <3>4. Abs(div.of) - div.m = t * d
      BY <3>1, <3>2, <3>3
    <3>5. (t * d) % d = 0
      BY Multiple
    <3> QED
      BY <3>2, <3>4, <3>5, Zenon
  <2> QED
    BY <2>2, <2>4, <2>5 DEF Remainder
<1> QED
  BY <1>1, Invariance, PTL

(* bch_gcdex_bin's coefficients do what they are for, and bch_inverse_bin's *)
(* result is an inverse, of every number that has one, though it may be    *)
(* below 0 or above Q.                                                     *)
THEOREM InversesAreRight == Spec => []InverseRight
<1>1. IInv => InverseRight
  BY Zenon DEF IInv, Good, Coefficients, Inverts, InverseRight
<1> QED
  BY <1>1, Invariance, PTL

-----------------------------------------------------------------------------
(* Remainders and powers.                                                  *)

(* Induction: a set that has 0 and with each number the next one has all.  *)
LEMMA Counting ==
  ASSUME NEW S, 0 \in S, \A i \in Nat : i \in S => i + 1 \in S
  PROVE  \A i \in Nat : i \in S
<1> SUFFICES ASSUME NEW n \in Nat PROVE n \in S
  OBVIOUS
<1> DEFINE T == {m \in 0 .. n : m \in S}
<1>1. T \subseteq 0 .. n /\ 0 \in T
  OBVIOUS
<1>2. PICK g \in T : \A m \in T : m <= g
  BY Zenon, <1>1, Greatest
<1>3. g \in 0 .. n /\ g \in S /\ g \in Nat
  OBVIOUS
<1>4. g + 1 \in S
  BY <1>3
<1>5. CASE g < n
  <2>1. g + 1 \in T
    BY <1>3, <1>4, <1>5
  <2> QED
    BY <1>2, <1>3, <2>1
<1> QED
  BY <1>3, <1>5

(* A number is a multiple and its remainder.                               *)
LEMMA Parts ==
  ASSUME NEW x \in Int, NEW m \in Nat \ {0}
  PROVE  \E q \in Int : x = q * m + (x % m)
<1>1. x \div m \in Int /\ x = (x \div m) * m + (x % m)
  BY SMT
<1> QED
  BY Zenon, <1>1

(* No other remainder is left.                                             *)
LEMMA Unique ==
  ASSUME NEW x \in Int, NEW m \in Nat \ {0}, NEW q \in Int, NEW r \in 0 .. m - 1,
         x = q * m + r
  PROVE  x % m = r
<1>1. PICK p \in Int : x = p * m + (x % m)
  BY Zenon, Parts
<1>2. x % m \in 0 .. m - 1
  BY Mod
<1> DEFINE s == x % m
<1> HIDE DEF s
<1>0. x = p * m + s /\ s \in 0 .. m - 1
  BY <1>1, <1>2 DEF s
<1>3. (p - q) * m = r - s /\ (q - p) * m = s - r
  <2>1. (p - q) * m = p * m - q * m /\ (q - p) * m = q * m - p * m
        /\ p * m \in Int /\ q * m \in Int
    BY SMT
  <2> QED
    BY <1>0, <2>1
<1>4. \A d \in Nat : d >= 1 => d * m >= m
  <2> TAKE d \in Nat
  <2>1. d >= 1 => m <= m * d /\ m * d = d * m
    BY Times
  <2> QED
    BY <2>1
<1>6. ~(p - q >= 1) /\ ~(q - p >= 1)
  BY <1>0, <1>3, <1>4
<1>7. p = q
  BY <1>6
<1> QED
  BY <1>0, <1>3, <1>7, SMT DEF s

(* What is congruent has the same remainder.                               *)
LEMMA Congruent ==
  ASSUME NEW y \in Int, NEW m \in Nat \ {0}, NEW t \in Int
  PROVE  (y + t * m) % m = y % m
<1>1. PICK q \in Int : y = q * m + (y % m)
  BY Zenon, Parts
<1>2. y % m \in 0 .. m - 1
  BY Mod
<1>3. /\ (q + t) * m = q * m + t * m /\ q * m \in Int /\ t * m \in Int
      /\ q + t \in Int
  BY SMT
<1>4. y + t * m = (q + t) * m + (y % m) /\ y + t * m \in Int
  BY <1>1, <1>2, <1>3
<1> QED
  BY Zenon, <1>2, <1>3, <1>4, Unique

LEMMA ModRange ==
  ASSUME NEW x \in Int, NEW m \in Nat \ {0}
  PROVE  x % m \in 0 .. m - 1 /\ x % m \in Nat /\ x % m \in Int
BY Mod

LEMMA ModMod ==
  ASSUME NEW x \in Int, NEW m \in Nat \ {0}
  PROVE  (x % m) % m = x % m
<1>1. x % m \in 0 .. m - 1 /\ x % m \in Int
  BY Mod
<1> DEFINE r == x % m
<1> HIDE DEF r
<1>2. r \in 0 .. m - 1 /\ r \in Int
  BY <1>1 DEF r
<1>3. r % m = r
  BY <1>2, Mod
<1> QED
  BY <1>3 DEF r

(* Remainders may be taken before a sum or product is made.                *)
LEMMA ModSum ==
  ASSUME NEW x \in Int, NEW y \in Int, NEW m \in Nat \ {0}
  PROVE  /\ ((x % m) + y) % m = (x + y) % m
         /\ (y + (x % m)) % m = (x + y) % m
<1> DEFINE r == x % m
<1> HIDE DEF r
<1>1. PICK q \in Int : x = q * m + r
  BY Zenon, Parts DEF r
<1>2. r \in Int
  BY Mod DEF r
<1>3. x + y = (r + y) + q * m /\ r + y \in Int /\ x + y \in Int /\ y + r = r + y
  <2>1. q * m \in Int
    BY SMT
  <2> QED
    BY <1>1, <1>2, <2>1
<1>4. ((r + y) + q * m) % m = (r + y) % m
  BY <1>3, Congruent, Zenon
<1> QED
  BY <1>3, <1>4, Zenon DEF r

LEMMA ModProduct ==
  ASSUME NEW x \in Int, NEW y \in Int, NEW m \in Nat \ {0}
  PROVE  /\ ((x % m) * y) % m = (x * y) % m
         /\ (y * (x % m)) % m = (x * y) % m
         /\ x * y = y * x
<1> DEFINE r == x % m
<1> HIDE DEF r
<1>1. PICK q \in Int : x = q * m + r
  BY Zenon, Parts DEF r
<1>2. r \in Int
  BY Mod DEF r
<1>3. (q * m + r) * y = r * y + (q * y) * m
  BY <1>2, SMT
<1>4. r * y \in Int /\ x * y \in Int /\ q * y \in Int /\ y * r = r * y /\ x * y = y * x
  BY <1>2, SMT
<1>5. (r * y + (q * y) * m) % m = (r * y) % m
  BY <1>4, Congruent, Zenon
<1> QED
  BY <1>1, <1>3, <1>4, <1>5, Zenon DEF r

(* There is the function that Power is defined by.                         *)
IsPowers(f, b, n, m) ==
  f = [k \in 0 .. n |-> IF k = 0 THEN 1 % m ELSE (f[k - 1] * b) % m]

LEMMA PowersExist ==
  ASSUME NEW b, NEW m, NEW n \in Nat
  PROVE  \E f : IsPowers(f, b, n, m)
<1> DEFINE S == {i \in Nat : \E f : IsPowers(f, b, i, m)}
<1>1. 0 \in S
  <2> DEFINE f == [k \in 0 .. 0 |-> 1 % m]
  <2>1. IsPowers(f, b, 0, m)
    BY DEF IsPowers
  <2> QED
    BY <2>1
<1>2. ASSUME NEW i \in Nat, i \in S PROVE i + 1 \in S
  <2>1. PICK f : IsPowers(f, b, i, m)
    BY <1>2
  <2>2. /\ f = [k \in 0 .. i |-> IF k = 0 THEN 1 % m ELSE (f[k - 1] * b) % m]
    BY <2>1 DEF IsPowers
  <2> DEFINE g == [k \in 0 .. i + 1 |-> IF k = i + 1 THEN (f[i] * b) % m ELSE f[k]]
  <2>3. ASSUME NEW k \in 0 .. i + 1
        PROVE  g[k] = IF k = 0 THEN 1 % m ELSE (g[k - 1] * b) % m
    <3>1. CASE k = i + 1
      <4>1. i \in 0 .. i + 1 /\ i # i + 1 /\ k - 1 = i /\ k # 0
        BY <3>1
      <4>2. g[k] = (f[i] * b) % m /\ g[i] = f[i]
        BY <3>1, <4>1
      <4> QED
        BY <4>1, <4>2
    <3>2. CASE k # i + 1
      <4>1. k \in 0 .. i /\ g[k] = f[k]
        BY <3>2
      <4>2. f[k] = IF k = 0 THEN 1 % m ELSE (f[k - 1] * b) % m
        BY <2>2, <4>1
      <4>3. k # 0 => k - 1 \in 0 .. i + 1 /\ k - 1 # i + 1
        BY <4>1
      <4>4. k # 0 => g[k - 1] = f[k - 1]
        BY <4>3
      <4> HIDE DEF g
      <4> QED
        BY <4>1, <4>2, <4>4
    <3> QED
      BY <3>1, <3>2
  <2>4. g = [k \in 0 .. i + 1 |-> IF k = 0 THEN 1 % m ELSE (g[k - 1] * b) % m]
    BY <2>3, Zenon
  <2> HIDE DEF g
  <2>5. IsPowers(g, b, i + 1, m)
    BY <2>4 DEF IsPowers
  <2> QED
    BY <2>5
<1> HIDE DEF S
<1>3. \A i \in Nat : i \in S
  BY <1>1, <1>2, Counting
<1> QED
  BY <1>3 DEF S

LEMMA PowersAlike ==
  ASSUME NEW b, NEW m, NEW n \in Nat, NEW f, IsPowers(f, b, n, m),
         NEW h \in Nat, NEW g, IsPowers(g, b, h, m), n <= h
  PROVE  f[n] = g[n]
<1> DEFINE S == {i \in Nat : i <= n => f[i] = g[i]}
<1>1. /\ f = [k \in 0 .. n |-> IF k = 0 THEN 1 % m ELSE (f[k - 1] * b) % m]
      /\ g = [k \in 0 .. h |-> IF k = 0 THEN 1 % m ELSE (g[k - 1] * b) % m]
  BY Zenon DEF IsPowers
<1>2. ASSUME NEW k \in Nat, k <= n
      PROVE  /\ f[k] = (IF k = 0 THEN 1 % m ELSE (f[k - 1] * b) % m)
             /\ g[k] = (IF k = 0 THEN 1 % m ELSE (g[k - 1] * b) % m)
  <2>1. k \in 0 .. n /\ k \in 0 .. h
    BY <1>2
  <2> QED
    BY Zenon, <1>1, <2>1
<1>3. 0 \in S
  BY <1>2
<1>4. ASSUME NEW i \in Nat, i \in S PROVE i + 1 \in S
  <2> SUFFICES ASSUME i + 1 <= n PROVE f[i + 1] = g[i + 1]
    OBVIOUS
  <2>1. f[i] = g[i] /\ i + 1 \in Nat /\ i + 1 # 0 /\ (i + 1) - 1 = i
    BY <1>4
  <2>2. f[i + 1] = (f[(i + 1) - 1] * b) % m /\ g[i + 1] = (g[(i + 1) - 1] * b) % m
    BY <1>2, <2>1
  <2> QED
    BY <2>1, <2>2
<1> HIDE DEF S
<1>5. \A i \in Nat : i \in S
  BY <1>3, <1>4, Counting
<1> QED
  BY <1>5 DEF S

(* One factor more.                                                        *)
LEMMA PowerSteps ==
  ASSUME NEW b \in Int, NEW m \in Nat \ {0}, NEW n \in Nat
  PROVE  /\ Power(b, 0, m) = 1 % m
         /\ Power(b, n + 1, m) = (Power(b, n, m) * b) % m
<1> DEFINE F(i) == CHOOSE f : IsPowers(f, b, i, m)
<1>1. \A i \in Nat : IsPowers(F(i), b, i, m)
  BY PowersExist
<1>2. \A i : Power(b, i, m) = F(i)[i]
  BY Zenon DEF Power, IsPowers
<1> HIDE DEF F
<1>3. \A i \in Nat : F(i) = [k \in 0 .. i |-> IF k = 0 THEN 1 % m
                                              ELSE (F(i)[k - 1] * b) % m]
  BY <1>1 DEF IsPowers
<1>4. F(0)[0] = 1 % m
  <2>1. 0 \in 0 .. 0 /\ 0 \in Nat
    OBVIOUS
  <2> QED
    BY <1>3, <2>1
<1>5. F(n + 1)[n + 1] = (F(n + 1)[n] * b) % m
  <2>1. n + 1 \in 0 .. n + 1 /\ n + 1 \in Nat /\ n + 1 # 0 /\ (n + 1) - 1 = n
    OBVIOUS
  <2> QED
    BY <1>3, <2>1
<1>6. F(n)[n] = F(n + 1)[n]
  <2>1. n + 1 \in Nat /\ n <= n + 1
    OBVIOUS
  <2> QED
    BY <1>1, <2>1, PowersAlike
<1> QED
  BY <1>2, <1>4, <1>5, <1>6

LEMMA PowerRange ==
  ASSUME NEW b \in Int, NEW m \in Nat \ {0}, NEW n \in Nat
  PROVE  /\ Power(b, n, m) \in 0 .. m - 1 /\ Power(b, n, m) \in Nat
         /\ Power(b, n, m) % m = Power(b, n, m)
<1> DEFINE S == {i \in Nat : Power(b, i, m) \in 0 .. m - 1}
<1>1. 0 \in S
  <2>1. Power(b, 0, m) = 1 % m /\ 1 \in Int /\ 0 \in Nat
    BY PowerSteps
  <2>2. 1 % m \in 0 .. m - 1
    BY <2>1, ModRange, Zenon
  <2> QED
    BY <2>1, <2>2
<1>2. ASSUME NEW i \in Nat, i \in S PROVE i + 1 \in S
  <2>1. Power(b, i, m) * b \in Int
    BY <1>2, SMT
  <2>2. (Power(b, i, m) * b) % m \in 0 .. m - 1
    BY Zenon, <2>1, Mod
  <2>3. Power(b, i + 1, m) = (Power(b, i, m) * b) % m
    BY <1>2, PowerSteps
  <2> QED
    BY <1>2, <2>2, <2>3
<1> HIDE DEF S
<1>3. \A i \in Nat : i \in S
  BY <1>1, <1>2, Counting
<1>4. Power(b, n, m) \in 0 .. m - 1
  BY <1>3 DEF S
<1> DEFINE p == Power(b, n, m)
<1> HIDE DEF p
<1>5. p \in 0 .. m - 1 /\ p \in Nat
  BY <1>4 DEF p
<1>6. p % m = p
  BY <1>5, Mod
<1> QED
  BY <1>5, <1>6 DEF p

(* The base's remainder is all that counts.                                *)
LEMMA PowerBase ==
  ASSUME NEW b \in Int, NEW m \in Nat \ {0}, NEW n \in Nat
  PROVE  Power(b % m, n, m) = Power(b, n, m)
<1> DEFINE c == b % m
           S == {i \in Nat : Power(c, i, m) = Power(b, i, m)}
<1>1. c \in Int /\ c % m = b % m
  BY ModRange, ModMod, Zenon
<1> HIDE DEF c
<1>2. 0 \in S
  BY <1>1, PowerSteps
<1>3. ASSUME NEW i \in Nat, i \in S PROVE i + 1 \in S
  <2>1. Power(c, i, m) = Power(b, i, m) /\ Power(b, i, m) \in Int
    BY <1>3, PowerRange
  <2> DEFINE p == Power(b, i, m)
  <2> HIDE DEF p
  <2>2. (p * c) % m = (p * b) % m
    <3>1. p \in Int
      BY <2>1 DEF p
    <3>2. (p * (b % m)) % m = (b * p) % m /\ b * p = p * b
      BY <3>1, ModProduct, Zenon
    <3> QED
      BY <3>2, Zenon DEF c
  <2>3. /\ Power(b, i + 1, m) = (Power(b, i, m) * b) % m
        /\ Power(c, i + 1, m) = (Power(c, i, m) * c) % m
    BY <1>1, <1>3, PowerSteps
  <2> QED
    BY <2>1, <2>2, <2>3 DEF p
<1> HIDE DEF S
<1>4. \A i \in Nat : i \in S
  BY <1>2, <1>3, Counting
<1> QED
  BY <1>4 DEF S, c

(* Factors in any order.                                                   *)
LEMMA Reordered ==
  ASSUME NEW x \in Int, NEW y \in Int, NEW z \in Int
  PROVE  /\ x * y \in Int /\ y * x = x * y
         /\ (x * y) * z = x * (y * z) /\ (x * y) * z = (x * z) * y
         /\ (x + y) * z = x * z + y * z /\ z * (x + y) = z * x + z * y
         /\ (x * y) * z = y * (x * z)
BY SMT

LEMMA PowerAdd ==
  ASSUME NEW b \in Int, NEW m \in Nat \ {0}, NEW i \in Nat, NEW j \in Nat
  PROVE  Power(b, i + j, m) = (Power(b, i, m) * Power(b, j, m)) % m
<1> DEFINE p == Power(b, i, m)
           S == {k \in Nat : Power(b, i + k, m) = (p * Power(b, k, m)) % m}
<1>1. p \in Int /\ p % m = p
  BY PowerRange
<1>2. 0 \in S
  <2>1. Power(b, 0, m) = 1 % m /\ i + 0 = i /\ 1 \in Int /\ 0 \in Nat
    BY PowerSteps
  <2> HIDE DEF p
  <2>2. (p * (1 % m)) % m = (1 * p) % m /\ 1 * p = p
    BY <1>1, <2>1, ModProduct
  <2> QED
    BY <1>1, <2>1, <2>2 DEF p
<1>3. ASSUME NEW k \in Nat, k \in S PROVE k + 1 \in S
  <2> DEFINE q == Power(b, k, m)
  <2>1. q \in Int
    BY PowerRange
  <2>2. Power(b, i + k, m) = (p * q) % m
    BY <1>3
  <2>3. i + (k + 1) = (i + k) + 1 /\ i + k \in Nat /\ k + 1 \in Nat
    OBVIOUS
  <2>4. /\ Power(b, (i + k) + 1, m) = (Power(b, i + k, m) * b) % m
        /\ Power(b, k + 1, m) = (q * b) % m
    BY <2>3, PowerSteps
  <2> HIDE DEF p, q
  <2>5. p * q \in Int /\ q * b \in Int /\ (p * q) * b = p * (q * b)
        /\ (q * b) * p = p * (q * b)
    BY <1>1, <2>1, SMT
  <2>6. (((p * q) % m) * b) % m = ((p * q) * b) % m
    BY <2>5, ModProduct, Zenon
  <2>7. (p * ((q * b) % m)) % m = ((q * b) * p) % m
    BY <1>1, <2>5, ModProduct, Zenon
  <2>8. Power(b, i + (k + 1), m) = (p * Power(b, k + 1, m)) % m
    BY <2>2, <2>3, <2>4, <2>5, <2>6, <2>7, Zenon
  <2> QED
    BY <2>3, <2>8
<1> HIDE DEF S
<1>4. \A k \in Nat : k \in S
  BY <1>2, <1>3, Counting
<1> QED
  BY <1>4 DEF S

(* The power of a power.                                                   *)
LEMMA PowerTimes ==
  ASSUME NEW b \in Int, NEW m \in Nat \ {0}, NEW i \in Nat, NEW j \in Nat
  PROVE  Power(Power(b, i, m), j, m) = Power(b, i * j, m)
<1> DEFINE p == Power(b, i, m)
           S == {k \in Nat : Power(p, k, m) = Power(b, i * k, m)}
<1>1. p \in Int
  BY PowerRange
<1> HIDE DEF p
<1>2. 0 \in S
  <2>1. i * 0 = 0 /\ 0 \in Nat
    OBVIOUS
  <2>2. Power(p, 0, m) = 1 % m /\ Power(b, 0, m) = 1 % m
    BY <1>1, <2>1, PowerSteps
  <2> QED
    BY <2>1, <2>2
<1>3. ASSUME NEW k \in Nat, k \in S PROVE k + 1 \in S
  <2>1. i * (k + 1) = i * k + i /\ i * k \in Nat /\ k + 1 \in Nat
    BY SMT
  <2>2. Power(p, k + 1, m) = (Power(p, k, m) * p) % m
    BY <1>1, PowerSteps
  <2>3. Power(p, k, m) = Power(b, i * k, m)
    BY <1>3
  <2>4. Power(b, i * k + i, m) = (Power(b, i * k, m) * p) % m
    BY <2>1, PowerAdd, Zenon DEF p
  <2>5. Power(p, k + 1, m) = Power(b, i * (k + 1), m)
    BY <2>1, <2>2, <2>3, <2>4, Zenon
  <2> QED
    BY <2>1, <2>5
<1> HIDE DEF S
<1>4. \A k \in Nat : k \in S
  BY <1>2, <1>3, Counting
<1> QED
  BY <1>4 DEF S, p

(* That of a square.                                                       *)
LEMMA PowerSquare ==
  ASSUME NEW b \in Int, NEW m \in Nat \ {0}, NEW n \in Nat
  PROVE  Power(b * b, n, m) = Power(b, 2 * n, m)
<1>1. Power(b, 2, m) = (b * b) % m
  <2>1. 0 + 1 = 1 /\ 1 + 1 = 2 /\ 0 \in Nat /\ 1 \in Nat /\ 1 \in Int /\ 1 * b = b
    OBVIOUS
  <2>2. Power(b, 0, m) = 1 % m
    BY <2>1, PowerSteps
  <2>3. Power(b, 1, m) = ((1 % m) * b) % m
    <3>1. Power(b, 0 + 1, m) = (Power(b, 0, m) * b) % m
      BY <2>1, PowerSteps, Zenon
    <3> QED
      BY <2>1, <2>2, <3>1, Zenon
  <2>4. ((1 % m) * b) % m = (1 * b) % m
    BY <2>1, ModProduct, Zenon
  <2>5. Power(b, 1 + 1, m) = (Power(b, 1, m) * b) % m
    BY <2>1, PowerSteps, Zenon
  <2>6. ((b % m) * b) % m = (b * b) % m
    BY ModProduct, Zenon
  <2>7. Power(b, 1, m) = b % m
    BY <2>1, <2>3, <2>4, Zenon
  <2>8. Power(b, 1 + 1, m) = (b * b) % m
    BY <2>5, <2>6, <2>7, Zenon
  <2> QED
    BY <2>1, <2>8, Zenon
<1>2. b * b \in Int /\ 2 \in Nat
  BY SMT
<1>3. Power((b * b) % m, n, m) = Power(b * b, n, m)
  BY <1>2, PowerBase, Zenon
<1>4. Power(Power(b, 2, m), n, m) = Power(b, 2 * n, m)
  BY <1>2, PowerTimes, Zenon
<1> QED
  BY <1>1, <1>3, <1>4, Zenon

(* Of 1.                                                                   *)
LEMMA PowerOfOne ==
  ASSUME NEW m \in Nat \ {0}, NEW n \in Nat
  PROVE  Power(1, n, m) = 1 % m
<1> DEFINE S == {k \in Nat : Power(1, k, m) = 1 % m}
<1>1. 0 \in S
  <2>1. 0 \in Nat /\ 1 \in Int
    OBVIOUS
  <2> QED
    BY <2>1, PowerSteps
<1>2. ASSUME NEW k \in Nat, k \in S PROVE k + 1 \in S
  <2>1. 1 \in Int /\ 1 * 1 = 1 /\ k + 1 \in Nat
    OBVIOUS
  <2>2. Power(1, k + 1, m) = (Power(1, k, m) * 1) % m /\ Power(1, k, m) = 1 % m
    BY <1>2, <2>1, PowerSteps
  <2>3. ((1 % m) * 1) % m = (1 * 1) % m
    BY <2>1, ModProduct, Zenon
  <2>4. Power(1, k + 1, m) = 1 % m
    BY <2>1, <2>2, <2>3, Zenon
  <2> QED
    BY <2>1, <2>4
<1> HIDE DEF S
<1>3. \A k \in Nat : k \in S
  BY <1>1, <1>2, Counting
<1> QED
  BY <1>3 DEF S

-----------------------------------------------------------------------------
(* The bits of a number.                                                   *)

LEMMA BaseIsTwos ==
  ASSUME NEW i \in 0 .. Size + 1
  PROVE  i * BitsPerDigit \in 0 .. MaxBits /\ Base ^ i = 2 ^ (i * BitsPerDigit)
<1> DEFINE b == BitsPerDigit
           S == {k \in Nat : k <= Size + 1 => Base ^ k = 2 ^ (k * b)}
<1>1. b \in Nat /\ Base = 2 ^ b /\ Size \in Nat /\ MaxBits = (Size + 1) * b
  BY DsaAssumption, DivisionAssumption DEF MaxBits
<1> HIDE DEF b
<1>2. \A k \in 0 .. Size + 1 : k * b \in 0 .. MaxBits
  <2> TAKE k \in 0 .. Size + 1
  <2>1. k \in Nat /\ Size + 1 \in Nat /\ k <= Size + 1
    BY <1>1
  <2>2. k * b <= (Size + 1) * b /\ k * b \in Nat /\ (Size + 1) * b \in Nat
    BY <1>1, <2>1, Times
  <2> QED
    BY <1>1, <2>2
<1>3. 0 \in S
  <2>1. 0 * b = 0
    BY <1>1
  <2> QED
    BY Zenon, <2>1, PowerAssumption, TwoAssumption
<1>4. ASSUME NEW k \in Nat, k \in S PROVE k + 1 \in S
  <2> SUFFICES ASSUME k + 1 <= Size + 1 PROVE Base ^ (k + 1) = 2 ^ ((k + 1) * b)
    OBVIOUS
  <2>1. k \in 0 .. Size + 1 /\ 1 \in 0 .. Size + 1 /\ k + 1 \in 0 .. Size + 1 /\ k <= Size + 1
    BY <1>1
  <2>2. Base ^ (k + 1) = Base ^ k * Base ^ 1 /\ Base ^ 1 = Base
    BY <2>1, PowerAssumption
  <2>3. Base ^ k = 2 ^ (k * b)
    BY <1>4, <2>1
  <2>4. k * b \in 0 .. MaxBits /\ (k + 1) * b \in 0 .. MaxBits /\ (k + 1) * b = k * b + b
        /\ 1 * b \in 0 .. MaxBits /\ 1 * b = b
    <3>1. (k + 1) * b = k * b + b /\ 1 * b = b
      BY <1>1, <2>1, SMT
    <3> QED
      BY <1>2, <2>1, <3>1
  <2>5. 2 ^ (k * b + b) = 2 ^ (k * b) * 2 ^ b
    <3> DEFINE c == k * b
    <3> HIDE DEF c
    <3>1. c \in 0 .. MaxBits /\ b \in 0 .. MaxBits /\ c + b <= MaxBits
      BY <2>4 DEF c
    <3>2. 2 ^ (c + b) = 2 ^ c * 2 ^ b
      BY <3>1, TwoAssumption
    <3> QED
      BY <3>2 DEF c
  <2> QED
    BY <1>1, <2>2, <2>3, <2>4, <2>5, Zenon
<1> HIDE DEF S
<1>5. \A k \in Nat : k \in S
  BY <1>3, <1>4, Counting
<1>6. i \in Nat /\ i <= Size + 1
  BY <1>1
<1>7. Base ^ i = 2 ^ (i * b)
  BY <1>5, <1>6 DEF S
<1> QED
  BY <1>2, <1>7 DEF b

(* bits is enough for every bit of x.                                      *)
LEMMA BitsCover ==
  ASSUME NEW x \in Nat, Fits(x)
  PROVE  Bits(x) \in 0 .. MaxBits /\ x < 2 ^ Bits(x)
<1>1. Size \in Nat
  BY DivisionAssumption
<1>2. PICK e \in 0 .. Size + 1 : e = Hexp(x) + 1 /\ x < Base ^ e
  <2>1. CASE x = 0
    <3>1. Hexp(x) + 1 = 0 /\ 0 \in 0 .. Size + 1 /\ x < Base ^ 0
      BY <1>1, <2>1, PowerAssumption DEF Hexp
    <3> QED
      BY <3>1
  <2>2. CASE x # 0
    <3>1. Abs(x) < Base ^ (Size + 1) /\ Abs(x) = x
      BY Room DEF Abs
    <3>2. Hexp(x) \in 0 .. Size /\ x < Base ^ (Hexp(x) + 1)
      BY <2>2, <3>1, HexpOf
    <3>3. Hexp(x) + 1 \in 0 .. Size + 1
      BY <1>1, <3>2
    <3> QED
      BY <3>2, <3>3
  <2> QED
    BY <2>1, <2>2
<1>3. Bits(x) = e * BitsPerDigit
  BY <1>2 DEF Bits
<1> QED
  BY <1>2, <1>3, BaseIsTwos

LEMMA BitLess ==
  ASSUME NEW bits \in 0 .. MaxBits, NEW e \in Nat, e < 2 ^ bits
  PROVE  /\ bits = 0 => e = 0
         /\ bits > 0 => /\ bits - 1 \in 0 .. MaxBits /\ e \div 2 \in Nat
                        /\ e \div 2 < 2 ^ (bits - 1)
<1>0. MaxBits \in Int
  BY DsaAssumption, DivisionAssumption, SMT DEF MaxBits
<1>1. bits = 0 => e = 0
  BY TwoAssumption
<1>2. ASSUME bits > 0
      PROVE  /\ bits - 1 \in 0 .. MaxBits /\ e \div 2 \in Nat
             /\ e \div 2 < 2 ^ (bits - 1)
  <2>1. PICK c \in 0 .. MaxBits : c = bits - 1
    BY <1>0, <1>2
  <2>2. 1 \in 0 .. MaxBits /\ c + 1 <= MaxBits /\ c + 1 = bits
    BY <1>0, <1>2, <2>1
  <2>3. 2 ^ c \in Nat /\ 2 ^ bits = 2 ^ c * 2
    <3>1. 2 ^ c \in Nat \ {0} /\ 2 ^ (c + 1) = 2 ^ c * 2 ^ 1 /\ 2 ^ 1 = 2
      BY Zenon, <2>2, TwoAssumption
    <3> QED
      BY <2>2, <3>1
  <2> DEFINE t == 2 ^ c
  <2>4. t \in Nat /\ e < t * 2
    BY <2>3
  <2> HIDE DEF t
  <2>5. e \div 2 \in Nat /\ e \div 2 < t
    BY <2>4
  <2> QED
    BY <2>1, <2>5 DEF t
<1> QED
  BY <1>1, <1>2

-----------------------------------------------------------------------------
(* What the calls make.                                                    *)

(* What is to come of a call.                                              *)
Value(c) ==
  CASE c.op = "mul" -> (c.base * c.e) % c.mod
    [] c.op = "pow" -> Power(c.base, c.e, c.mod)
    [] c.op = "mod" -> c.base % c.mod

(* a, to which b is added or by which it is multiplied n times.            *)
Made(op, a, b, n, m) ==
  IF op = "mul" THEN (a + b * n) % m ELSE (a * Power(b, n, m)) % m

(* a and b added or multiplied.                                            *)
Joined(op, a, b) == IF op = "mul" THEN a + b ELSE a * b

(* What has a loop over the bits.                                          *)
Looping == {"mul", "pow"}

Under == {"bit", "acc", "base"}

(* The loops: what is made of what is left of e is what is to come.        *)
Computes ==
  /\ pc = "mod" => Call.op = "mod" /\ div.of = Call.base
  /\ pc = "operand" => /\ Call.op = "mul" /\ div.of = Call.e
                       /\ loop.acc = 0 /\ loop.base = Call.base
  /\ pc \in Under => /\ Call.op \in Looping /\ loop.e \in Nat
                     /\ loop.bits \in 0 .. MaxBits /\ loop.e < 2 ^ loop.bits
  /\ pc \in {"bit", "acc"} =>
       Made(Call.op, loop.acc, loop.base, loop.e, Call.mod) = Value(Call)
  /\ pc = "acc" => /\ loop.bits > 0 /\ Odd(loop.e)
                   /\ div.of = Joined(Call.op, loop.acc, loop.base)
  /\ pc = "base" => /\ div.of \in Nat
                    /\ Made(Call.op, loop.acc, div.of, loop.e, Call.mod) = Value(Call)

(* What dsa_sign has computed before its call c.                           *)
Signs(c) ==
  /\ (reg.k_inv * reg.k) % Q = 1
  /\ c = 2 => reg.r = Power(G, reg.k, P)
  /\ c >= 3 => reg.r = Power(G, reg.k, P) % Q
  /\ c = 4 => reg.s = (priv * reg.r) % Q
  /\ c = 5 => reg.s = (((priv * reg.r) % Q) + H) % Q
  /\ c = 6 => reg.s = (((((priv * reg.r) % Q) + H) % Q) * reg.k_inv) % Q

(* And dsa_check.                                                          *)
Checks(c) ==
  /\ (reg.w * reg.s) % Q = 1
  /\ c >= 2 => reg.u1 = (reg.w * H) % Q
  /\ c >= 3 => reg.u2 = (reg.w * reg.r) % Q
  /\ c >= 4 => reg.t0 = Power(G, reg.u1, P)
  /\ c >= 5 => reg.t1 = Power(pub, reg.u2, P)
  /\ c = 6 => reg.v = (reg.t0 * reg.t1) % P
  /\ c = 7 => reg.v = ((reg.t0 * reg.t1) % P) % Q

Failed == gcd.u = 0 /\ gcd.v # 1 /\ res = -1

Figures ==
  /\ phase = "sign" /\ pc \in InCall \cup {"call"} => Signs(call)
  /\ phase = "signed" => Signs(6)
  /\ phase # "sign" /\ pc \in InCall \cup {"call"} => Checks(call)
  /\ pc = "done" => Failed \/ (Checks(7) /\ res = Cmp(reg.r, reg.v))

(* What divides u and v divides x and Q.                                   *)
Common ==
  \A d \in Nat \ {0} : gcd.u % d = 0 /\ gcd.v % d = 0 => X % d = 0 /\ Q % d = 0

(* What holds of an inverse below 0 as well.                               *)
Fresh ==
  /\ pub = PubOf(priv) /\ reg.r \in Nat
  /\ phase = "sign" => reg.w = 0 /\ pc # "done"
  /\ pc = "random" => reg.k_inv = 0 /\ call = 1
  /\ pc = "gcd" => /\ IF phase = "sign" THEN reg.k_inv = 0 ELSE reg.w = 0
                   /\ call = 1
  /\ pc # "random" => Common
  /\ pc \in InCall \cup {"call"} => call <= Len(Calls) + 1
  /\ pc # "done" => res = -1

Positive == reg.k_inv >= 0 /\ reg.w >= 0

Right == Fresh /\ (Positive => Figures /\ Computes)

JInv == IInv /\ (~slipped => Right)

(* A bit of e is the parity of what is left.                               *)
LEMMA MadeHalf ==
  ASSUME NEW op \in Looping, NEW a \in Int, NEW b \in Int, NEW n \in Nat,
         NEW m \in Nat \ {0}
  PROVE  /\ Joined(op, b, b) \in Int /\ Joined(op, a, b) \in Int /\ n \div 2 \in Nat
         /\ ~Odd(n) => Made(op, a, b, n, m)
                       = Made(op, a, Joined(op, b, b), n \div 2, m)
         /\ Odd(n) => Made(op, a, b, n, m)
                      = Made(op, Joined(op, a, b), Joined(op, b, b), n \div 2, m)
<1> DEFINE h == n \div 2
           c == Joined(op, b, b)
<1>1. /\ h \in Nat /\ (Odd(n) => n = 2 * h + 1) /\ (~Odd(n) => n = 2 * h)
  BY DEF Odd
<1> HIDE DEF h
<1>2. CASE op = "mul"
  <2>1. c = b + b /\ Joined(op, a, b) = a + b
    BY <1>2 DEF Joined
  <2>2. \A x, y, k : Made(op, x, y, k, m) = (x + y * k) % m
    BY <1>2 DEF Made
  <2>3. /\ a + b * (2 * h) = a + (b + b) * h
        /\ a + b * (2 * h + 1) = (a + b) + (b + b) * h
    BY <1>1, SMT
  <2>4. c \in Int /\ Joined(op, a, b) \in Int
    BY <2>1
  <2> HIDE DEF c
  <2>5. ~Odd(n) => Made(op, a, b, n, m) = Made(op, a, c, h, m)
    BY <1>1, <2>1, <2>2, <2>3, ZenonT(60)
  <2>6. Odd(n) => Made(op, a, b, n, m) = Made(op, Joined(op, a, b), c, h, m)
    <3>1. Made(op, a, b, 2 * h + 1, m) = (a + b * (2 * h + 1)) % m
      BY <2>2, Zenon
    <3>2. Made(op, Joined(op, a, b), c, h, m) = ((a + b) + (b + b) * h) % m
      BY <2>1, <2>2, Zenon
    <3> QED
      BY <1>1, <2>3, <3>1, <3>2, Zenon
  <2> QED
    BY <1>1, <2>4, <2>5, <2>6 DEF c, h
<1>3. CASE op = "pow"
  <2>1. c = b * b /\ Joined(op, a, b) = a * b
    BY <1>3 DEF Joined
  <2>2. \A x, y, k : Made(op, x, y, k, m) = (x * Power(y, k, m)) % m
    BY <1>3 DEF Made
  <2>3. c \in Int /\ Joined(op, a, b) \in Int
    BY <2>1, SMT
  <2> DEFINE p == Power(b, 2 * h, m)
  <2>4. p \in Int /\ Power(b * b, h, m) = p /\ 2 * h \in Nat
    <3>1. 2 * h \in Nat
      BY <1>1
    <3>2. Power(b * b, h, m) = p
      BY <1>1, PowerSquare, Zenon
    <3>3. p \in Nat
      BY <3>1, PowerRange, Zenon
    <3> HIDE DEF p
    <3>4. p \in Int
      BY <3>3
    <3> QED
      BY <3>1, <3>2, <3>4
  <2>5. Power(b, 2 * h + 1, m) = (p * b) % m
    BY <2>4, PowerSteps, Zenon
  <2> HIDE DEF c, p
  <2>6. ~Odd(n) => Made(op, a, b, n, m) = Made(op, a, c, h, m)
    <3>1. Made(op, a, b, 2 * h, m) = (a * p) % m
      BY <2>2, Zenon DEF p
    <3>2. Made(op, a, c, h, m) = (a * p) % m
      BY <2>1, <2>2, <2>4, Zenon
    <3> QED
      BY <1>1, <3>1, <3>2, Zenon
  <2>7. Odd(n) => Made(op, a, b, n, m) = Made(op, Joined(op, a, b), c, h, m)
    <3>1. Made(op, a, b, 2 * h + 1, m) = (a * ((p * b) % m)) % m
      BY <2>2, <2>5, Zenon
    <3>2. p * b \in Int /\ (p * b) * a = (a * b) * p
      BY <2>4, SMT
    <3>3. (a * ((p * b) % m)) % m = ((p * b) * a) % m
      BY <3>2, ModProduct, Zenon
    <3>4. Made(op, Joined(op, a, b), c, h, m) = ((a * b) * p) % m
      BY <2>1, <2>2, <2>4, Zenon
    <3> QED
      BY <1>1, <3>1, <3>2, <3>3, <3>4, Zenon
  <2> QED
    BY <1>1, <2>3, <2>6, <2>7 DEF c, h
<1> QED
  BY <1>2, <1>3 DEF Looping

(* Remainders make no difference, and nothing is added in the end.         *)
LEMMA MadeMod ==
  ASSUME NEW op \in Looping, NEW a \in Int, NEW b \in Int, NEW n \in Nat,
         NEW m \in Nat \ {0}
  PROVE  /\ Made(op, a % m, b, n, m) = Made(op, a, b, n, m)
         /\ Made(op, a, b % m, n, m) = Made(op, a, b, n, m)
         /\ Made(op, a, b, 0, m) = a % m
<1>1. a % m \in Int /\ b % m \in Int
  BY ModRange, Zenon
<1>2. CASE op = "mul"
  <2>1. \A x, y, k : Made(op, x, y, k, m) = (x + y * k) % m
    BY <1>2 DEF Made
  <2>2. b * n \in Int /\ b * 0 = 0 /\ a + 0 = a
    BY SMT
  <2>3. ((a % m) + b * n) % m = (a + b * n) % m
    BY <2>2, ModSum, Zenon
  <2>4. (a + (b % m) * n) % m = (a + b * n) % m
    <3> DEFINE r == (b % m) * n
    <3>1. r \in Int /\ n \in Int
      <4> DEFINE s == b % m
      <4>1. s \in Int
        BY <1>1
      <4> HIDE DEF s
      <4>2. s * n \in Int
        BY <4>1, SMT
      <4> QED
        BY <4>2 DEF s
    <3>2. r % m = (b * n) % m
      BY <3>1, ModProduct, Zenon
    <3> HIDE DEF r
    <3>0. r \in Int
      BY <3>1 DEF r
    <3>3. (a + (r % m)) % m = (r + a) % m
      BY <3>0, ModSum, Zenon
    <3>4. (a + ((b * n) % m)) % m = (b * n + a) % m
      BY <2>2, ModSum, Zenon
    <3>5. b * n + a = a + b * n /\ r + a = a + r
      BY <2>2, <3>0
    <3>6. (a + r) % m = (a + b * n) % m
      BY <3>2, <3>3, <3>4, <3>5, Zenon
    <3> QED
      BY <3>6 DEF r
  <2>5. /\ Made(op, a % m, b, n, m) = ((a % m) + b * n) % m
        /\ Made(op, a, b % m, n, m) = (a + (b % m) * n) % m
        /\ Made(op, a, b, n, m) = (a + b * n) % m
        /\ Made(op, a, b, 0, m) = (a + b * 0) % m
    BY <2>1, Zenon
  <2> QED
    BY <2>2, <2>3, <2>4, <2>5, Zenon
<1>3. CASE op = "pow"
  <2>1. \A x, y, k : Made(op, x, y, k, m) = (x * Power(y, k, m)) % m
    BY <1>3 DEF Made
  <2> DEFINE p == Power(b, n, m)
  <2>2. p \in Int /\ Power(b % m, n, m) = p
    <3>1. p \in Nat /\ Power(b % m, n, m) = p
      BY PowerRange, PowerBase, Zenon
    <3> HIDE DEF p
    <3> QED
      BY <3>1
  <2>3. Power(b, 0, m) = 1 % m
    <3>1. 0 \in Nat
      OBVIOUS
    <3> QED
      BY <3>1, PowerSteps, Zenon
  <2> HIDE DEF p
  <2>4. ((a % m) * p) % m = (a * p) % m
    BY <2>2, ModProduct, Zenon
  <2>5. (a * (1 % m)) % m = a % m
    <3>1. 1 \in Int /\ 1 * a = a
      OBVIOUS
    <3>2. (a * (1 % m)) % m = (1 * a) % m
      BY <3>1, ModProduct, Zenon
    <3> QED
      BY <3>1, <3>2, Zenon
  <2>6. Made(op, a % m, b, n, m) = Made(op, a, b, n, m)
    BY <2>1, <2>4, Zenon DEF p
  <2>7. Made(op, a, b % m, n, m) = Made(op, a, b, n, m)
    BY <2>1, <2>2, Zenon DEF p
  <2>8. Made(op, a, b, 0, m) = a % m
    BY <2>1, <2>3, <2>5, Zenon
  <2> QED
    BY <2>6, <2>7, <2>8
<1> QED
  BY <1>2, <1>3 DEF Looping

LEMMA MadeAll ==
  ASSUME NEW op \in Looping, NEW a \in Int, NEW b \in Int, NEW m \in Nat \ {0}
  PROVE  Made(op, a, b, 0, m) = a % m
<1>1. \A n \in Nat : Made(op, a, b, 0, m) = a % m
  BY MadeMod, ZenonT(60)
<1>2. 0 \in Nat
  OBVIOUS
<1> QED
  BY <1>1, <1>2, Zenon

(* The remainder of what is not below 0.                                   *)
LEMMA Remains ==
  ASSUME Shape, ~Dividing, div.of \in Nat
  PROVE  Result = div.of % div.by
<1>1. /\ div.by \in Nat \ {0} /\ div.m \in 0 .. div.by - 1
      /\ \E t \in Nat : Abs(div.of) = t * div.by + div.m
  BY DEF Shape
<1>2. PICK t \in Nat : div.of = t * div.by + div.m
  BY <1>1 DEF Abs
<1>3. div.of \in Int /\ t \in Int
  OBVIOUS
<1>4. div.of % div.by = div.m
  BY Zenon, <1>1, <1>2, <1>3, Unique
<1> QED
  BY <1>4 DEF Result

(* Sums and products of numbers below P are stored as they are.            *)
LEMMA Stores ==
  ASSUME loop.acc \in 0 .. P - 1, loop.base \in 0 .. P - 1, Call.op \in Looping
  PROVE  /\ Combined = Joined(Call.op, loop.acc, loop.base)
         /\ Grown = Joined(Call.op, loop.base, loop.base)
         /\ Combined \in Nat /\ Grown \in Nat
<1>1. \A x, y \in 0 .. P - 1 : /\ Wrap(x + y) = x + y /\ x + y \in Nat
                               /\ Wrap(x * y) = x * y /\ x * y \in Nat
  <2> TAKE x, y \in 0 .. P - 1
  <2>1. x + y \in Nat /\ x * y \in Nat /\ Fits(x + y) /\ Fits(x * y)
    BY Keys, Zenon
  <2>2. \A z \in Int : Fits(z) => Wrap(z) = z
    BY Room, WrapOf
  <2> QED
    BY <2>1, <2>2
<1>2. loop.base \in Int /\ 2 * loop.base = loop.base + loop.base
  BY Keys
<1>3. CASE IsMul
  <2>1. Combined = loop.acc + loop.base /\ Grown = loop.base + loop.base
        /\ Combined \in Nat /\ Grown \in Nat
    BY <1>1, <1>2, <1>3, Zenon DEF Combined, Grown, Doubled
  <2> QED
    BY <1>3, <2>1 DEF Joined, IsMul
<1>4. CASE ~IsMul
  <2>1. Combined = loop.acc * loop.base /\ Grown = loop.base * loop.base
        /\ Combined \in Nat /\ Grown \in Nat
    BY <1>1, <1>4, Zenon DEF Combined, Grown, Product, Squared
  <2> QED
    BY <1>4, <2>1, Zenon DEF Joined, IsMul
<1> QED
  BY <1>3, <1>4

(* The calls one by one.                                                   *)
LEMMA SignCall ==
  ASSUME Types, Registers, phase = "sign", call <= Len(Calls)
  PROVE  \/ call = 1 /\ Call = [op |-> "pow", base |-> G, e |-> reg.k, mod |-> P, to |-> "r"]
         \/ call = 2 /\ Call = [op |-> "mod", base |-> reg.r, e |-> 0, mod |-> Q, to |-> "r"]
         \/ call = 3 /\ Call = [op |-> "mul", base |-> priv, e |-> reg.r, mod |-> Q, to |-> "s"]
         \/ /\ call = 4 /\ reg.s + H \in Nat
            /\ Call = [op |-> "mod", base |-> reg.s + H, e |-> 0, mod |-> Q, to |-> "s"]
         \/ call = 5 /\ Call = [op |-> "mul", base |-> reg.s, e |-> reg.k_inv, mod |-> Q, to |-> "s"]
<1>1. Calls = SignCalls /\ Len(SignCalls) = 5
  BY DEF Calls, SignCalls
<1>2. call \in {1, 2, 3, 4, 5} /\ Call = SignCalls[call]
  BY <1>1 DEF Call, Types
<1>3. Sum = reg.s + H /\ reg.s + H \in Nat
  <2>1. H \in Nat /\ Fits(H + Q) /\ reg.s \in 0 .. Q - 1 /\ Q \in Nat
    BY Keys DEF Types, Registers
  <2>2. reg.s + H \in Nat /\ reg.s + H \in Int /\ H + Q \in Int
        /\ Abs(reg.s + H) <= Abs(H + Q)
    BY <2>1 DEF Abs
  <2>3. Wrap(reg.s + H) = reg.s + H
    BY Zenon, <2>1, <2>2, Smaller, Room, WrapOf
  <2> QED
    BY <2>2, <2>3 DEF Sum
<1> QED
  BY <1>2, <1>3 DEF SignCalls

LEMMA CheckCall ==
  ASSUME Types, phase # "sign", call <= Len(Calls)
  PROVE  \/ call = 1 /\ Call = [op |-> "mul", base |-> reg.w, e |-> H, mod |-> Q, to |-> "u1"]
         \/ call = 2 /\ Call = [op |-> "mul", base |-> reg.w, e |-> reg.r, mod |-> Q, to |-> "u2"]
         \/ call = 3 /\ Call = [op |-> "pow", base |-> G, e |-> reg.u1, mod |-> P, to |-> "t0"]
         \/ call = 4 /\ Call = [op |-> "pow", base |-> pub, e |-> reg.u2, mod |-> P, to |-> "t1"]
         \/ call = 5 /\ Call = [op |-> "mul", base |-> reg.t0, e |-> reg.t1, mod |-> P, to |-> "v"]
         \/ call = 6 /\ Call = [op |-> "mod", base |-> reg.v, e |-> 0, mod |-> Q, to |-> "v"]
<1>1. Calls = CheckCalls /\ Len(CheckCalls) = 6
  BY DEF Calls, CheckCalls
<1>2. call \in {1, 2, 3, 4, 5, 6} /\ Call = CheckCalls[call]
  BY <1>1 DEF Call, Types
<1> QED
  BY <1>2 DEF CheckCalls

(* As long as no inverse is below 0, nothing is.                           *)
LEMMA CallNatural ==
  ASSUME Good, Fresh, Positive, call <= Len(Calls)
  PROVE  Call.base \in Nat /\ Call.e \in Nat
<1>1. /\ reg.r \in Nat /\ reg.s \in Nat /\ reg.k \in Nat /\ reg.w \in Nat
      /\ reg.k_inv \in Nat /\ reg.u1 \in Nat /\ reg.u2 \in Nat /\ reg.t0 \in Nat
      /\ reg.t1 \in Nat /\ reg.v \in Nat
  <2>1. reg \in [Regs -> Int] /\ P \in Nat /\ Q \in Nat
    BY Keys DEF Good, Registers
  <2>2. reg.w \in Int /\ reg.k_inv \in Int
    BY <2>1 DEF Regs
  <2> QED
    BY <2>1, <2>2, SMTT(60) DEF Good, Registers, Fresh, Positive
<1>2. G \in Nat /\ priv \in Nat /\ pub \in Nat /\ H \in Nat /\ 0 \in Nat
  BY Keys DEF Good, Types
<1>3. Types /\ Registers
  BY DEF Good
<1>4. CASE phase = "sign"
  <2>1. /\ Call.base \in {G, reg.r, priv, reg.s + H, reg.s}
        /\ Call.e \in {reg.k, 0, reg.r, reg.k_inv}
    BY <1>3, <1>4, SignCall
  <2>2. reg.s + H \in Nat
    <3>1. reg.s \in Nat /\ H \in Nat
      BY <1>1, <1>2, Zenon
    <3> QED
      BY <3>1
  <2> QED
    BY <1>1, <1>2, <2>1, <2>2, Zenon
<1>5. CASE phase # "sign"
  <2>1. /\ Call.base \in {reg.w, G, pub, reg.t0, reg.v}
        /\ Call.e \in {H, reg.r, reg.u1, reg.u2, reg.t1, 0}
    BY <1>3, <1>5, CheckCall
  <2> QED
    BY <1>1, <1>2, <2>1, Zenon
<1> QED
  BY <1>4, <1>5

-----------------------------------------------------------------------------
(* A step of a call leaves what was computed before it.                    *)
LEMMA Onward ==
  ASSUME Good, Right, UNCHANGED <<phase, args, gcd, reg, call, res>>,
         pc \in InCall \cup {"call"}, pc' \in InCall,
         Positive => Computes'
  PROVE  Right'
<1>1. /\ phase' = phase /\ priv' = priv /\ pub' = pub /\ H' = H /\ reg' = reg
      /\ gcd' = gcd /\ call' = call /\ res' = res
      /\ X' = X /\ Len(Calls)' = Len(Calls)
  BY CallStays DEF args
<1>2. pc' \notin {"random", "gcd", "done", "call"} /\ pc \notin {"random", "gcd", "done"}
  BY DEF InCall
<1>3. Common' <=> Common
  BY <1>1, Zenon DEF Common
<1>4. Fresh'
  BY <1>1, <1>2, <1>3 DEF Right, Fresh
<1>5. Positive' <=> Positive
  BY <1>1 DEF Positive
<1>6. /\ Signs(call)' <=> Signs(call)
      /\ Signs(6)' <=> Signs(6)
      /\ Checks(call)' <=> Checks(call)
  BY <1>1, Zenon DEF Signs, Checks
<1>7. Positive => Figures'
  <2> SUFFICES ASSUME Positive PROVE Figures'
    OBVIOUS
  <2>1. Figures
    BY DEF Right
  <2> QED
    BY <1>1, <1>2, <1>6, <2>1 DEF Figures
<1> QED
  BY <1>4, <1>5, <1>7 DEF Right

LEMMA BeginRight ==
  ASSUME Good, Right, Begin
  PROVE  Right'
<1>1. /\ pc = "call" /\ call <= Len(Calls)
      /\ UNCHANGED <<phase, args, gcd, reg, call, res>>
  BY DEF Begin
<1>2. /\ Legal(Call) /\ Call.mod \in Nat \ {0} /\ Fits(Call.mod) /\ Call' = Call
  BY <1>1, Modulo, CallStays
<1>3. pc' \in InCall
  BY Zenon, <1>2 DEF Begin, Legal, InCall
<1>4. ASSUME Positive PROVE Computes'
  <2>1. Call.base \in Nat /\ Call.e \in Nat
    BY <1>1, <1>4, CallNatural DEF Right
  <2>2. Fits(Call.base) /\ Fits(Call.e) /\ Call.base \in Int /\ Call.e \in Int
    BY <1>2 DEF Legal
  <2>3. CASE Call.op = "mul"
    <3>1. /\ Divide(Call.e, Call.mod) /\ pc' = "operand"
          /\ loop' = [acc |-> 0, base |-> Call.base, e |-> Call.e, bits |-> 0]
      BY <2>3 DEF Begin
    <3>2. div'.of = Call.e
      BY <1>2, <2>2, <3>1, DivideShape
    <3> QED
      BY <1>2, <2>3, <3>1, <3>2 DEF Computes, Under, Looping
  <2>4. CASE Call.op = "pow"
    <3>1. /\ pc' = "bit"
          /\ loop' = [acc |-> 1, base |-> Call.base, e |-> Call.e, bits |-> Bits(Call.e)]
      BY <2>4 DEF Begin
    <3>2. Bits(Call.e) \in 0 .. MaxBits /\ Call.e < 2 ^ Bits(Call.e)
      BY <2>1, <2>2, BitsCover
    <3> DEFINE p == Power(Call.base, Call.e, Call.mod)
    <3>3. p % Call.mod = p /\ p \in Nat
      BY Zenon, <1>2, <2>1, <2>2, PowerRange
    <3> HIDE DEF p
    <3>4. 1 * p = p
      BY <3>3
    <3>5. Made("pow", 1, Call.base, Call.e, Call.mod) = (1 * p) % Call.mod
      BY Zenon DEF Made, p
    <3>6. Value(Call) = p
      BY <2>4 DEF Value, p
    <3>7. Made(Call.op, 1, Call.base, Call.e, Call.mod) = Value(Call)
      BY <2>4, <3>3, <3>4, <3>5, <3>6, Zenon
    <3>8. /\ loop'.acc = 1 /\ loop'.base = Call.base /\ loop'.e = Call.e
          /\ loop'.bits = Bits(Call.e)
      BY <3>1
    <3> QED
      BY <1>2, <2>1, <2>4, <3>1, <3>2, <3>7, <3>8 DEF Computes, Under, Looping
  <2>5. CASE Call.op = "mod"
    <3>1. /\ Divide(Call.base, Call.mod) /\ pc' = "mod"
      BY <2>5 DEF Begin
    <3>2. div'.of = Call.base
      BY <1>2, <2>2, <3>1, DivideShape
    <3> QED
      BY <1>2, <2>5, <3>1, <3>2 DEF Computes, Under, Looping
  <2> QED
    BY <1>2, <2>3, <2>4, <2>5 DEF Legal
<1> QED
  BY <1>1, <1>3, <1>4, Onward

LEMMA OperandReducedRight ==
  ASSUME Good, Right, OperandReduced
  PROVE  Right'
<1>1. /\ pc = "operand" /\ ~Dividing /\ pc' = "base"
      /\ loop' = [loop EXCEPT !.e = Result, !.bits = Bits(Result)]
      /\ Divide(loop.base, Call.mod)
      /\ UNCHANGED <<phase, args, gcd, reg, call, res>>
  BY DEF OperandReduced
<1>2. /\ call <= Len(Calls) /\ Fits(loop.base) /\ div.by = Call.mod
      /\ loop \in [acc : Int, base : Int, e : Int, bits : Int] /\ Shape
  BY <1>1 DEF Good, Types, Loops, InCall, Divides
<1>3. /\ Call.mod \in Nat \ {0} /\ Fits(Call.mod) /\ Call' = Call
  BY <1>1, <1>2, Modulo, CallStays
<1>4. ASSUME Positive PROVE Computes'
  <2>1. Call.base \in Nat /\ Call.e \in Nat
    BY <1>2, <1>4, CallNatural DEF Right
  <2>2. Call.op = "mul" /\ div.of = Call.e /\ loop.acc = 0 /\ loop.base = Call.base
    BY <1>1, <1>4 DEF Right, Computes
  <2>3. Result = Call.e % Call.mod
    BY <1>1, <1>2, <2>1, <2>2, Remains
  <2>4. Result \in Nat /\ Fits(Result)
    BY <1>1, <1>2, ResultOf
  <2>5. Bits(Result) \in 0 .. MaxBits /\ Result < 2 ^ Bits(Result)
    BY <2>4, BitsCover
  <2>6. div'.of = Call.base
    BY <1>1, <1>2, <1>3, <2>1, <2>2, DivideShape
  <2>7. /\ loop'.acc = 0 /\ loop'.e = Result /\ loop'.bits = Bits(Result)
    BY <1>1, <1>2, <2>2
  <2>8. Made("mul", 0, Call.base, Result, Call.mod) = Value(Call)
    <3> DEFINE b == Call.base
               e == Call.e
               m == Call.mod
    <3>1. b \in Int /\ e \in Int /\ m \in Nat \ {0}
      BY <1>3, <2>1
    <3>2. Value(Call) = (b * e) % m
      BY <2>2 DEF Value
    <3>3. Made("mul", 0, b, Result, m) = (0 + b * (e % m)) % m
      BY <2>3, Zenon DEF Made
    <3> HIDE DEF b, e, m
    <3>4. (b * (e % m)) % m = (e * b) % m /\ e * b = b * e
      BY <3>1, ModProduct, Zenon
    <3>5. 0 + b * (e % m) = b * (e % m)
      <4> DEFINE r == e % m
      <4>1. r \in Int
        BY <3>1, ModRange, Zenon
      <4> HIDE DEF r
      <4>2. b * r \in Int
        BY <3>1, <4>1, SMT
      <4>3. 0 + b * r = b * r
        BY <4>2
      <4> QED
        BY <4>3 DEF r
    <3>6. Made("mul", 0, b, Result, m) = (b * e) % m
      BY <3>3, <3>4, <3>5, Zenon
    <3> QED
      BY <3>2, <3>6, Zenon DEF b, m
  <2> QED
    BY <1>1, <1>3, <2>1, <2>2, <2>4, <2>5, <2>6, <2>7, <2>8 DEF Computes, Under, Looping
<1> QED
  BY <1>1, <1>4, Onward DEF InCall

LEMMA SetBitRight ==
  ASSUME Good, Right, SetBit
  PROVE  Right'
<1>1. /\ pc = "bit" /\ pc' = "acc" /\ Divide(Combined, Call.mod)
      /\ loop.bits > 0 /\ Odd(loop.e)
      /\ UNCHANGED <<phase, args, gcd, reg, call, loop, res>>
  BY DEF SetBit
<1>2. /\ call <= Len(Calls) /\ loop.acc \in 0 .. Call.mod - 1
      /\ loop.base \in 0 .. Call.mod - 1
  BY <1>1 DEF Good, Types, Loops, InCall
<1>3. /\ Call.mod \in Nat \ {0} /\ Fits(Call.mod) /\ Call' = Call
      /\ loop.acc \in 0 .. P - 1 /\ loop.base \in 0 .. P - 1 /\ loop' = loop
  BY <1>1, <1>2, Modulo, CallStays
<1>4. ASSUME Positive PROVE Computes'
  <2>1. Computes
    BY <1>4 DEF Right
  <2>2. Call.op \in Looping
    BY <1>1, <2>1 DEF Computes, Under, Looping
  <2>3. Combined = Joined(Call.op, loop.acc, loop.base)
    BY <1>3, <2>2, Stores
  <2>4. div'.of = Combined
    BY <1>1, <1>3, CombinedFits, DivideShape
  <2> QED
    BY <1>1, <1>3, <2>1, <2>3, <2>4 DEF Computes, Under, Looping
<1> QED
  BY <1>1, <1>4, Onward DEF InCall

(* The next bit: one less, a base that counts twice.                       *)
LEMMA GrowRight ==
  ASSUME Good, Right, pc \in {"bit", "acc"}, Grow, loop.bits > 0,
         UNCHANGED <<phase, args, gcd, reg, call, res>>,
         loop'.e = loop.e \div 2, loop'.bits = loop.bits - 1,
         Positive => loop'.acc = IF Odd(loop.e)
                                 THEN Joined(Call.op, loop.acc, loop.base) % Call.mod
                                 ELSE loop.acc
  PROVE  Right'
<1>1. pc' = "base" /\ Divide(Grown, Call.mod)
  BY DEF Grow
<1>2. /\ call <= Len(Calls) /\ loop.acc \in 0 .. Call.mod - 1
      /\ loop.base \in 0 .. Call.mod - 1
  BY Zenon DEF Good, Types, Loops, InCall
<1>3. /\ Call.mod \in Nat \ {0} /\ Fits(Call.mod) /\ Call' = Call
      /\ loop.acc \in 0 .. P - 1 /\ loop.base \in 0 .. P - 1
  BY <1>2, Modulo, CallStays
<1>4. ASSUME Positive PROVE Computes'
  <2>1. Computes
    BY <1>4 DEF Right
  <2>2. /\ Call.op \in Looping /\ loop.e \in Nat
        /\ loop.bits \in 0 .. MaxBits /\ loop.e < 2 ^ loop.bits
        /\ Made(Call.op, loop.acc, loop.base, loop.e, Call.mod) = Value(Call)
    BY <2>1 DEF Computes, Under, Looping
  <2>3. /\ loop.bits - 1 \in 0 .. MaxBits /\ loop.e \div 2 \in Nat
        /\ loop.e \div 2 < 2 ^ (loop.bits - 1)
    BY <2>2, BitLess
  <2>4. Grown = Joined(Call.op, loop.base, loop.base) /\ Grown \in Nat
    BY <1>3, <2>2, Stores
  <2>5. div'.of = Grown
    BY <1>1, <1>3, CombinedFits, DivideShape
  <2>6. Made(Call.op, loop'.acc, Grown, loop.e \div 2, Call.mod) = Value(Call)
    <3> DEFINE op == Call.op
               a == loop.acc
               b == loop.base
               n == loop.e
               m == Call.mod
               j == Joined(op, a, b)
    <3>1. /\ op \in Looping /\ a \in Int /\ b \in Int /\ n \in Nat
          /\ m \in Nat \ {0} /\ loop'.acc = (IF Odd(n) THEN j % m ELSE a)
          /\ Grown = Joined(op, b, b) /\ Made(op, a, b, n, m) = Value(Call)
      <4>1. a \in Int /\ b \in Int
        BY <1>2
      <4> HIDE DEF a, b, m, op, n
      <4>2. loop'.acc = (IF Odd(n) THEN j % m ELSE a)
        BY <1>4, Zenon DEF a, b, m, op, n
      <4> QED
        BY <1>3, <2>2, <2>4, <4>1, <4>2, Zenon DEF a, b, m, op, n
    <3> HIDE DEF op, a, b, n, m
    <3> DEFINE c == Joined(op, b, b)
               h == n \div 2
    <3>2. /\ c \in Int /\ j \in Int /\ h \in Nat
          /\ ~Odd(n) => Made(op, a, b, n, m) = Made(op, a, c, h, m)
          /\ Odd(n) => Made(op, a, b, n, m) = Made(op, j, c, h, m)
      <4>1. op \in Looping /\ a \in Int /\ b \in Int /\ n \in Nat /\ m \in Nat \ {0}
        BY <3>1
      <4> QED
        BY <4>1, MadeHalf
    <3>3. Grown = c
      BY <3>1
    <3> HIDE DEF j, c, h
    <3>4. Made(op, j % m, c, h, m) = Made(op, j, c, h, m)
      <4>1. op \in Looping /\ j \in Int /\ c \in Int /\ h \in Nat /\ m \in Nat \ {0}
        BY <3>1, <3>2
      <4> QED
        BY <4>1, MadeMod, ZenonT(60)
    <3>5. Made(op, loop'.acc, c, h, m) = Value(Call)
      <4>1. CASE Odd(n)
        <5>1. loop'.acc = j % m /\ Made(op, a, b, n, m) = Made(op, j, c, h, m)
          BY <3>1, <3>2, <4>1, Zenon
        <5> QED
          BY <3>1, <3>4, <5>1, Zenon
      <4>2. CASE ~Odd(n)
        <5>1. loop'.acc = a /\ Made(op, a, b, n, m) = Made(op, a, c, h, m)
          BY <3>1, <3>2, <4>2, Zenon
        <5> QED
          BY <3>1, <5>1, Zenon
      <4> QED
        BY <4>1, <4>2
    <3> QED
      BY <3>3, <3>5, Zenon DEF op, n, m, h
  <2> QED
    BY <1>1, <1>3, <2>2, <2>3, <2>4, <2>5, <2>6 DEF Computes, Under, Looping
<1> QED
  BY <1>1, <1>4, Onward DEF InCall

LEMMA BitsRight ==
  ASSUME Good, Right, Accumulated \/ ClearBit
  PROVE  Right'
<1>1. /\ Grow /\ UNCHANGED <<phase, args, gcd, reg, call, res>>
      /\ pc \in {"bit", "acc"} /\ pc \in Under
  BY DEF Accumulated, ClearBit, Under
<1>2. /\ loop \in [acc : Int, base : Int, e : Int, bits : Int]
      /\ call <= Len(Calls) /\ loop.acc \in 0 .. Call.mod - 1
      /\ loop.base \in 0 .. Call.mod - 1
  BY <1>1 DEF Good, Types, Loops, InCall
<1>3. loop'.e = loop.e \div 2 /\ loop'.bits = loop.bits - 1
  BY Zenon, <1>2 DEF Accumulated, ClearBit
<1>4. CASE ClearBit
  <2>1. loop.bits > 0 /\ ~Odd(loop.e) /\ loop'.acc = loop.acc
    BY <1>2, <1>4 DEF ClearBit
  <2> QED
    BY <1>1, <1>3, <2>1, GrowRight
<1>5. CASE Accumulated
  <2>1. pc = "acc" /\ ~Dividing /\ loop'.acc = Result
    BY <1>2, <1>5 DEF Accumulated
  <2>2. div.by = Call.mod /\ Shape
    BY <2>1 DEF Good, Loops, Divides
  <2>3. CASE Positive
    <3>1. /\ loop.bits > 0 /\ Odd(loop.e) /\ Call.op \in Looping
          /\ div.of = Joined(Call.op, loop.acc, loop.base)
      BY <2>1, <2>3 DEF Right, Computes, Under
    <3>2. loop.acc \in 0 .. P - 1 /\ loop.base \in 0 .. P - 1
      BY <1>2, Modulo
    <3>3. div.of \in Nat
      BY <3>1, <3>2, Stores
    <3>4. Result = Joined(Call.op, loop.acc, loop.base) % Call.mod
      BY <2>1, <2>2, <3>1, <3>3, Remains
    <3> QED
      BY <1>1, <1>3, <2>1, <3>1, <3>4, GrowRight
  <2>4. CASE ~Positive
    <3>1. ~Positive'
      BY <1>1, <2>4 DEF Positive
    <3> QED
      BY <1>1, <2>1, <2>4, Onward DEF Grow, InCall
  <2> QED
    BY <2>3, <2>4
<1> QED
  BY <1>1, <1>4, <1>5

LEMMA BaseReducedRight ==
  ASSUME Good, Right, BaseReduced
  PROVE  Right'
<1>1. /\ pc = "base" /\ ~Dividing /\ pc' = "bit" /\ div' = div
      /\ loop' = [loop EXCEPT !.base = Result]
      /\ UNCHANGED <<phase, args, gcd, reg, call, res>>
  BY DEF BaseReduced
<1>2. /\ call <= Len(Calls) /\ loop.acc \in 0 .. Call.mod - 1
      /\ loop \in [acc : Int, base : Int, e : Int, bits : Int]
      /\ Shape /\ div.by = Call.mod
  BY <1>1 DEF Good, Types, Loops, InCall, Divides
<1>3. Call.mod \in Nat \ {0} /\ Call' = Call
  BY <1>1, <1>2, Modulo, CallStays
<1>4. /\ loop'.acc = loop.acc /\ loop'.base = Result /\ loop'.e = loop.e
      /\ loop'.bits = loop.bits
  BY <1>1, <1>2
<1>5. ASSUME Positive PROVE Computes'
  <2>1. /\ Call.op \in Looping /\ loop.e \in Nat /\ loop.bits \in 0 .. MaxBits
        /\ loop.e < 2 ^ loop.bits /\ div.of \in Nat
        /\ Made(Call.op, loop.acc, div.of, loop.e, Call.mod) = Value(Call)
    BY <1>1, <1>5 DEF Right, Computes, Under
  <2>2. Result = div.of % Call.mod
    BY <1>1, <1>2, <2>1, Remains
  <2>3. Made(Call.op, loop.acc, Result, loop.e, Call.mod) = Value(Call)
    <3> DEFINE op == Call.op
               a == loop.acc
               b == div.of
               n == loop.e
               m == Call.mod
    <3>1. op \in Looping /\ a \in Int /\ b \in Int /\ n \in Nat /\ m \in Nat \ {0}
      BY <1>2, <1>3, <2>1
    <3> HIDE DEF op, a, b, n, m
    <3>2. Made(op, a, b % m, n, m) = Made(op, a, b, n, m)
      BY <3>1, MadeMod, ZenonT(60)
    <3> QED
      BY <2>1, <2>2, <3>2, Zenon DEF op, a, b, n, m
  <2> QED
    BY <1>1, <1>3, <1>4, <2>1, <2>3 DEF Computes, Under
<1> QED
  BY <1>1, <1>5, Onward DEF InCall

LEMMA DigitDoneRight ==
  ASSUME Good, Right, DigitDone, ~slipped'
  PROVE  Right'
<1>1. Digit /\ Dividing /\ UNCHANGED <<phase, args, pc, gcd, reg, call, loop, res>>
  BY DEF DigitDone, Digit
<1>2. div'.of = div.of
  BY <1>1, DigitShape DEF Good
<1>3. pc \in InCall /\ pc' = pc /\ loop' = loop /\ Call' = Call /\ IsMul' = IsMul
  BY <1>1, CallStays DEF Good, Loops, Divides, InCall
<1>4. ASSUME Positive PROVE Computes'
  <2>1. Computes
    BY <1>4 DEF Right
  <2> QED
    BY <1>2, <1>3, <2>1, Zenon DEF Computes
<1> QED
  BY <1>1, <1>3, <1>4, Onward

(* What a loop or a division returns is what the call is for.              *)
LEMMA LoopReturns ==
  ASSUME Good, Right, Positive, pc = "bit", loop.bits = 0
  PROVE  loop.acc = Value(Call)
<1>1. /\ loop.acc \in 0 .. Call.mod - 1 /\ loop.base \in 0 .. Call.mod - 1
      /\ call <= Len(Calls)
  BY DEF Good, Loops, InCall, Types
<1>2. Call.mod \in Nat \ {0}
  BY <1>1, Modulo
<1>3. /\ Call.op \in Looping /\ loop.e \in Nat /\ loop.e < 2 ^ loop.bits
      /\ loop.bits \in 0 .. MaxBits
      /\ Made(Call.op, loop.acc, loop.base, loop.e, Call.mod) = Value(Call)
  BY DEF Right, Computes, Under
<1>4. loop.e = 0
  BY <1>3, BitLess
<1> DEFINE op == Call.op
           a == loop.acc
           b == loop.base
           m == Call.mod
<1>5. op \in Looping /\ a \in Int /\ a \in 0 .. m - 1 /\ b \in Int /\ 0 \in Nat
      /\ m \in Nat \ {0}
  BY <1>1, <1>2, <1>3
<1>6. Made(op, a, b, 0, m) = Value(Call)
  BY <1>3, <1>4, Zenon
<1> HIDE DEF op, a, b, m
<1>7. Made(op, a, b, 0, m) = a % m
  BY <1>5, MadeAll, ZenonT(60)
<1>8. a % m = a
  BY <1>5, Mod
<1> QED
  BY <1>6, <1>7, <1>8, Zenon DEF a

LEMMA DivisionReturns ==
  ASSUME Good, Right, Positive, pc = "mod", ~Dividing
  PROVE  Result = Value(Call)
<1>1. Shape /\ div.by = Call.mod /\ call <= Len(Calls)
  BY DEF Good, Loops, Divides, InCall, Types
<1>2. Call.op = "mod" /\ div.of = Call.base
  BY DEF Right, Computes
<1>3. Call.base \in Nat
  BY <1>1, CallNatural DEF Right
<1>4. Result = Call.base % Call.mod
  BY <1>1, <1>2, <1>3, Remains
<1> QED
  BY <1>2, <1>4 DEF Value

(* What a call returns is stored where the next ones expect it.            *)
LEMMA ReturnsRight ==
  ASSUME Good, Right, NEW x \in 0 .. Call.mod - 1, Returns(x), pc \in InCall, res' = res,
         Positive => x = Value(Call)
  PROVE  Right'
<1>1. /\ reg' = [reg EXCEPT ![Call.to] = x] /\ call' = call + 1 /\ pc' = "call"
      /\ phase' = phase /\ priv' = priv /\ pub' = pub /\ H' = H /\ gcd' = gcd
  BY DEF Returns, args
<1>2. call <= Len(Calls) /\ Types /\ Registers /\ call \in Nat \ {0}
  BY DEF Good, Types
<1>3. Legal(Call) /\ x \in Nat /\ Call.mod \in Nat \ {0}
  BY <1>2, Modulo
<1>4. Call.to \in Regs \ {"k", "k_inv", "w"} /\ (Call.to = "s" => phase = "sign")
  BY <1>3 DEF Legal
<1>5. /\ reg'[Call.to] = x /\ \A y \in Regs : y # Call.to => reg'[y] = reg[y]
  BY <1>1, <1>2, <1>4 DEF Registers
<1>6. reg'.k = reg.k /\ reg'.k_inv = reg.k_inv /\ reg'.w = reg.w
      /\ (Call.to # "r" => reg'.r = reg.r) /\ (Call.to # "s" => reg'.s = reg.s)
  BY <1>4, <1>5 DEF Regs
<1>7. X' = X
  BY <1>1, <1>4, <1>6 DEF X
<1>8. reg'.r \in Nat
  BY <1>3, <1>5, <1>6 DEF Right, Fresh
<1>9. Len(Calls)' = Len(Calls)
  <2>1. Len(SignCalls) = 5 /\ Len(CheckCalls) = 6
        /\ Len(SignCalls)' = 5 /\ Len(CheckCalls)' = 6
    BY DEF SignCalls, CheckCalls
  <2> QED
    BY <1>1, <2>1 DEF Calls
<1>10. Fresh'
  <2>1. Common' <=> Common
    BY <1>1, <1>7, Zenon DEF Common
  <2>2. call' <= Len(Calls)' + 1
    BY <1>1, <1>2, <1>9
  <2>3. pc \notin {"random", "gcd", "done"} /\ Fresh
    BY DEF InCall, Right
  <2> QED
    BY <1>1, <1>6, <1>8, <2>1, <2>2, <2>3 DEF Fresh, InCall
<1>11. Computes' /\ (Positive' <=> Positive)
  BY <1>1, <1>6 DEF Computes, Under, Positive
<1>12. ASSUME Positive PROVE Figures'
  <2>1. x = Value(Call)
    BY <1>12
  <2>2. Figures
    BY <1>12 DEF Right
  <2>3. CASE phase = "sign"
    <3>1. Signs(call)
      BY <2>2, <2>3 DEF Figures
    <3>2. Signs(call)'
      <4>1. \/ call = 1 /\ Call = [op |-> "pow", base |-> G, e |-> reg.k, mod |-> P, to |-> "r"]
            \/ call = 2 /\ Call = [op |-> "mod", base |-> reg.r, e |-> 0, mod |-> Q, to |-> "r"]
            \/ call = 3 /\ Call = [op |-> "mul", base |-> priv, e |-> reg.r, mod |-> Q, to |-> "s"]
            \/ call = 4 /\ Call = [op |-> "mod", base |-> reg.s + H, e |-> 0, mod |-> Q, to |-> "s"]
            \/ call = 5 /\ Call = [op |-> "mul", base |-> reg.s, e |-> reg.k_inv, mod |-> Q, to |-> "s"]
        BY <1>2, <2>3, SignCall, Zenon
      <4>2. CASE call = 1
        <5>1. reg'.r = Power(G, reg.k, P) /\ call' = 2
          BY <1>1, <1>5, <2>1, <4>1, <4>2 DEF Value
        <5> QED
          BY <1>1, <1>6, <3>1, <5>1 DEF Signs
      <4>3. CASE call = 2
        <5>1. reg'.r = reg.r % Q /\ call' = 3
          BY <1>1, <1>5, <2>1, <4>1, <4>3 DEF Value
        <5>2. reg.r = Power(G, reg.k, P)
          BY <3>1, <4>3 DEF Signs
        <5> QED
          BY <1>1, <1>6, <3>1, <5>1, <5>2 DEF Signs
      <4>4. CASE call = 3
        <5>1. reg'.s = (priv * reg.r) % Q /\ call' = 4 /\ Call.to = "s"
          BY <1>1, <1>5, <2>1, <4>1, <4>4 DEF Value
        <5> QED
          BY <1>1, <1>6, <3>1, <4>4, <5>1 DEF Signs
      <4>5. CASE call = 4
        <5>1. reg'.s = (reg.s + H) % Q /\ call' = 5 /\ Call.to = "s"
          BY <1>1, <1>5, <2>1, <4>1, <4>5 DEF Value
        <5> QED
          BY <1>1, <1>6, <3>1, <4>5, <5>1 DEF Signs
      <4>6. CASE call = 5
        <5>1. reg'.s = (reg.s * reg.k_inv) % Q /\ call' = 6 /\ Call.to = "s"
          BY <1>1, <1>5, <2>1, <4>1, <4>6 DEF Value
        <5> QED
          BY <1>1, <1>6, <3>1, <4>6, <5>1 DEF Signs
      <4> QED
        BY <4>1, <4>2, <4>3, <4>4, <4>5, <4>6
    <3> QED
      BY <1>1, <2>3, <3>2 DEF Figures
  <2>4. CASE phase # "sign"
    <3>1. Checks(call)
      BY <2>2, <2>4 DEF Figures
    <3>2. reg'.s = reg.s
      BY <1>4, <1>6, <2>4
    <3>3. Checks(call)' /\ reg'.r = reg.r
      <4>1. \/ call = 1 /\ Call = [op |-> "mul", base |-> reg.w, e |-> H, mod |-> Q, to |-> "u1"]
            \/ call = 2 /\ Call = [op |-> "mul", base |-> reg.w, e |-> reg.r, mod |-> Q, to |-> "u2"]
            \/ call = 3 /\ Call = [op |-> "pow", base |-> G, e |-> reg.u1, mod |-> P, to |-> "t0"]
            \/ call = 4 /\ Call = [op |-> "pow", base |-> pub, e |-> reg.u2, mod |-> P, to |-> "t1"]
            \/ call = 5 /\ Call = [op |-> "mul", base |-> reg.t0, e |-> reg.t1, mod |-> P, to |-> "v"]
            \/ call = 6 /\ Call = [op |-> "mod", base |-> reg.v, e |-> 0, mod |-> Q, to |-> "v"]
        BY <1>2, <2>4, CheckCall, Zenon
      <4>2. CASE call = 1
        <5>1. reg'.u1 = (reg.w * H) % Q /\ call' = 2 /\ Call.to = "u1"
          BY <1>1, <1>5, <2>1, <4>1, <4>2 DEF Value
        <5> QED
          BY <1>1, <1>6, <3>1, <3>2, <5>1 DEF Checks
      <4>3. CASE call = 2
        <5>1. reg'.u2 = (reg.w * reg.r) % Q /\ call' = 3 /\ Call.to = "u2"
          BY <1>1, <1>5, <2>1, <4>1, <4>3 DEF Value
        <5>2. reg'.u1 = reg.u1
          BY <1>5, <5>1 DEF Regs
        <5> QED
          BY <1>1, <1>6, <3>1, <3>2, <4>3, <5>1, <5>2 DEF Checks
      <4>4. CASE call = 3
        <5>1. reg'.t0 = Power(G, reg.u1, P) /\ call' = 4 /\ Call.to = "t0"
          BY <1>1, <1>5, <2>1, <4>1, <4>4 DEF Value
        <5>2. reg'.u1 = reg.u1 /\ reg'.u2 = reg.u2
          BY <1>5, <5>1 DEF Regs
        <5> QED
          BY <1>1, <1>6, <3>1, <3>2, <4>4, <5>1, <5>2 DEF Checks
      <4>5. CASE call = 4
        <5>1. reg'.t1 = Power(pub, reg.u2, P) /\ call' = 5 /\ Call.to = "t1"
          BY <1>1, <1>5, <2>1, <4>1, <4>5 DEF Value
        <5>2. reg'.u1 = reg.u1 /\ reg'.u2 = reg.u2 /\ reg'.t0 = reg.t0
          BY <1>5, <5>1 DEF Regs
        <5> QED
          BY <1>1, <1>6, <3>1, <3>2, <4>5, <5>1, <5>2 DEF Checks
      <4>6. CASE call = 5
        <5>1. reg'.v = (reg.t0 * reg.t1) % P /\ call' = 6 /\ Call.to = "v"
          BY <1>1, <1>5, <2>1, <4>1, <4>6 DEF Value
        <5>2. reg'.u1 = reg.u1 /\ reg'.u2 = reg.u2 /\ reg'.t0 = reg.t0 /\ reg'.t1 = reg.t1
          BY <1>5, <5>1 DEF Regs
        <5> QED
          BY <1>1, <1>6, <3>1, <3>2, <4>6, <5>1, <5>2 DEF Checks
      <4>7. CASE call = 6
        <5>1. reg'.v = reg.v % Q /\ call' = 7 /\ Call.to = "v"
          BY <1>1, <1>5, <2>1, <4>1, <4>7 DEF Value
        <5>2. reg'.u1 = reg.u1 /\ reg'.u2 = reg.u2 /\ reg'.t0 = reg.t0 /\ reg'.t1 = reg.t1
          BY <1>5, <5>1 DEF Regs
        <5>3. reg.v = (reg.t0 * reg.t1) % P
          BY <3>1, <4>7 DEF Checks
        <5> QED
          BY <1>1, <1>6, <3>1, <3>2, <4>7, <5>1, <5>2, <5>3 DEF Checks
      <4> QED
        BY <4>1, <4>2, <4>3, <4>4, <4>5, <4>6, <4>7
    <3>4. phase = "signed" => Signs(6)'
      <4>1. phase = "signed" => Signs(6)
        BY <2>2 DEF Figures
      <4> QED
        BY <1>1, <1>6, <3>2, <3>3, <4>1 DEF Signs
    <3> QED
      BY <1>1, <2>4, <3>3, <3>4 DEF Figures
  <2> QED
    BY <2>3, <2>4
<1> QED
  BY <1>10, <1>11, <1>12 DEF Right

LEMMA ReturnRight ==
  ASSUME Good, Right, Return \/ ModReturn
  PROVE  Right'
<1>1. CASE Return
  <2>1. pc = "bit" /\ loop.bits = 0 /\ Returns(loop.acc) /\ res' = res
    BY <1>1 DEF Return, Returns
  <2>2. loop.acc \in 0 .. Call.mod - 1
    BY <2>1 DEF Good, Loops, InCall
  <2>3. Positive => loop.acc = Value(Call)
    BY <2>1, LoopReturns
  <2> QED
    BY <2>1, <2>2, <2>3, ReturnsRight DEF InCall
<1>2. CASE ModReturn
  <2>1. pc = "mod" /\ ~Dividing /\ Returns(Result) /\ res' = res
    BY <1>2 DEF ModReturn, Returns
  <2>2. div.by = Call.mod /\ Shape
    BY <2>1 DEF Good, Loops, Divides
  <2>3. Result \in 0 .. Call.mod - 1
    BY <2>1, <2>2, ResultOf
  <2>4. Positive => Result = Value(Call)
    BY <2>1, DivisionReturns
  <2> QED
    BY <2>1, <2>3, <2>4, ReturnsRight DEF InCall
<1> QED
  BY <1>1, <1>2

-----------------------------------------------------------------------------
(* The other steps.                                                        *)

LEMMA Divisor ==
  ASSUME NEW x \in Int, NEW y \in Int, NEW d \in Nat \ {0}, x % d = 0
  PROVE  (x * y) % d = 0 /\ (y % d = 0 => (x + y) % d = 0)
<1>1. /\ ((x % d) * y) % d = (x * y) % d /\ ((x % d) + y) % d = (x + y) % d
  BY ModProduct, ModSum, Zenon
<1>2. 0 * y = 0 /\ 0 + y = y /\ 0 \in 0 .. d - 1 /\ 0 \in Int
  OBVIOUS
<1>3. 0 % d = 0
  BY <1>2, Mod
<1> QED
  BY <1>1, <1>2, <1>3, Zenon

LEMMA CommonBegins ==
  ASSUME NEW x, gcd' = GcdOf(x), X' = x
  PROVE  Common'
<1>1. gcd'.u = x /\ gcd'.v = Q
  BY DEF GcdOf
<1> QED
  BY <1>1, Zenon DEF Common

LEMMA GcdStepRight ==
  ASSUME Good, Right, HalveU \/ HalveV \/ Subtract
  PROVE  Right'
<1>1. /\ pc = "gcd" /\ pc' = "gcd"
      /\ UNCHANGED <<div, phase, args, reg, call, loop, res>>
  BY DEF HalveU, HalveV, Subtract
<1>2. X' = X /\ Len(Calls)' = Len(Calls) /\ phase' = phase /\ priv' = priv
      /\ pub' = pub /\ H' = H /\ reg' = reg /\ call' = call /\ res' = res
  BY <1>1, CallStays DEF args
<1>3. gcd \in [u : Nat, v : Nat \ {0}, A : Int, B : Int, C : Int, D : Int]
  BY <1>1 DEF Good, Coefficients
<1>4. ASSUME NEW d \in Nat \ {0}, gcd'.u % d = 0, gcd'.v % d = 0
      PROVE  gcd.u % d = 0 /\ gcd.v % d = 0
  <2>1. CASE HalveU
    <3>1. gcd'.u = gcd.u \div 2 /\ gcd'.v = gcd.v /\ gcd.u % 2 = 0
      BY <1>3, <2>1 DEF HalveU, Halved, Odd
    <3> DEFINE h == gcd.u \div 2
    <3>2. h \in Int /\ gcd.u = h * 2 /\ 2 \in Int
      BY <1>3, <3>1
    <3>3. (h * 2) % d = 0
      BY <1>4, <3>1, <3>2, Divisor, Zenon
    <3> QED
      BY <1>4, <3>1, <3>2, <3>3, Zenon
  <2>2. CASE HalveV
    <3>1. gcd'.v = gcd.v \div 2 /\ gcd'.u = gcd.u /\ gcd.v % 2 = 0
      BY <1>3, <2>2 DEF HalveV, Halved, Odd
    <3> DEFINE h == gcd.v \div 2
    <3>2. h \in Int /\ gcd.v = h * 2 /\ 2 \in Int
      BY <1>3, <3>1
    <3>3. (h * 2) % d = 0
      BY <1>4, <3>1, <3>2, Divisor, Zenon
    <3> QED
      BY <1>4, <3>1, <3>2, <3>3, Zenon
  <2>3. CASE Subtract /\ TakesV
    <3>1. gcd'.u = gcd.u - gcd.v /\ gcd'.v = gcd.v
      BY <1>3, <2>3 DEF Subtract
    <3>2. gcd'.u \in Int /\ gcd'.v \in Int /\ gcd'.u + gcd'.v = gcd.u
      BY <1>3, <3>1
    <3>3. (gcd'.u + gcd'.v) % d = 0
      BY <1>4, <3>2, Divisor, Zenon
    <3> QED
      BY <1>4, <3>1, <3>2, <3>3, Zenon
  <2>4. CASE Subtract /\ ~TakesV
    <3>1. gcd'.v = gcd.v - gcd.u /\ gcd'.u = gcd.u
      BY <1>3, <2>4 DEF Subtract
    <3>2. gcd'.u \in Int /\ gcd'.v \in Int /\ gcd'.u + gcd'.v = gcd.v
      BY <1>3, <3>1
    <3>3. (gcd'.u + gcd'.v) % d = 0
      BY <1>4, <3>2, Divisor, Zenon
    <3> QED
      BY <1>4, <3>1, <3>2, <3>3, Zenon
  <2> QED
    BY <2>1, <2>2, <2>3, <2>4
<1>5. Common
  BY <1>1 DEF Right, Fresh
<1>6. Common'
  BY <1>2, <1>4, <1>5, Zenon DEF Common
<1>7. Fresh'
  BY <1>1, <1>2, <1>6 DEF Right, Fresh, InCall
<1>8. Figures' <=> Figures
  <2>1. Signs(6)' <=> Signs(6)
    BY <1>2, Zenon DEF Signs
  <2> QED
    BY <1>1, <1>2, <2>1 DEF Figures, InCall
<1>9. Computes' /\ (Positive' <=> Positive)
  BY <1>1, <1>2 DEF Computes, Under, Positive
<1> QED
  BY <1>7, <1>8, <1>9 DEF Right

LEMMA RandomRight ==
  ASSUME Good, Right, Random
  PROVE  Right'
<1>1. PICK k \in Nonces : reg' = [reg EXCEPT !.k = k] /\ gcd' = GcdOf(k)
  BY DEF Random
<1>2. /\ pc = "random" /\ pc' = "gcd" /\ phase = "sign" /\ phase' = "sign"
      /\ priv' = priv /\ pub' = pub /\ call' = call /\ res' = res
  BY DEF Random, args, Good, Types
<1>3. /\ reg'.k = k /\ reg'.w = reg.w /\ reg'.k_inv = reg.k_inv /\ reg'.r = reg.r
  BY <1>1 DEF Good, Registers, Regs
<1>4. Common'
  BY <1>1, <1>2, <1>3, CommonBegins DEF X
<1>5. Fresh'
  BY <1>2, <1>3, <1>4 DEF Right, Fresh, InCall
<1>6. Computes' /\ Figures'
  BY <1>2 DEF Computes, Under, Figures, InCall
<1> QED
  BY <1>5, <1>6 DEF Right

LEMMA InvertedRight ==
  ASSUME Good, Good', Right, Inverted
  PROVE  Right'
<1>1. /\ pc = "gcd" /\ gcd.u = 0 /\ phase' = phase /\ priv' = priv /\ pub' = pub
      /\ H' = H /\ gcd' = gcd /\ call' = call /\ res' = res
  BY DEF Inverted, args
<1>2. Fresh /\ call = 1 /\ res = -1 /\ Common
  BY <1>1 DEF Right, Fresh
<1>3. Len(Calls)' \in Nat
  <2>1. Len(SignCalls)' = 5 /\ Len(CheckCalls)' = 6
    BY DEF SignCalls, CheckCalls
  <2> QED
    BY <2>1 DEF Calls
<1>4. CASE gcd.v = 1
  <2> DEFINE to == IF phase = "sign" THEN "k_inv" ELSE "w"
  <2>1. pc' = "call" /\ reg' = [reg EXCEPT ![to] = InverseOfX]
    BY <1>4 DEF Inverted
  <2>2. /\ reg'.k = reg.k /\ reg'.s = reg.s /\ reg'.r = reg.r
        /\ phase = "sign" => reg'.w = reg.w
        /\ phase # "sign" => reg'.k_inv = reg.k_inv
    BY <2>1 DEF Good, Registers, Regs
  <2>3. X' = X
    BY <1>1, <2>2 DEF X
  <2>4. Common'
    BY <1>1, <1>2, <2>3, Zenon DEF Common
  <2>5. Fresh'
    BY <1>1, <1>2, <1>3, <2>1, <2>2, <2>4 DEF Fresh
  <2>6. Computes'
    BY <2>1 DEF Computes, Under
  <2>7. ASSUME Positive' PROVE Figures'
    <3>1. Positive
      BY <1>1, <1>2, <2>2, <2>7 DEF Fresh, Positive
    <3>2. ((IF phase' = "sign" THEN reg'.k_inv ELSE reg'.w) * X') % Q = 1
      BY <1>1, <1>2, <2>1 DEF Good, Inverts
    <3>3. phase = "sign" => Signs(call)'
      BY <1>1, <1>2, <3>2 DEF Signs, X
    <3>4. phase # "sign" => Checks(call)'
      BY <1>1, <1>2, <3>2 DEF Checks, X
    <3>5. phase = "signed" => Signs(6)'
      <4>1. phase = "signed" => Signs(6)
        BY <3>1 DEF Right, Figures
      <4> QED
        BY <1>1, <2>2, <4>1 DEF Signs
    <3> QED
      BY <1>1, <2>1, <3>3, <3>4, <3>5 DEF Figures
  <2> QED
    BY <2>5, <2>6, <2>7 DEF Right
<1>5. CASE gcd.v # 1
  <2>1. pc' = (IF phase = "sign" THEN "random" ELSE "done") /\ reg' = reg
    BY <1>5 DEF Inverted
  <2>2. X' = X
    BY <1>1, <2>1 DEF X
  <2>3. Common'
    BY <1>1, <1>2, <2>2, Zenon DEF Common
  <2>4. Fresh'
    BY <1>1, <1>2, <2>1, <2>3 DEF Fresh, InCall
  <2>5. Computes' /\ (Positive' <=> Positive)
    BY <2>1 DEF Computes, Under, Positive
  <2>6. ASSUME Positive PROVE Figures'
    <3>1. phase = "signed" => Signs(6)'
      <4>1. phase = "signed" => Signs(6)
        BY <2>6 DEF Right, Figures
      <4> QED
        BY <1>1, <2>1, <4>1 DEF Signs
    <3>2. Failed'
      BY <1>1, <1>2, <1>5 DEF Failed
    <3> QED
      BY <1>1, <2>1, <3>1, <3>2 DEF Figures, InCall
  <2> QED
    BY <2>4, <2>5, <2>6 DEF Right
<1> QED
  BY <1>4, <1>5

LEMMA EndRight ==
  ASSUME Good, Right, Sign \/ Compare
  PROVE  Right'
<1>1. /\ pc = "call" /\ priv' = priv /\ pub' = pub /\ H' = H /\ reg' = reg
      /\ call > Len(Calls) /\ call <= Len(Calls) + 1
  BY DEF Sign, Compare, args, Right, Fresh
<1>2. Len(SignCalls) = 5 /\ Len(CheckCalls) = 6 /\ call \in Nat
  BY DEF SignCalls, CheckCalls, Good, Types
<1>3. (phase = "sign" => call = 6) /\ (phase # "sign" => call = 7)
  <2>1. Len(Calls) = IF phase = "sign" THEN 5 ELSE 6
    BY <1>2, Zenon DEF Calls
  <2> QED
    BY <1>1, <1>2, <2>1
<1>4. Positive' <=> Positive
  BY <1>1 DEF Positive
<1>5. Signs(6) <=> Signs(6)'
  BY <1>1 DEF Signs
<1>6. CASE Sign
  <2>1. /\ phase = "sign" /\ phase' = "signed" /\ gcd' = GcdOf(reg.s) /\ call' = 1
        /\ pc' = "gcd" /\ res' = res
    BY <1>6 DEF Sign
  <2>2. Common'
    BY <1>1, <2>1, CommonBegins DEF X
  <2>3. Fresh'
    BY <1>1, <2>1, <2>2 DEF Right, Fresh, InCall
  <2>4. Positive => Figures'
    BY <1>1, <1>3, <1>5, <2>1 DEF Right, Figures, InCall
  <2>5. Computes'
    BY <2>1 DEF Computes, Under
  <2> QED
    BY <1>4, <2>3, <2>4, <2>5 DEF Right
<1>7. CASE Compare
  <2>1. /\ phase # "sign" /\ phase' = phase /\ gcd' = gcd /\ call' = call
        /\ pc' = "done" /\ res' = Cmp(reg.r, reg.v)
    BY <1>7 DEF Compare
  <2>2. Common'
    <3>1. Common /\ X' = X
      BY <1>1, <2>1 DEF Right, Fresh, X
    <3> QED
      BY <2>1, <3>1, Zenon DEF Common
  <2>3. Fresh'
    BY <1>1, <2>1, <2>2 DEF Right, Fresh, InCall
  <2>4. Checks(7)' <=> Checks(7)
    BY <1>1 DEF Checks
  <2>5. ASSUME Positive PROVE Figures'
    <3>1. Checks(7) /\ (phase = "signed" => Signs(6))
      BY <1>1, <1>3, <2>1, <2>5 DEF Right, Figures
    <3>2. res' = Cmp(reg.r, reg.v)'
      BY <1>1, <2>1 DEF Cmp
    <3> QED
      BY <1>5, <2>1, <2>4, <3>1, <3>2 DEF Figures, InCall
  <2>6. Computes'
    BY <2>1 DEF Computes, Under
  <2> QED
    BY <1>4, <2>3, <2>5, <2>6 DEF Right
<1> QED
  BY <1>6, <1>7

-----------------------------------------------------------------------------
LEMMA InitRight == Init => JInv
<1> SUFFICES ASSUME Init PROVE Right
  BY InitGood DEF JInv
<1>1. PICK r \in Rs, s \in Ss :
        /\ reg = [x \in {"k", "k_inv", "r", "s", "w", "u1", "u2", "t0", "t1", "v"} |->
                   IF x = "r" THEN r ELSE IF x = "s" THEN s ELSE 0]
        /\ gcd = GcdOf(s)
        /\ \/ phase = "check" /\ pc = "gcd"
           \/ phase = "sign" /\ pc = "random" /\ r = 0 /\ s = 0
  BY DEF Init
<1>2. reg.w = 0 /\ reg.k_inv = 0 /\ reg.r = r /\ reg.s = s /\ r \in Nat
  BY <1>1, DsaAssumption
<1>3. pub = PubOf(priv) /\ call = 1 /\ res = -1
  BY DEF Init
<1>4. pc # "random" => Common
  BY <1>1, <1>2, Zenon DEF Common, X, GcdOf
<1>5. Fresh
  BY <1>1, <1>2, <1>3, <1>4 DEF Fresh, InCall
<1>6. Computes /\ Figures
  BY <1>1 DEF Computes, Under, Figures, InCall
<1> QED
  BY <1>5, <1>6 DEF Right

LEMMA NextRight == JInv /\ [Next]_vars => JInv'
<1> SUFFICES ASSUME JInv, [Next]_vars PROVE JInv'
  OBVIOUS
<1>1. IInv /\ IInv'
  BY NextGood DEF JInv
<1>2. slipped' = slipped \/ slipped' = (slipped \/ (Takes /\ Slips))
  BY Zenon DEF Next, vars, Random, HalveU, HalveV, Subtract, Inverted, Begin, OperandReduced,
         SetBit, Accumulated, ClearBit, BaseReduced, Return, ModReturn, Returns, Sign,
         Compare, DigitDone, Digit
<1>3. slipped => slipped'
  BY <1>1, <1>2, Zenon DEF IInv
<1>4. ASSUME ~slipped' PROVE Right'
  <2>1. Good /\ Right /\ Good'
    BY <1>1, <1>3, <1>4 DEF IInv, JInv
  <2>2. CASE Random
    BY <2>1, <2>2, RandomRight
  <2>3. CASE HalveU \/ HalveV \/ Subtract
    BY <2>1, <2>3, GcdStepRight
  <2>4. CASE Inverted
    BY <2>1, <2>4, InvertedRight
  <2>5. CASE Begin
    BY <2>1, <2>5, BeginRight
  <2>6. CASE OperandReduced
    BY <2>1, <2>6, OperandReducedRight
  <2>7. CASE SetBit
    BY <2>1, <2>7, SetBitRight
  <2>8. CASE Accumulated \/ ClearBit
    BY <2>1, <2>8, BitsRight
  <2>9. CASE BaseReduced
    BY <2>1, <2>9, BaseReducedRight
  <2>10. CASE Return \/ ModReturn
    BY <2>1, <2>10, ReturnRight
  <2>11. CASE Sign \/ Compare
    BY <2>1, <2>11, EndRight
  <2>12. CASE DigitDone
    BY <1>4, <2>1, <2>12, DigitDoneRight
  <2>13. CASE UNCHANGED vars
    <3>1. /\ phase' = phase /\ priv' = priv /\ pub' = pub /\ H' = H /\ reg' = reg
          /\ call' = call /\ div' = div /\ pc' = pc /\ gcd' = gcd /\ loop' = loop
          /\ res' = res
      BY <2>13 DEF vars, args
    <3>2. /\ Call' = Call /\ X' = X /\ Len(Calls)' = Len(Calls)
      BY <3>1, CallStays DEF args
    <3>3. Common' <=> Common
      BY <3>1, <3>2, Zenon DEF Common
    <3>4. Fresh'
      BY <2>1, <3>1, <3>2, <3>3 DEF Right, Fresh
    <3>5. Positive' <=> Positive
      BY <3>1 DEF Positive
    <3>6. Computes' <=> Computes
      BY <3>1, <3>2, Zenon DEF Computes
    <3>7. Figures' <=> Figures
      <4>1. /\ Signs(call)' <=> Signs(call)
            /\ Signs(6)' <=> Signs(6)
            /\ Checks(call)' <=> Checks(call)
            /\ Checks(7)' <=> Checks(7)
        BY <3>1, Zenon DEF Signs, Checks
      <4>2. (Failed' <=> Failed) /\ Cmp(reg.r, reg.v)' = Cmp(reg.r, reg.v)
        BY <3>1 DEF Failed, Cmp
      <4> QED
        BY <3>1, <4>1, <4>2 DEF Figures
    <3> QED
      BY <2>1, <3>4, <3>5, <3>6, <3>7 DEF Right
  <2> QED
    BY <2>2, <2>3, <2>4, <2>5, <2>6, <2>7, <2>8, <2>9, <2>10, <2>11, <2>12, <2>13
       DEF Next
<1> QED
  BY <1>1, <1>4 DEF JInv

(* Each register of dsa_sign and dsa_check is the product, power or        *)
(* remainder that the call before it is for.                               *)
THEOREM Computation == Spec => []JInv
<1>1. Init => JInv
  BY InitRight
<1>2. JInv /\ [Next]_vars => JInv'
  BY NextRight
<1> QED
  BY <1>1, <1>2, PTL DEF Spec

-----------------------------------------------------------------------------
(* DSA.                                                                    *)

(* What divides Q and s leaves s without an inverse.                       *)
LEMMA NotInvertible ==
  ASSUME NEW s \in Int, NEW m \in Nat \ {0}, NEW w \in Int, (w * s) % m = 1,
         NEW d \in Nat \ {0}, s % d = 0, m % d = 0
  PROVE  d = 1
<1>1. PICK q \in Int : w * s = q * m + ((w * s) % m)
  <2>1. w * s \in Int
    BY SMT
  <2> QED
    BY <2>1, Parts, Zenon
<1>2. w * s = m * q + 1 /\ m * q \in Int /\ s * w = w * s /\ m \in Int
  <2>1. q * m = m * q /\ m * q \in Int /\ s * w = w * s /\ w * s \in Int
    BY SMT
  <2> QED
    BY <1>1, <2>1
<1>3. (s * w) % d = 0
  BY Divisor, Zenon
<1>4. (m * q) % d = 0
  BY <1>2, Divisor, Zenon
<1>5. (((m * q) % d) + 1) % d = (m * q + 1) % d
  <2>1. 1 \in Int
    OBVIOUS
  <2> QED
    BY <1>2, <2>1, ModSum, ZenonT(60)
<1>6. 0 + 1 = 1
  OBVIOUS
<1>7. 1 % d = 0
  BY <1>2, <1>3, <1>4, <1>5, <1>6, Zenon
<1> SUFFICES ASSUME d # 1 PROVE FALSE
  OBVIOUS
<1>8. 1 \in 0 .. d - 1 /\ 1 \in Int
  OBVIOUS
<1>9. 1 % d = 1
  BY <1>8, Mod
<1> QED
  BY <1>7, <1>9

(* Inverses differ by multiples of m.                                      *)
LEMMA InversesAlike ==
  ASSUME NEW m \in Nat \ {0}, NEW s \in Int, NEW w \in Int, NEW x \in Int,
         (w * s) % m = 1, (x * s) % m = 1, NEW y \in Int
  PROVE  (y * x) % m = (w * y) % m
<1>1. /\ w * s \in Int /\ x * s \in Int /\ (x * s) * w = (w * s) * x
      /\ w * 1 = w /\ x * 1 = x
  BY SMT
<1>2. (w * ((x * s) % m)) % m = ((x * s) * w) % m
  BY <1>1, ModProduct, ZenonT(60)
<1>3. (x * ((w * s) % m)) % m = ((w * s) * x) % m
  BY <1>1, ModProduct, ZenonT(60)
<1>4. w % m = x % m
  BY <1>1, <1>2, <1>3, Zenon
<1>5. (y * (x % m)) % m = (x * y) % m /\ x * y = y * x
  BY ModProduct, Zenon
<1>6. (y * (w % m)) % m = (w * y) % m
  BY ModProduct, Zenon
<1> QED
  BY <1>4, <1>5, <1>6, Zenon

LEMMA Refused ==
  ASSUME Good, Fresh, pc = "done", Failed
  PROVE  /\ gcd.v \in Nat \ {0} /\ gcd.v # 1 /\ phase # "sign" /\ reg.s \in Nat
         /\ reg.s % gcd.v = 0 /\ Q % gcd.v = 0
         /\ ~ \E w \in Int : (w * reg.s) % Q = 1
<1>1. gcd.u = 0 /\ gcd.v # 1 /\ gcd.v \in Nat \ {0} /\ phase # "sign" /\ X = reg.s
      /\ reg.s \in Nat /\ Q \in Nat \ {0}
  BY Keys DEF Failed, Fresh, Good, Coefficients, X, Registers
<1>2. PICK v \in Nat \ {0} : v = gcd.v
  BY <1>1
<1>3. 0 % v = 0 /\ v % v = 0
  <2>1. 0 \in 0 .. v - 1 /\ 0 \in Int /\ 1 * v = v /\ 1 \in Int
    OBVIOUS
  <2>2. 0 % v = 0
    BY <2>1, Mod
  <2>3. (1 * v) % v = 0
    BY <2>1, Multiple, Zenon
  <2> QED
    BY <2>1, <2>2, <2>3
<1>4. reg.s % v = 0 /\ Q % v = 0
  BY <1>1, <1>2, <1>3, Zenon DEF Fresh, Common
<1>5. ASSUME NEW w \in Int, (w * reg.s) % Q = 1 PROVE FALSE
  <2>1. reg.s \in Int
    BY <1>1
  <2>2. v = 1
    BY <1>1, <1>4, <1>5, <2>1, NotInvertible
  <2> QED
    BY <1>1, <1>2, <2>2
<1> QED
  BY <1>1, <1>2, <1>4, <1>5, Zenon

LEMMA CmpZero ==
  ASSUME NEW a \in Int, NEW b \in Int
  PROVE  Cmp(a, b) = 0 <=> a = b
BY DEF Cmp

LEMMA VerdictHolds ==
  ASSUME JInv
  PROVE  Verdict
<1> SUFFICES ASSUME pc = "done", Sound PROVE res = 0 <=> Valid
  BY DEF Verdict
<1>1. Good /\ Fresh /\ Figures
  BY DEF JInv, IInv, Right, Sound, Positive
<1>2. CASE Failed
  <2>1. ~ \E w \in Int : (w * reg.s) % Q = 1
    BY <1>1, <1>2, Refused
  <2>2. \A w \in 0 .. Q - 1 : w \in Int
    BY Keys
  <2>3. ~Valid
    BY <2>1, <2>2, Zenon DEF Valid
  <2> QED
    BY <1>2, <2>3 DEF Failed
<1>3. CASE ~Failed
  <2>1. Checks(7) /\ res = Cmp(reg.r, reg.v)
    BY <1>1, <1>3 DEF Figures
  <2>2. /\ reg.w \in Int /\ reg.s \in Int /\ reg.r \in Int /\ reg.v \in Int
        /\ H \in Int /\ Q \in Nat \ {0}
    BY <1>1, Keys DEF Good, Registers, Types, Regs
  <2> DEFINE w == reg.w
             V(a, b) == ((Power(G, a, P) * Power(pub, b, P)) % P) % Q
  <2>3. /\ (w * reg.s) % Q = 1 /\ reg.u1 = (w * H) % Q /\ reg.u2 = (w * reg.r) % Q
        /\ reg.v = V(reg.u1, reg.u2)
    BY <2>1 DEF Checks
  <2>4. Valid <=> \E x \in 0 .. Q - 1 : (x * reg.s) % Q = 1
                                       /\ V((H * x) % Q, (reg.r * x) % Q) = reg.r
    BY Zenon DEF Valid
  <2> HIDE DEF V, w
  <2>5. w \in Int
    BY <2>2 DEF w
  <2>6. ASSUME NEW x \in Int, (x * reg.s) % Q = 1
        PROVE  (H * x) % Q = reg.u1 /\ (reg.r * x) % Q = reg.u2
    <3>1. \A y \in Int : (y * x) % Q = (w * y) % Q
      BY <2>2, <2>3, <2>5, <2>6, InversesAlike
    <3> QED
      BY <2>2, <2>3, <3>1, Zenon
  <2>7. res = 0 <=> reg.r = reg.v
    BY <2>1, <2>2, CmpZero
  <2>8. ASSUME reg.r = reg.v PROVE Valid
    <3>1. w % Q \in 0 .. Q - 1 /\ w % Q \in Int
      BY <2>2, <2>5, ModRange, Zenon
    <3>2. ((w % Q) * reg.s) % Q = 1
      BY <2>2, <2>3, <2>5, ModProduct, Zenon
    <3> DEFINE x == w % Q
    <3> HIDE DEF x
    <3>3. x \in 0 .. Q - 1 /\ x \in Int /\ (x * reg.s) % Q = 1
      BY <3>1, <3>2 DEF x
    <3>4. V((H * x) % Q, (reg.r * x) % Q) = reg.r
      BY <2>3, <2>6, <2>8, <3>3, Zenon
    <3> QED
      BY <2>4, <3>3, <3>4, Zenon
  <2>9. ASSUME Valid PROVE reg.r = reg.v
    <3>1. PICK x \in 0 .. Q - 1 : (x * reg.s) % Q = 1
                                  /\ V((H * x) % Q, (reg.r * x) % Q) = reg.r
      BY <2>4, <2>9, Zenon
    <3>2. x \in Int
      BY <2>2
    <3> QED
      BY <2>3, <2>6, <3>1, <3>2, Zenon
  <2> QED
    BY <2>7, <2>8, <2>9
<1> QED
  BY <1>2, <1>3

-----------------------------------------------------------------------------
(* DSA's equation.                                                         *)

(* What dsa_sign stores as s, of the product q of its key and r, with the   *)
(* random number k and its inverse i; and the sum of the check's two       *)
(* exponents of G.                                                         *)
Signed(q, h, i, k, s, m) ==
  (i * k) % m = 1 /\ s = ((((q % m) + h) % m) * i) % m

Exponent(w, h, r, p, m) == (((w * h) % m) + p * ((w * r) % m)) % m

(* The exponents of the check add up to the random number.                 *)
LEMMA Exponents ==
  ASSUME NEW m \in Nat \ {0}, NEW k \in 0 .. m - 1, NEW i \in Int, NEW w \in Int,
         NEW p \in Int, NEW r \in Int, NEW h \in Int, NEW s \in Int, NEW q \in Int
  PROVE  /\ (w * s) % m = 1
         /\ q = p * r
         /\ Signed(q, h, i, k, s, m)
         => Exponent(w, h, r, p, m) = k
<1>1. Signed(q, h, i, k, s, m) => (s * k) % m = (q + h) % m
  <2> DEFINE n == q + h
           j == i * k
  <2>1. ((q % m) + h) % m = n % m
    BY Zenon, ModSum
  <2>2. n \in Int /\ j \in Int
    BY SMT
  <2> DEFINE z == n % m
  <2>3. z \in Int /\ z % m = z
    <3> HIDE DEF n
    <3>1. z \in Int
      BY <2>2, ModRange, Zenon
    <3>2. z % m = z
      BY <2>2, ModMod, Zenon
    <3> QED
      BY <3>1, <3>2
  <2> HIDE DEF z, n
  <2>4. z * i \in Int /\ (z * i) * k = j * z /\ 1 * z = z
    BY <2>3, Reordered, SMT
  <2> DEFINE y == z * i
  <2>5. ((y % m) * k) % m = (y * k) % m
    <3> HIDE DEF y
    <3>1. y \in Int
      BY <2>4 DEF y
    <3>2. k \in Int
      OBVIOUS
    <3> QED
      BY <3>1, <3>2, ModProduct, Zenon
  <2> HIDE DEF j, y
  <2>6. ((j % m) * z) % m = (j * z) % m
    <3>1. j \in Int
      BY <2>2
    <3>2. z \in Int
      BY <2>3
    <3> QED
      BY <3>1, <3>2, ModProduct, Zenon
  <2>7. ASSUME j % m = 1 PROVE ((y % m) * k) % m = z
    BY <2>3, <2>4, <2>5, <2>6, <2>7 DEF y
  <2> QED
    BY Zenon, <2>1, <2>7 DEF j, y, z, n, Signed
<1> DEFINE e == w * r
           g == w * h
           d == w * s
           n == q + h
           f == s * k
           b == e % m
           c == p * b
           x == p * e
<1>2. k \in Int /\ q \in Int /\ e \in Int /\ g \in Int /\ d \in Int /\ f \in Int
  BY SMT
<1>3. (q = p * r => x = w * q) /\ w * n = g + w * q /\ d * k = f * w /\ 1 * k = k
  BY SMT
<1> HIDE DEF e, g, d, f
<1>4. e \in Int
  BY <1>2
<1>5. d \in Int
  BY <1>2
<1>6. k \in Int
  BY <1>2
<1>7. f \in Int
  BY <1>2
<1>8. n \in Int
  BY <1>2
<1> HIDE DEF n
<1>9. (w * (f % m)) % m = (f * w) % m
  BY <1>7, ModProduct, Zenon
<1>10. (w * (n % m)) % m = (n * w) % m /\ n * w = w * n
  BY <1>8, ModProduct, Zenon
<1>11. ((d % m) * k) % m = (d * k) % m
  BY <1>5, <1>6, ModProduct, Zenon
<1>12. k % m = k
  BY Mod
<1>13. (p * (e % m)) % m = (e * p) % m /\ e * p = p * e
  BY <1>4, ModProduct, Zenon
<1>14. b \in Int
  BY <1>2, ModRange, Zenon
<1> HIDE DEF b
<1>15. c \in Int
  BY <1>14, SMT
<1>16. x \in Int
  BY <1>4, SMT
<1>17. g \in Int
  BY <1>2
<1>18. c % m = x % m
  BY <1>13 DEF b
<1> HIDE DEF c, x
<1>19. ((g % m) + c) % m = (g + c) % m
  BY <1>17, <1>15, ModSum, Zenon
<1>20. (g + (c % m)) % m = (c + g) % m
  BY <1>17, <1>15, ModSum, Zenon
<1>21. (g + (x % m)) % m = (x + g) % m
  BY <1>17, <1>16, ModSum, Zenon
<1>22. c + g = g + c /\ x + g = g + x
  BY <1>17, <1>15, <1>16
<1>23. ASSUME q = p * r PROVE ((g % m) + c) % m = (w * n) % m
  BY <1>3, <1>23, <1>18, <1>19, <1>20, <1>22, <1>21
<1>24. ASSUME Signed(q, h, i, k, s, m), d % m = 1, q = p * r
       PROVE  ((g % m) + c) % m = k
  <2>1. f % m = n % m
    BY <1>1, <1>24, Zenon DEF f, n
  <2>2. (w * n) % m = k
    BY <1>3, <1>9, <1>10, <1>11, <1>12, <1>24, <2>1
  <2> QED
    BY <1>23, <1>24, <2>2
<1> QED
  BY <1>24 DEF g, c, b, e, d, Exponent

(* G's powers repeat after Q.                                              *)
LEMMA Period ==
  ASSUME NEW n \in Nat
  PROVE  Power(G, n, P) = Power(G, n % Q, P)
<1>1. P \in Nat \ {0} /\ P > 1 /\ Q \in Nat \ {0} /\ G \in Int /\ Power(G, Q, P) = 1
  BY Keys, DomainAssumption
<1> DEFINE q == n \div Q
           r == n % Q
<1>2. q \in Nat /\ r \in Nat /\ n = Q * q + r
  BY <1>1, SMT
<1> HIDE DEF q, r
<1>3. Q * q \in Nat /\ Q \in Nat
  BY <1>1, <1>2, SMT
<1>4. Power(G, Q * q + r, P) = (Power(G, Q * q, P) * Power(G, r, P)) % P
  BY <1>1, <1>2, <1>3, PowerAdd, ZenonT(60)
<1>5. Power(G, Q * q, P) = Power(1, q, P)
  <2>1. Q \in Nat /\ G \in Int /\ P \in Nat \ {0} /\ q \in Nat
    BY <1>1, <1>2
  <2>2. Power(Power(G, Q, P), q, P) = Power(G, Q * q, P)
    BY <2>1, PowerTimes, Zenon
  <2> QED
    BY <1>1, <2>2, Zenon
<1>6. Power(1, q, P) = 1
  <2>1. 1 \in 0 .. P - 1 /\ 1 \in Int
    BY <1>1
  <2>2. 1 % P = 1
    BY <1>1, <2>1, Mod
  <2> QED
    BY <1>1, <1>2, <2>2, PowerOfOne, Zenon
<1> DEFINE p == Power(G, r, P)
<1>7. p \in Nat /\ p % P = p
  BY <1>1, <1>2, PowerRange, Zenon
<1> HIDE DEF p
<1>8. 1 * p = p
  BY <1>7
<1>9. Power(G, n, P) = p
  BY <1>2, <1>4, <1>5, <1>6, <1>7, <1>8, Zenon DEF p
<1> QED
  BY <1>9 DEF p, r

LEMMA SignedAcceptedHolds ==
  ASSUME JInv
  PROVE  SignedAccepted
<1> SUFFICES ASSUME pc = "done", phase = "signed", Sound
             PROVE  /\ {reg.r, reg.s} \subseteq 0 .. Q - 1
                    /\ reg.s # 0 => res = 0
  BY DEF SignedAccepted
<1>1. Good /\ Fresh /\ Figures
  BY DEF JInv, IInv, Right, Sound, Positive
<1>2. Signs(6)
  BY <1>1 DEF Figures
<1>3. /\ reg.w \in Int /\ reg.s \in Int /\ reg.k \in 0 .. Q - 1 /\ reg.k \in Nat
      /\ reg.k_inv \in Int /\ reg.r \in Int /\ reg.v \in Int /\ H \in Int
      /\ priv \in Nat /\ priv \in Int /\ G \in Int /\ reg.s \in Nat
      /\ P \in Nat \ {0} /\ Q \in Nat \ {0} /\ Q > 1 /\ pub = Power(G, priv, P)
  <2>1. reg \in [Regs -> Int] /\ P \in Nat \ {0} /\ Q \in Nat \ {0} /\ Q > 1 /\ G \in Nat
    BY <1>1, Keys DEF Good, Registers
  <2>2. reg.w \in Int /\ reg.s \in Int /\ reg.k_inv \in Int /\ reg.r \in Int /\ reg.v \in Int
    BY <2>1 DEF Regs
  <2> QED
    BY <1>1, <2>1, <2>2 DEF Good, Registers, Types, Fresh, PubOf
<1>4. /\ (reg.k_inv * reg.k) % Q = 1 /\ reg.r = Power(G, reg.k, P) % Q
      /\ reg.s = (((((priv * reg.r) % Q) + H) % Q) * reg.k_inv) % Q
  BY <1>2 DEF Signs
<1>5. reg.r \in 0 .. Q - 1 /\ reg.s \in 0 .. Q - 1
  <2> DEFINE p == Power(G, reg.k, P)
             z == (((priv * reg.r) % Q) + H) % Q
  <2>1. p \in Int
    <3>1. p \in Nat
      BY <1>3, PowerRange, Zenon
    <3> HIDE DEF p
    <3> QED
      BY <3>1
  <2>2. z \in Int
    <3>1. priv * reg.r \in Int
      BY <1>3, SMT
    <3> DEFINE y == (priv * reg.r) % Q
    <3>2. y \in Int
      BY <1>3, <3>1, ModRange, Zenon
    <3> HIDE DEF y
    <3>3. y + H \in Int
      BY <1>3, <3>2
    <3>4. (y + H) % Q \in Int
      BY <1>3, <3>3, ModRange, Zenon
    <3> QED
      BY <3>4 DEF y
  <2>3. reg.r = p % Q /\ reg.s = (z * reg.k_inv) % Q
    BY <1>4
  <2> HIDE DEF p, z
  <2>4. z * reg.k_inv \in Int
    BY <1>3, <2>2, SMT
  <2> QED
    BY <1>3, <2>1, <2>3, <2>4, ModRange, Zenon
<1>6. ASSUME reg.s # 0, Failed PROVE FALSE
  <2>1. PICK v \in Nat \ {0} : v = gcd.v /\ v # 1 /\ reg.s % v = 0 /\ Q % v = 0
    BY <1>1, <1>6, Refused
  <2>2. v \in 2 .. Q - 1
    <3>1. CASE v > reg.s
      <4>1. reg.s \in 0 .. v - 1
        BY <1>3, <3>1
      <4>2. reg.s % v = reg.s
        BY Zenon, <1>3, <4>1, Mod
      <4> QED
        BY <1>6, <2>1, <4>2
    <3>2. CASE ~(v > reg.s)
      BY <1>3, <1>5, <2>1, <3>2
    <3> QED
      BY <3>1, <3>2
  <2> QED
    BY <2>1, <2>2, DomainAssumption
<1>7. ASSUME reg.s # 0 PROVE res = 0
  <2>1. Checks(7) /\ res = Cmp(reg.r, reg.v)
    BY <1>1, <1>6, <1>7 DEF Figures
  <2> DEFINE a == reg.u1
             b == reg.u2
  <2>2. /\ (reg.w * reg.s) % Q = 1 /\ a = (reg.w * H) % Q /\ b = (reg.w * reg.r) % Q
        /\ reg.v = ((Power(G, a, P) * Power(pub, b, P)) % P) % Q
    BY <2>1 DEF Checks
  <2>3. a \in Nat /\ b \in Nat /\ a \in Int /\ b \in Int
    <3>1. a \in Nat /\ b \in Nat
      BY <1>1, <1>3 DEF Good, Registers
    <3> HIDE DEF a, b
    <3> QED
      BY <3>1
  <2> HIDE DEF a, b
  <2>4. (a + priv * b) % Q = reg.k
    <3> DEFINE k == reg.k
               i == reg.k_inv
               w == reg.w
               r == reg.r
               s == reg.s
               p == priv
               q == p * r
    <3>1. /\ Q \in Nat \ {0} /\ k \in 0 .. Q - 1 /\ i \in Int /\ w \in Int
          /\ p \in Int /\ r \in Int /\ H \in Int /\ s \in Int /\ q = p * r
      BY <1>3
    <3>2. (w * s) % Q = 1 /\ Signed(q, H, i, k, s, Q)
      BY <1>4, <2>2 DEF Signed
    <3>3. a = (w * H) % Q /\ b = (w * r) % Q
      BY <2>2
    <3> HIDE DEF k, i, w, r, s, p, q
    <3>6. q \in Int
      BY <3>1, SMT
    <3>4. Exponent(w, H, r, p, Q) = k
      BY <3>1, <3>2, <3>6, Exponents
    <3>5. (a + p * b) % Q = k
      BY <3>3, <3>4, Zenon DEF Exponent
    <3> QED
      BY <3>5 DEF p, k
  <2>5. priv * b \in Nat /\ a + priv * b \in Nat
    <3>1. priv * b \in Nat
      BY <1>3, <2>3, SMT
    <3> QED
      BY <2>3, <3>1
  <2>6. Power(pub, b, P) = Power(G, priv * b, P)
    <3>1. G \in Int /\ P \in Nat \ {0} /\ priv \in Nat /\ b \in Nat
      BY <1>3, <2>3
    <3>2. Power(Power(G, priv, P), b, P) = Power(G, priv * b, P)
      BY <3>1, PowerTimes, Zenon
    <3>3. pub = Power(G, priv, P)
      BY <1>3
    <3> QED
      BY <3>2, <3>3, Zenon
  <2>7. Power(G, a + priv * b, P) = (Power(G, a, P) * Power(G, priv * b, P)) % P
    <3>1. G \in Int /\ P \in Nat \ {0} /\ a \in Nat /\ priv * b \in Nat
      BY <1>3, <2>3, <2>5
    <3> QED
      BY <3>1, PowerAdd, Zenon
  <2>8. Power(G, a + priv * b, P) = Power(G, reg.k, P)
    BY <2>4, <2>5, Period, Zenon
  <2>9. reg.v = reg.r
    BY <1>4, <2>2, <2>6, <2>7, <2>8, Zenon
  <2> QED
    BY <1>3, <2>1, <2>9, CmpZero
<1> QED
  BY <1>5, <1>7

(* dsa_check accepts exactly the signatures that DSA's formula does, of    *)
(* any digest and whatever r and s, unless an estimate slipped or the      *)
(* inverse came out below 0.                                               *)
THEOREM VerdictIsTheFormulas == Spec => []Verdict
<1>1. JInv => Verdict
  BY VerdictHolds
<1> QED
  BY <1>1, Computation, PTL

(* What dsa_sign signs with a private key, dsa_check accepts with the      *)
(* public one, whatever the digest and the random number, unless s is 0,   *)
(* an estimate slipped or an inverse came out below 0.                     *)
THEOREM SignaturesAreAccepted == Spec => []SignedAccepted
<1>1. JInv => SignedAccepted
  BY SignedAcceptedHolds
<1> QED
  BY <1>1, Computation, PTL
-----------------------------------------------------------------------------
(* Rows of digits.                                                         *)

(* What is above i digits of x, and the digit there.                       *)
Part(x, i) == x \div Base ^ i
DigitOf(x, i) == Part(x, i) % Base

Row == [0 .. Size - 1 -> 0 .. Base - 1]

(* Quotient and remainder, by what they are.                               *)
LEMMA Floor ==
  ASSUME NEW x \in Int, NEW a \in Nat \ {0}, NEW q \in Int, NEW r \in 0 .. a - 1,
         x = q * a + r
  PROVE  x \div a = q /\ x % a = r
<1>1. x % a = r
  BY Unique
<1>2. x \div a \in Int /\ x = (x \div a) * a + (x % a)
  BY SMT
<1> DEFINE p == x \div a
<1>3. p \in Int /\ p * a = q * a
  <2> HIDE DEF p
  <2>1. p * a \in Int /\ q * a \in Int
    BY <1>2, SMT DEF p
  <2> QED
    BY <1>1, <1>2, <2>1 DEF p
<1> HIDE DEF p
<1>4. (p - q) * a = 0
  BY <1>3, SMT
<1>5. p = q
  BY <1>3, <1>4, SMT
<1> QED
  BY <1>1, <1>5 DEF p

LEMMA FloorOf ==
  ASSUME NEW x \in Int, NEW a \in Nat \ {0}
  PROVE  /\ x \div a \in Int /\ x % a \in 0 .. a - 1
         /\ x = (x \div a) * a + (x % a)
<1>1. x \div a \in Int /\ x = (x \div a) * a + (x % a)
  BY SMT
<1> QED
  BY <1>1, Mod

LEMMA FloorTwice ==
  ASSUME NEW x \in Int, NEW a \in Nat \ {0}, NEW b \in Nat \ {0}
  PROVE  /\ a * b \in Nat \ {0}
         /\ (x \div a) \div b = x \div (a * b)
<1> DEFINE y == x \div a
           r == x % a
           q == y \div b
           s == y % b
<1>1. y \in Int /\ r \in 0 .. a - 1 /\ x = y * a + r
  BY FloorOf
<1> HIDE DEF y, r
<1>2. q \in Int /\ s \in 0 .. b - 1 /\ y = q * b + s
  BY <1>1, FloorOf
<1> HIDE DEF q, s
<1>3. a * b \in Nat \ {0}
  BY SMT
<1>4. y * a + r = q * (a * b) + (s * a + r)
  <2>1. (q * b + s) * a + r = q * (a * b) + (s * a + r)
    BY <1>1, <1>2, SMT
  <2> QED
    BY <1>2, <2>1
<1>5. s * a + r \in 0 .. (a * b) - 1
  <2>1. s \in Nat /\ b \in Nat /\ a \in Nat /\ s < b
    BY <1>2
  <2>2. s * a \in Nat /\ s * a + a <= b * a /\ b * a = a * b
    BY <2>1, Times
  <2> QED
    BY <1>1, <1>3, <2>2
<1> DEFINE m == a * b
           t == s * a + r
<1>6. m \in Nat \ {0} /\ t \in 0 .. m - 1 /\ x = q * m + t
  BY <1>1, <1>3, <1>4, <1>5
<1> HIDE DEF m, t
<1>7. x \div m = q
  BY <1>2, <1>6, Floor
<1> QED
  BY <1>3, <1>7 DEF q, y, m

LEMMA FloorShift ==
  ASSUME NEW x \in Int, NEW a \in Nat \ {0}, NEW y \in Int
  PROVE  /\ x + y * a \in Int
         /\ (x + y * a) \div a = (x \div a) + y
         /\ (x + y * a) % a = x % a
<1> DEFINE q == x \div a
           r == x % a
<1>1. q \in Int /\ r \in 0 .. a - 1 /\ x = q * a + r
  BY FloorOf
<1> HIDE DEF q, r
<1>2. (q * a + r) + y * a = (q + y) * a + r /\ q + y \in Int
  BY <1>1, SMT
<1>3. y * a \in Int
  BY SMT
<1> DEFINE z == x + y * a
<1>4. z \in Int /\ z = (q + y) * a + r
  BY <1>1, <1>2, <1>3
<1> HIDE DEF z
<1>5. z \div a = q + y /\ z % a = r
  BY <1>1, <1>2, <1>4, Floor
<1> QED
  BY <1>4, <1>5 DEF q, r, z

(* A digit more.                                                           *)
LEMMA PartSteps ==
  ASSUME NEW x \in Int
  PROVE  /\ Part(x, 0) = x
         /\ \A i \in 0 .. Size : Part(x, i) \in Int
         /\ \A i \in 0 .. Size - 1 :
              /\ Part(x, i + 1) = Part(x, i) \div Base
              /\ Part(x, i) = Part(x, i + 1) * Base + DigitOf(x, i)
              /\ DigitOf(x, i) \in 0 .. Base - 1
<1>1. Part(x, 0) = x
  <2>1. x \div 1 = x
    BY SMT
  <2> QED
    BY <2>1, FewPowers DEF Part
<1>2. ASSUME NEW i \in 0 .. Size PROVE Base ^ i \in Nat \ {0} /\ Part(x, i) \in Int
  <2>1. i \in 0 .. Size + 1 /\ 0 \in 0 .. Size + 1
    BY FewPowers
  <2>2. Base ^ i \in Nat \ {0}
    BY <2>1, Powers
  <2> QED
    BY Zenon, <2>2, FloorOf DEF Part
<1>3. ASSUME NEW i \in 0 .. Size - 1
      PROVE  /\ Part(x, i + 1) = Part(x, i) \div Base
             /\ Part(x, i) = Part(x, i + 1) * Base + DigitOf(x, i)
             /\ DigitOf(x, i) \in 0 .. Base - 1
  <2>1. /\ i \in 0 .. Size /\ i + 1 \in 0 .. Size + 1 /\ 1 \in 0 .. Size + 1
        /\ i \in 0 .. Size + 1 /\ Base \in Nat \ {0} /\ Base ^ 1 = Base
    BY FewPowers
  <2>2. Base ^ (i + 1) = Base ^ i * Base /\ Base ^ i \in Nat \ {0} /\ Part(x, i) \in Int
    BY <1>2, <2>1, PowerSum
  <2> DEFINE b == Base ^ i
  <2>3. (x \div b) \div Base = x \div (b * Base)
    <3> HIDE DEF b
    <3>1. b \in Nat \ {0}
      BY <2>2 DEF b
    <3> QED
      BY ZenonT(60), <2>1, <3>1, FloorTwice
  <2>4. Part(x, i + 1) = Part(x, i) \div Base
    BY <2>2, <2>3 DEF Part
  <2> HIDE DEF b
  <2> DEFINE p == Part(x, i)
  <2>5. p \in Int
    BY <2>2
  <2> HIDE DEF p
  <2>6. p = (p \div Base) * Base + (p % Base) /\ p % Base \in 0 .. Base - 1
    BY <2>1, <2>5, FloorOf
  <2> QED
    BY <2>4, <2>6 DEF p, DigitOf
<1> QED
  BY <1>1, <1>2, <1>3

(* Numbers that are Full apart are stored alike.                           *)
LEMMA StoredIs ==
  ASSUME NEW x \in Int
  PROVE  /\ W!Stored(x) = [i \in 0 .. Size - 1 |-> DigitOf(x, i)]
         /\ W!Stored(x) \in Row
<1>1. ASSUME NEW i \in 0 .. Size - 1
      PROVE  ((x % Base ^ Size) \div Base ^ i) % Base = DigitOf(x, i)
  <2> DEFINE b == Base ^ i
             c == Base ^ (Size - (i + 1))
             f == Base ^ Size
  <2>1. /\ i \in 0 .. Size + 1 /\ i + 1 \in 0 .. Size + 1 /\ 1 \in 0 .. Size + 1
        /\ Size - (i + 1) \in 0 .. Size + 1 /\ Size \in 0 .. Size + 1
        /\ (i + 1) + (Size - (i + 1)) = Size
        /\ Base \in Nat \ {0} /\ Base ^ 1 = Base
    BY FewPowers
  <2>2. /\ b \in Nat \ {0} /\ c \in Nat \ {0} /\ f \in Nat \ {0}
        /\ Base ^ (i + 1) = b * Base /\ f = Base ^ (i + 1) * c
    <3>1. Base ^ (i + 1) = Base ^ i * Base
      <4>1. i \in 0 .. Size + 1 /\ 1 \in 0 .. Size + 1 /\ i + 1 \in 0 .. Size + 1
        BY <2>1
      <4>2. Base ^ (i + 1) = Base ^ i * Base ^ 1
        BY <4>1, PowerSum
      <4> QED
        BY <2>1, <4>2
    <3>2. Base ^ Size = Base ^ (i + 1) * Base ^ (Size - (i + 1))
      BY <2>1, PowerSum
    <3>3. Base ^ i \in Nat \ {0} /\ Base ^ (Size - (i + 1)) \in Nat \ {0} /\ Base ^ Size \in Nat \ {0}
      BY <2>1, Powers
    <3> QED
      BY <3>1, <3>2, <3>3
  <2>3. f = (b * Base) * c
    BY <2>2
  <2> HIDE DEF b, c, f
  <2> DEFINE q == x \div f
             r == x % f
  <2>4. q \in Int /\ r \in Int /\ x = q * f + r
    <3>1. f \in Nat \ {0}
      BY <2>2
    <3>2. x \div f \in Int /\ x % f \in 0 .. f - 1 /\ x = (x \div f) * f + (x % f)
      BY <3>1, FloorOf
    <3> QED
      BY <3>2
  <2> HIDE DEF q, r
  <2>5. q * f = (q * c * Base) * b /\ q * c * Base \in Int /\ q * c \in Int
    <3>1. q * ((b * Base) * c) = (q * c * Base) * b /\ q * c * Base \in Int /\ q * c \in Int
      BY <2>1, <2>2, <2>4, SMT
    <3> QED
      BY <2>3, <3>1
  <2>6. x \div b = (r \div b) + q * c * Base /\ r \div b \in Int
    <3> DEFINE y == q * c * Base
    <3>1. y \in Int /\ x = r + y * b
      <4> DEFINE g == q * f
      <4>1. g \in Int /\ x = g + r
        BY <2>2, <2>4, SMT
      <4>2. g = y * b
        BY <2>5
      <4> HIDE DEF g, y
      <4>3. x = r + g
        BY <2>4, <4>1
      <4> QED
        BY <2>5, <4>2, <4>3 DEF y
    <3> HIDE DEF y
    <3>2. (r + y * b) \div b = (r \div b) + y
      BY Zenon, <2>2, <2>4, <3>1, FloorShift
    <3>3. r \div b \in Int
      BY <2>2, <2>4, FloorOf
    <3> QED
      BY <3>1, <3>2, <3>3 DEF y
  <2> DEFINE u == r \div b
             v == q * c
  <2>7. (u + v * Base) % Base = u % Base
    <3> HIDE DEF u, v
    <3>1. u \in Int /\ v \in Int
      BY <2>5, <2>6 DEF u, v
    <3> QED
      BY Zenon, <2>1, <3>1, FloorShift
  <2> QED
    BY <2>6, <2>7 DEF DigitOf, Part, b, r, f
<1>2. \A i \in 0 .. Size - 1 : DigitOf(x, i) \in 0 .. Base - 1
  BY PartSteps
<1>3. W!Stored(x) = [i \in 0 .. Size - 1 |-> DigitOf(x, i)]
  BY <1>1 DEF W!Stored, W!Places
<1> QED
  BY <1>2, <1>3 DEF Row

LEMMA WrapStored ==
  ASSUME NEW x \in Int
  PROVE  Wrap(x) \in Int /\ W!Stored(Wrap(x)) = W!Stored(x)
<1>1. Full \in Nat \ {0} /\ Half \in Int
  <2>1. Size \in 0 .. Size + 1
    BY FewPowers
  <2>2. Full \in Nat \ {0}
    BY <2>1, Powers DEF Full
  <2> QED
    BY <2>2 DEF Half
<1> DEFINE y == x + Half
           q == y \div Full
           r == y % Full
<1>2. y \in Int
  BY <1>1
<1> HIDE DEF y
<1>3. q \in Int /\ r \in Int /\ y = q * Full + r
  BY <1>1, <1>2, FloorOf
<1> HIDE DEF q, r
<1>4. q * Full \in Int /\ (- q) * Full = - (q * Full)
  BY <1>1, <1>3, SMT
<1>5. Wrap(x) = x + (- q) * Full /\ - q \in Int
  <2> DEFINE g == q * Full
             h == (- q) * Full
  <2>1. g \in Int /\ h = - g /\ y = g + r
    BY <1>3, <1>4
  <2> HIDE DEF g, h
  <2>2. Wrap(x) = r - Half
    BY Zenon DEF Wrap, y, r
  <2>3. y = x + Half
    BY DEF y
  <2>4. Wrap(x) = x + h
    BY <1>1, <1>3, <2>1, <2>2, <2>3
  <2> QED
    BY <1>3, <2>4 DEF h
<1>6. (x + (- q) * Full) % Full = x % Full /\ x + (- q) * Full \in Int
  BY Zenon, <1>1, <1>5, FloorShift
<1>7. Wrap(x) % Full = x % Full /\ Wrap(x) \in Int
  BY <1>5, <1>6
<1> QED
  BY <1>7 DEF W!Stored, Full

(* Two digits, a word.                                                     *)
WordAt(x, i) == Part(x, i) % W!WordBase

LEMMA WordOf ==
  ASSUME NEW x \in Int, NEW i \in 0 .. Size - 2
  PROVE  /\ W!WordBase \in Nat \ {0} /\ Part(x, i) \in Int /\ Part(x, i + 2) \in Int
         /\ WordAt(x, i) \in 0 .. W!WordBase - 1
         /\ WordAt(x, i) = DigitOf(x, i) + Base * DigitOf(x, i + 1)
         /\ Part(x, i + 2) = Part(x, i) \div W!WordBase
         /\ Part(x, i) = Part(x, i + 2) * W!WordBase + WordAt(x, i)
         /\ WordAt(x, i) % Base = DigitOf(x, i)
         /\ (WordAt(x, i) \div Base) % Base = DigitOf(x, i + 1)
<1> DEFINE p == Part(x, i)
           q == Part(x, i + 1)
           r == Part(x, i + 2)
           c == DigitOf(x, i)
           d == DigitOf(x, i + 1)
<1>1. /\ i \in 0 .. Size - 1 /\ i + 1 \in 0 .. Size - 1 /\ (i + 1) + 1 = i + 2
      /\ Base \in Nat \ {0} /\ W!WordBase = Base * Base /\ Base * Base \in Nat \ {0}
  <2>1. Base ^ 2 = Base * Base /\ Base ^ 2 \in Nat \ {0}
    BY FewPowers
  <2> QED
    BY <2>1, FewPowers DEF W!WordBase
<1>2. /\ p \in Int /\ q \in Int /\ r \in Int /\ c \in 0 .. Base - 1 /\ d \in 0 .. Base - 1
      /\ p = q * Base + c /\ q = r * Base + d
  <2>1. /\ i \in 0 .. Size /\ i + 1 \in 0 .. Size /\ i + 2 \in 0 .. Size
    BY FewPowers
  <2>2. p \in Int /\ q \in Int /\ r \in Int
    BY Zenon, <2>1, PartSteps
  <2>3. p = q * Base + c /\ c \in 0 .. Base - 1
    BY <1>1, PartSteps
  <2>4. Part(x, i + 1) = Part(x, (i + 1) + 1) * Base + DigitOf(x, i + 1)
        /\ DigitOf(x, i + 1) \in 0 .. Base - 1
    BY <1>1, PartSteps
  <2> QED
    BY <1>1, <2>2, <2>3, <2>4
<1> HIDE DEF p, q, r, c, d
<1> DEFINE w == c + Base * d
           b == Base * Base
<1>3. p = r * b + w
  <2>1. (r * Base + d) * Base + c = r * (Base * Base) + (c + Base * d)
    BY <1>1, <1>2, SMT
  <2> QED
    BY <1>2, <2>1
<1>4. w \in 0 .. b - 1 /\ w = d * Base + c
  <2>1. d \in Nat /\ c \in Nat /\ Base \in Nat /\ d < Base /\ c < Base
    BY <1>1, <1>2
  <2>2. d * Base \in Nat /\ Base * d = d * Base /\ d * Base + Base <= Base * Base
    BY <2>1, Times
  <2> QED
    BY <1>1, <2>1, <2>2
<1> HIDE DEF w, b
<1>5. p \div b = r /\ p % b = w
  <2>1. b \in Nat \ {0}
    BY <1>1 DEF b
  <2> QED
    BY <1>2, <1>3, <1>4, <2>1, Floor
<1>6. w % Base = c /\ w \div Base = d
  <2>1. w \in Int /\ d \in Int
    BY <1>2, <1>4, <1>1 DEF b
  <2> QED
    BY <1>1, <1>2, <1>4, <2>1, Floor
<1>7. d % Base = d
  <2>1. d \in Int /\ d \in 0 .. Base - 1 /\ Base \in Nat \ {0}
    BY <1>1, <1>2
  <2> QED
    BY Zenon, <2>1, Mod
<1>8. WordAt(x, i) = w
  BY <1>1, <1>5 DEF p, b, WordAt
<1>9. W!WordBase = b
  BY <1>1 DEF b
<1>10. w \in 0 .. W!WordBase - 1 /\ p = r * W!WordBase + w /\ r = p \div W!WordBase
  BY <1>3, <1>4, <1>5, <1>9
<1>11. w = c + Base * d
  BY DEF w
<1> QED
  BY <1>1, <1>2, <1>6, <1>7, <1>8, <1>10, <1>11 DEF p, r, c, d

(* The row in which the digits of t have replaced those of x up to i.      *)
Mix(t, x, i) ==
  [p \in 0 .. Size - 1 |-> IF p < i THEN DigitOf(t, p) ELSE DigitOf(x, p)]

LEMMA MixEnds ==
  ASSUME NEW t \in Int, NEW x \in Int
  PROVE  /\ Mix(t, x, 0) = W!Stored(x) /\ Mix(t, x, Size) = W!Stored(t)
         /\ \A i \in Nat : Mix(t, x, i) \in Row
<1>1. \A p \in 0 .. Size - 1 : /\ p < Size /\ ~(p < 0)
                               /\ DigitOf(x, p) \in 0 .. Base - 1
                               /\ DigitOf(t, p) \in 0 .. Base - 1
  <2> SUFFICES ASSUME NEW p \in 0 .. Size - 1
               PROVE  /\ p < Size /\ ~(p < 0)
                      /\ DigitOf(x, p) \in 0 .. Base - 1
                      /\ DigitOf(t, p) \in 0 .. Base - 1
    OBVIOUS
  <2>1. DigitOf(x, p) \in 0 .. Base - 1
    BY PartSteps
  <2>2. DigitOf(t, p) \in 0 .. Base - 1
    BY PartSteps
  <2> QED
    BY <2>1, <2>2, FewPowers
<1>2. /\ W!Stored(x) = [i \in 0 .. Size - 1 |-> DigitOf(x, i)]
      /\ W!Stored(t) = [i \in 0 .. Size - 1 |-> DigitOf(t, i)]
  BY StoredIs
<1> QED
  BY <1>1, <1>2 DEF Mix, Row

LEMMA StoredWord ==
  ASSUME NEW x \in Int, NEW i \in 0 .. Size - 2
  PROVE  W!Word(W!Stored(x), i) = WordAt(x, i)
<1>1. i \in 0 .. Size - 1 /\ i + 1 \in 0 .. Size - 1
  BY FewPowers
<1>2. W!Stored(x)[i] = DigitOf(x, i) /\ W!Stored(x)[i + 1] = DigitOf(x, i + 1)
  BY Zenon, <1>1, StoredIs
<1>3. WordAt(x, i) = DigitOf(x, i) + Base * DigitOf(x, i + 1)
  BY WordOf
<1> QED
  BY <1>2, <1>3, Zenon DEF W!Word

LEMMA MixWord ==
  ASSUME NEW t \in Int, NEW x \in Int, NEW i \in 0 .. Size - 2
  PROVE  /\ W!Word(Mix(t, x, i), i) = WordAt(x, i)
         /\ W!PutWord(Mix(t, x, i), i, WordAt(t, i)) = Mix(t, x, i + 2)
<1>1. i \in 0 .. Size - 1 /\ i + 1 \in 0 .. Size - 1 /\ ~(i < i) /\ ~(i + 1 < i) /\ i # i + 1
  BY FewPowers
<1>2. Mix(t, x, i)[i] = DigitOf(x, i) /\ Mix(t, x, i)[i + 1] = DigitOf(x, i + 1)
  BY <1>1 DEF Mix
<1>3. WordAt(x, i) = DigitOf(x, i) + Base * DigitOf(x, i + 1)
  BY WordOf
<1>4. WordAt(t, i) % Base = DigitOf(t, i) /\ (WordAt(t, i) \div Base) % Base = DigitOf(t, i + 1)
  BY Zenon, WordOf
<1> DEFINE c == DigitOf(t, i)
           d == DigitOf(t, i + 1)
<1>5. W!PutWord(Mix(t, x, i), i, WordAt(t, i)) = [Mix(t, x, i) EXCEPT ![i] = c, ![i + 1] = d]
  BY <1>4, Zenon DEF W!PutWord
<1>6. [Mix(t, x, i) EXCEPT ![i] = c, ![i + 1] = d] = Mix(t, x, i + 2)
  <2>1. \A p \in 0 .. Size - 1 : p < i + 2 <=> (p < i \/ p = i \/ p = i + 1)
    BY <1>1
  <2> QED
    BY Zenon, <1>1, <2>1 DEF Mix
<1> QED
  BY <1>2, <1>3, <1>5, <1>6, Zenon DEF W!Word
-----------------------------------------------------------------------------
(* Loops over a row, which are folds.                                      *)

LEMMA MaxOf ==
  ASSUME NEW n \in Nat, NEW t, t \subseteq 1 .. n, t # {}
  PROVE  /\ W!Max(t) \in t /\ \A y \in t : y <= W!Max(t)
         /\ \A m \in t : (\A y \in t : y <= m) => W!Max(t) = m
<1>1. PICK g \in t : \A y \in t : y <= g
  <2>1. t \subseteq 0 .. n
    OBVIOUS
  <2> QED
    BY Zenon, <2>1, Greatest
<1>2. \A y \in t : y \in Int
  OBVIOUS
<1>3. \E x \in t : \A y \in t : x >= y
  BY <1>1, <1>2
<1>4. W!Max(t) \in t /\ \A y \in t : W!Max(t) >= y
  BY Zenon, <1>3 DEF W!Max
<1>5. \A x, y \in t : (x >= y <=> y <= x) /\ (x <= y /\ y <= x => x = y)
  BY <1>2
<1> QED
  BY Zenon, <1>4, <1>5

(* The function that a fold of b over n elements by g is defined by.       *)
IsFold(f, n, D, b, g) ==
  /\ f = [t \in SUBSET (1 .. n) |->
            IF t = {} THEN b ELSE g[<<f[t \ {W!Max(t)}], W!Max(t)>>]]
  /\ \A t \in SUBSET (1 .. n) : f[t] \in D

LEMMA FoldExists ==
  ASSUME NEW n \in Nat, NEW D, NEW b \in D, NEW g \in [D \X (1 .. n) -> D]
  PROVE  \E f : IsFold(f, n, D, b, g)
<1> DEFINE Is(f, m) ==
             /\ f = [t \in SUBSET (1 .. m) |->
                       IF t = {} THEN b ELSE g[<<f[t \ {W!Max(t)}], W!Max(t)>>]]
             /\ \A t \in SUBSET (1 .. m) : f[t] \in D
           S == {m \in Nat : m <= n => \E f : Is(f, m)}
<1>1. 0 \in S
  <2> DEFINE f == [t \in SUBSET (1 .. 0) |-> b]
  <2>1. SUBSET (1 .. 0) = {{}}
    OBVIOUS
  <2>2. f = [t \in SUBSET (1 .. 0) |->
               IF t = {} THEN b ELSE g[<<f[t \ {W!Max(t)}], W!Max(t)>>]]
    BY <2>1
  <2>3. \A t \in SUBSET (1 .. 0) : f[t] \in D
    OBVIOUS
  <2> HIDE DEF f
  <2>4. Is(f, 0)
    BY <2>2, <2>3
  <2> HIDE DEF Is
  <2> QED
    BY <2>4
<1>2. ASSUME NEW m \in Nat, m \in S PROVE m + 1 \in S
  <2> HIDE DEF Is
  <2> SUFFICES ASSUME m + 1 <= n PROVE \E f : Is(f, m + 1)
    OBVIOUS
  <2>1. PICK f : Is(f, m)
    BY <1>2
  <2>2. /\ f = [t \in SUBSET (1 .. m) |->
                  IF t = {} THEN b ELSE g[<<f[t \ {W!Max(t)}], W!Max(t)>>]]
        /\ \A t \in SUBSET (1 .. m) : f[t] \in D
    BY Zenon, <2>1 DEF Is
  <2> DEFINE M == m + 1
             h == [t \in SUBSET (1 .. M) |->
                     IF M \in t THEN g[<<f[t \ {M}], M>>] ELSE f[t]]
  <2>3. M \in 1 .. n /\ M \in Nat
    OBVIOUS
  <2>4. ASSUME NEW t \in SUBSET (1 .. M)
        PROVE  /\ h[t] = (IF t = {} THEN b ELSE g[<<h[t \ {W!Max(t)}], W!Max(t)>>])
               /\ h[t] \in D
    <3>1. h[t] = IF M \in t THEN g[<<f[t \ {M}], M>>] ELSE f[t]
      OBVIOUS
    <3>2. CASE M \in t
      <4>1. t # {} /\ t \ {M} \in SUBSET (1 .. m) /\ t \ {M} \in SUBSET (1 .. M) /\ M \notin t \ {M}
            /\ \A y \in t : y <= M
        BY <3>2
      <4>2. W!Max(t) = M
        BY Zenon, <2>3, <3>2, <4>1, MaxOf
      <4>3. h[t \ {M}] = f[t \ {M}]
        BY <4>1
      <4> HIDE DEF h, M
      <4>4. h[t] = g[<<h[t \ {M}], M>>] /\ h[t \ {M}] \in D
        BY Zenon, <2>2, <3>1, <3>2, <4>1, <4>3
      <4>5. <<h[t \ {M}], M>> \in D \X (1 .. n)
        BY <2>3, <4>4
      <4> QED
        BY <4>1, <4>2, <4>4, <4>5
    <3>3. CASE M \notin t
      <4>1. t \in SUBSET (1 .. m)
        BY <3>3
      <4>2. CASE t = {}
        BY <2>2, <3>1, <3>3, <4>1, <4>2
      <4>3. CASE t # {}
        <5>1. W!Max(t) \in t
          BY Zenon, <2>3, <4>3, MaxOf
        <5> DEFINE x == W!Max(t)
        <5>2. t \ {x} \in SUBSET (1 .. M) /\ M \notin t \ {x} /\ t \ {x} \in SUBSET (1 .. m)
          BY Zenon, <3>3, <4>1
        <5> HIDE DEF x
        <5>3. h[t \ {x}] = f[t \ {x}]
          BY <5>2
        <5>4. f[t] = g[<<f[t \ {x}], x>>] /\ f[t] \in D
          BY Zenon, <2>2, <4>1, <4>3 DEF x
        <5> HIDE DEF h
        <5> QED
          BY Zenon, <3>1, <3>3, <4>3, <5>3, <5>4 DEF x
      <4> QED
        BY <4>2, <4>3
    <3> QED
      BY <3>2, <3>3
  <2>5. h = [t \in SUBSET (1 .. M) |->
               IF t = {} THEN b ELSE g[<<h[t \ {W!Max(t)}], W!Max(t)>>]]
    <3>1. DOMAIN h = SUBSET (1 .. M) /\ h = [t \in SUBSET (1 .. M) |-> h[t]]
      OBVIOUS
    <3> HIDE DEF h, M
    <3> QED
      BY Zenon, <2>4, <3>1
  <2>6. Is(h, M)
    <3> HIDE DEF h, M
    <3> QED
      BY Zenon, <2>4, <2>5 DEF Is
  <2> QED
    <3> HIDE DEF h
    <3> QED
      BY <2>6
<1>3. n \in S
  <2> HIDE DEF S
  <2> QED
    BY <1>1, <1>2, Counting
<1>4. \E f : Is(f, n)
  <2> HIDE DEF Is
  <2> QED
    BY <1>3
<1> QED
  BY Zenon, <1>4 DEF IsFold

(* Along the beginnings of a row such a function is what its elements make *)
(* of it one by one.                                                       *)
LEMMA FoldSteps ==
  ASSUME NEW n \in Nat, NEW f, NEW h, f[{}] = h[0],
         \A k \in 1 .. n : f[1 .. k - 1] = h[k - 1] => f[1 .. k] = h[k]
  PROVE  f[1 .. n] = h[n]
<1> DEFINE S == {k \in Nat : k <= n => f[1 .. k] = h[k]}
<1>1. 0 \in S
  <2>1. 1 .. 0 = {}
    OBVIOUS
  <2> QED
    BY <2>1
<1>2. ASSUME NEW k \in Nat, k \in S PROVE k + 1 \in S
  <2> SUFFICES ASSUME k + 1 <= n PROVE f[1 .. k + 1] = h[k + 1]
    OBVIOUS
  <2>1. k + 1 \in 1 .. n /\ (k + 1) - 1 = k /\ k <= n
    OBVIOUS
  <2>2. f[1 .. k] = h[k]
    BY <1>2, <2>1
  <2>3. f[1 .. (k + 1) - 1] = h[(k + 1) - 1]
    BY <2>1, <2>2
  <2> QED
    BY <2>1, <2>3
<1>3. n \in S
  <2> HIDE DEF S
  <2> QED
    BY Zenon, <1>1, <1>2, Counting
<1> QED
  BY <1>3

LEMMA Beginnings ==
  ASSUME NEW n \in Nat, NEW k \in 1 .. n
  PROVE  /\ 1 .. k \in SUBSET (1 .. n) /\ 1 .. k # {} /\ W!Max(1 .. k) = k
         /\ (1 .. k) \ {k} = 1 .. k - 1
<1>1. 1 .. k \subseteq 1 .. n /\ k \in 1 .. k /\ \A y \in 1 .. k : y <= k
  OBVIOUS
<1>2. W!Max(1 .. k) = k
  <2>1. 1 .. k # {}
    BY <1>1
  <2> DEFINE t == 1 .. k
  <2> HIDE DEF t
  <2> QED
    BY Zenon, <1>1, <2>1, MaxOf DEF t
<1>3. (1 .. k) \ {k} = 1 .. k - 1
  OBVIOUS
<1> QED
  BY <1>1, <1>2, <1>3

(* What the words of a row are put in, and what the loops carry.           *)
Words == 0 .. Size - 2
State == [d : Row, v : Int]

LEMMA WordsIn ==
  /\ \A d \in Row, i \in Words : W!Word(d, i) \in Int
  /\ \A d \in Row, i \in Words, w \in Int : W!PutWord(d, i, w) \in Row
  /\ W!WordBase \in Nat \ {0}
  /\ DOMAIN W!WordPlaces = 1 .. Size \div 2 /\ Size \div 2 \in Nat /\ 2 * (Size \div 2) = Size
  /\ \A k \in 1 .. Size \div 2 : /\ W!WordPlaces[k] = 2 * (k - 1) /\ 2 * (k - 1) \in Words
                                 /\ 2 * (k - 1) + 2 = 2 * k
<1>1. Base \in Nat \ {0} /\ Size \in Nat /\ Size % 4 = 0 /\ W!WordBase \in Nat \ {0}
  <2>1. 0 \in 0 .. Size - 2 /\ 0 \in Int
    BY FewPowers
  <2> QED
    BY <2>1, FewPowers, WordOf, DivisionAssumption
<1>2. ASSUME NEW d \in Row, NEW i \in Words PROVE W!Word(d, i) \in Int
  <2>1. i \in 0 .. Size - 1 /\ i + 1 \in 0 .. Size - 1
    BY <1>1 DEF Words
  <2>2. d[i] \in Int /\ d[i + 1] \in Int
    BY <1>1, <2>1 DEF Row
  <2> DEFINE x == d[i]
             y == d[i + 1]
  <2>3. W!Word(d, i) = x + Base * y
    BY Zenon DEF W!Word
  <2> HIDE DEF x, y
  <2>4. x + Base * y \in Int
    BY <1>1, <2>2, SMT DEF x, y
  <2> QED
    BY <2>3, <2>4
<1>3. ASSUME NEW d \in Row, NEW i \in Words, NEW w \in Int PROVE W!PutWord(d, i, w) \in Row
  <2>1. w % Base \in 0 .. Base - 1 /\ w \div Base \in Int
    BY <1>1, FloorOf
  <2>2. (w \div Base) % Base \in 0 .. Base - 1
    BY <1>1, <2>1, FloorOf
  <2> QED
    BY Zenon, <2>1, <2>2 DEF Row, W!PutWord
<1>4. /\ Size \div 2 \in Nat /\ 2 * (Size \div 2) = Size
  BY <1>1
<1>5. DOMAIN W!WordPlaces = 1 .. Size \div 2
  BY DEF W!WordPlaces
<1>6. ASSUME NEW k \in 1 .. Size \div 2
      PROVE  /\ W!WordPlaces[k] = 2 * (k - 1) /\ 2 * (k - 1) \in Words
             /\ 2 * (k - 1) + 2 = 2 * k
  BY <1>1, <1>4 DEF W!WordPlaces, Words
<1> QED
  BY <1>1, <1>2, <1>3, <1>4, <1>5, <1>6

-----------------------------------------------------------------------------
(* Addition and subtraction.                                               *)

(* A step of bch_add_arr.                                                  *)
AddStep(a, sub, st, i) ==
  LET v == st.v + W!Word(st.d, i)
           + (IF sub THEN W!WordBase - 1 - W!Word(a, i) ELSE W!Word(a, i))
  IN [d |-> W!PutWord(st.d, i, v % W!WordBase), v |-> v \div W!WordBase]

LEMMA AddFold ==
  ASSUME NEW a \in Row, NEW sub \in BOOLEAN, NEW h,
         NEW d \in Row, h[0] = [d |-> d, v |-> IF sub THEN 1 ELSE 0],
         \A k \in 1 .. Size \div 2 : AddStep(a, sub, h[k - 1], 2 * (k - 1)) = h[k]
  PROVE  W!AddArr(d, a, sub) = h[Size \div 2].d
<1> DEFINE n == Size \div 2
           b == [d |-> d, v |-> IF sub THEN 1 ELSE 0]
           Is(f) == f = [t \in SUBSET DOMAIN W!WordPlaces |->
                           IF t = {} THEN b
                           ELSE AddStep(a, sub, f[t \ {W!Max(t)}], W!WordPlaces[W!Max(t)])]
<1>1. ASSUME NEW st \in State, NEW k \in 1 .. n
      PROVE  AddStep(a, sub, st, W!WordPlaces[k]) \in State
  <2> DEFINE i == W!WordPlaces[k]
             v == st.v + W!Word(st.d, i)
                  + (IF sub THEN W!WordBase - 1 - W!Word(a, i) ELSE W!Word(a, i))
  <2>1. st.d \in Row /\ st.v \in Int /\ i \in Words
    BY WordsIn DEF State
  <2>2. W!Word(st.d, i) \in Int /\ W!Word(a, i) \in Int /\ W!WordBase \in Nat \ {0}
    BY Zenon, <2>1, WordsIn
  <2>3. v \in Int
    BY <2>1, <2>2
  <2> HIDE DEF v, i
  <2>4. v % W!WordBase \in Int /\ v \div W!WordBase \in Int
    BY <2>2, <2>3, FloorOf
  <2>5. W!PutWord(st.d, i, v % W!WordBase) \in Row
    BY Zenon, <2>1, <2>4, WordsIn
  <2> QED
    BY <2>4, <2>5 DEF State, AddStep, v, i
<1>2. \E f : Is(f)
  <2> DEFINE g == [x \in State \X (1 .. n) |-> AddStep(a, sub, x[1], W!WordPlaces[x[2]])]
  <2>1. n \in Nat /\ DOMAIN W!WordPlaces = 1 .. n
    BY WordsIn
  <2>2. b \in State
    BY DEF State
  <2>3. g \in [State \X (1 .. n) -> State]
    BY <1>1
  <2>4. PICK f : /\ f = [t \in SUBSET (1 .. n) |->
                           IF t = {} THEN b ELSE g[<<f[t \ {W!Max(t)}], W!Max(t)>>]]
                 /\ \A t \in SUBSET (1 .. n) : f[t] \in State
    <3> HIDE DEF g, b, n
    <3>1. \E f : IsFold(f, n, State, b, g)
      BY Zenon, <2>1, <2>2, <2>3, FoldExists
    <3> QED
      BY <3>1, Zenon DEF IsFold
  <2>5. ASSUME NEW t \in SUBSET (1 .. n), t # {}
        PROVE  g[<<f[t \ {W!Max(t)}], W!Max(t)>>]
                 = AddStep(a, sub, f[t \ {W!Max(t)}], W!WordPlaces[W!Max(t)])
    <3>1. W!Max(t) \in t
      BY Zenon, <2>1, <2>5, MaxOf
    <3>2. W!Max(t) \in 1 .. n /\ f[t \ {W!Max(t)}] \in State
      BY Zenon, <2>4, <3>1
    <3> QED
      BY <3>2
  <2>6. Is(f)
    <3> HIDE DEF g, b, n
    <3> QED
      BY Zenon, <2>1, <2>4, <2>5
  <2> QED
    <3> HIDE DEF Is
    <3> QED
      BY <2>6
<1>3. PICK f : Is(f) /\ W!AddArr(d, a, sub) = f[DOMAIN W!WordPlaces].d
  <2>1. Is(CHOOSE f : Is(f))
    <3> HIDE DEF Is
    <3> QED
      BY <1>2
  <2> QED
    BY <2>1, Zenon DEF W!AddArr, AddStep, W!FoldLeft, W!MapThenFoldSet
<1>4. f[{}] = h[0]
  BY <1>3
<1>5. ASSUME NEW k \in 1 .. n, f[1 .. k - 1] = h[k - 1] PROVE f[1 .. k] = h[k]
  <2>1. /\ n \in Nat /\ DOMAIN W!WordPlaces = 1 .. n
        /\ 1 .. k \in SUBSET (1 .. n) /\ 1 .. k # {} /\ W!Max(1 .. k) = k
        /\ (1 .. k) \ {k} = 1 .. k - 1 /\ W!WordPlaces[k] = 2 * (k - 1)
    BY Zenon, WordsIn, Beginnings
  <2>2. f[1 .. k] = AddStep(a, sub, f[1 .. k - 1], 2 * (k - 1))
    <3> DEFINE t == 1 .. k
    <3>1. t \in SUBSET DOMAIN W!WordPlaces /\ t # {}
      BY <2>1
    <3>2. f[t] = AddStep(a, sub, f[t \ {W!Max(t)}], W!WordPlaces[W!Max(t)])
      <4> HIDE DEF t, b
      <4> QED
        BY Zenon, <1>3, <3>1
    <3> QED
      BY Zenon, <2>1, <3>2
  <2> QED
    BY <1>5, <2>2 DEF n
<1>6. f[1 .. n] = h[n]
  <2>1. n \in Nat
    BY WordsIn
  <2> HIDE DEF n, Is
  <2> QED
    BY <1>4, <1>5, <2>1, FoldSteps
<1> QED
  BY Zenon, <1>3, <1>6, WordsIn

(* A carry is what the sum has above a place and the parts have not.       *)
LEMMA Carry ==
  ASSUME NEW w \in Nat \ {0}, NEW T \in Int, NEW X1 \in Int, NEW Z1 \in Int,
         NEW a \in Int, NEW c \in Int
  PROVE  LET v == (T - (X1 * w + a) - (Z1 * w + c)) + a + c
         IN v \in Int /\ v % w = T % w /\ v \div w = (T \div w) - X1 - Z1
<1> DEFINE y == - (X1 + Z1)
<1>1. y \in Int /\ y = - X1 - Z1
  OBVIOUS
<1>2. (T - (X1 * w + a) - (Z1 * w + c)) + a + c = T + y * w
  BY SMT
<1>3. T \div w \in Int
  BY FloorOf
<1> HIDE DEF y
<1>4. T + y * w \in Int /\ (T + y * w) \div w = (T \div w) + y /\ (T + y * w) % w = T % w
  BY ZenonT(60), <1>1, FloorShift
<1> DEFINE q == T \div w
<1>5. q + y = q - X1 - Z1
  <2> HIDE DEF q
  <2>1. q \in Int
    BY <1>3 DEF q
  <2> QED
    BY <1>1, <2>1
<1> QED
  BY <1>2, <1>4, <1>5

(* The states of the addition of z and a carry to x, of which t comes.      *)
Carried(t, x, z, i) == Part(t, i) - Part(x, i) - Part(z, i)

Summed(t, x, z, k) == [d |-> Mix(t, x, 2 * k), v |-> Carried(t, x, z, 2 * k)]

LEMMA SummedEnds ==
  ASSUME NEW x \in Int, NEW z \in Int, NEW s \in Int
  PROVE  /\ Summed((x + z) + s, x, z, 0) = [d |-> W!Stored(x), v |-> s]
         /\ Summed((x + z) + s, x, z, Size \div 2).d = W!Stored((x + z) + s)
<1> DEFINE t == (x + z) + s
<1>1. t \in Int
  OBVIOUS
<1>2. Carried(t, x, z, 0) = s
  <2>1. Part(t, 0) = t /\ Part(x, 0) = x /\ Part(z, 0) = z
    <3> HIDE DEF t
    <3> QED
      BY <1>1, PartSteps
  <2> QED
    BY <2>1 DEF Carried
<1> HIDE DEF t
<1>3. 2 * 0 = 0 /\ 2 * (Size \div 2) = Size
  BY WordsIn
<1>4. Mix(t, x, 0) = W!Stored(x) /\ Mix(t, x, Size) = W!Stored(t)
  BY <1>1, MixEnds
<1>5. Summed(t, x, z, 0) = [d |-> W!Stored(x), v |-> s]
  BY <1>2, <1>3, <1>4 DEF Summed
<1>6. Summed(t, x, z, Size \div 2).d = W!Stored(t)
  BY <1>3, <1>4 DEF Summed
<1> QED
  BY <1>5, <1>6 DEF t

LEMMA CarriedOn ==
  ASSUME NEW x \in Int, NEW z \in Int, NEW t \in Int, NEW i \in Words
  PROVE  LET u == Carried(t, x, z, i) + WordAt(x, i) + WordAt(z, i)
         IN /\ Carried(t, x, z, i) \in Int /\ WordAt(x, i) \in Int /\ WordAt(z, i) \in Int
            /\ u % W!WordBase = WordAt(t, i) /\ u \div W!WordBase = Carried(t, x, z, i + 2)
<1> DEFINE w == W!WordBase
           X1 == Part(x, i + 2)
           Z1 == Part(z, i + 2)
           T == Part(t, i)
           e == WordAt(x, i)
           c == WordAt(z, i)
           u == (T - (X1 * w + e) - (Z1 * w + c)) + e + c
<1>1. Part(x, i) = X1 * w + e /\ X1 \in Int /\ e \in 0 .. w - 1 /\ w \in Nat \ {0}
  BY Zenon, WordOf DEF Words
<1>2. Part(z, i) = Z1 * w + c /\ Z1 \in Int /\ c \in 0 .. w - 1
  BY Zenon, WordOf DEF Words
<1>3. T \in Int /\ Part(t, i + 2) = T \div w
  BY Zenon, WordOf DEF Words
<1>4. WordAt(t, i) = T % w
  BY DEF WordAt
<1>5. e \in Int /\ c \in Int
  BY <1>1, <1>2
<1>6. u % w = T % w /\ u \div w = (T \div w) - X1 - Z1
  <2> HIDE DEF X1, Z1, T, e, c, w
  <2> QED
    BY <1>1, <1>2, <1>3, <1>5, Carry
<1>7. Part(x, i) \in Int /\ Part(z, i) \in Int
  BY Zenon, WordOf DEF Words
<1>8. Carried(t, x, z, i) + e + c = u /\ Carried(t, x, z, i) \in Int
  BY <1>1, <1>2, <1>3, <1>5, <1>7 DEF Carried
<1>9. u \div w = Carried(t, x, z, i + 2)
  BY <1>3, <1>6 DEF Carried
<1> HIDE DEF u, T, X1, Z1
<1> QED
  BY <1>4, <1>5, <1>6, <1>8, <1>9

LEMMA AddSteps ==
  ASSUME NEW x \in Int, NEW z \in Int, NEW t \in Int, NEW a, NEW sub,
         NEW k \in 1 .. Size \div 2,
         (IF sub THEN W!WordBase - 1 - W!Word(a, 2 * (k - 1)) ELSE W!Word(a, 2 * (k - 1)))
           = WordAt(z, 2 * (k - 1))
  PROVE  AddStep(a, sub, Summed(t, x, z, k - 1), 2 * (k - 1)) = Summed(t, x, z, k)
<1> DEFINE i == 2 * (k - 1)
           st == Summed(t, x, z, k - 1)
           w == W!WordBase
           v == Carried(t, x, z, i)
           e == WordAt(x, i)
           c == WordAt(z, i)
<1>1. i \in Words /\ i + 2 = 2 * k
  BY WordsIn
<1>2. st.d = Mix(t, x, i) /\ st.v = v
  BY DEF Summed
<1>3. Summed(t, x, z, k) = [d |-> Mix(t, x, i + 2), v |-> Carried(t, x, z, i + 2)]
  BY <1>1, Zenon DEF Summed
<1>4. (IF sub THEN w - 1 - W!Word(a, i) ELSE W!Word(a, i)) = c
  OBVIOUS
<1> HIDE DEF i, st
<1>5. /\ W!Word(Mix(t, x, i), i) = e
      /\ W!PutWord(Mix(t, x, i), i, WordAt(t, i)) = Mix(t, x, i + 2)
  BY <1>1, MixWord DEF Words
<1>6. (v + e + c) % w = WordAt(t, i) /\ (v + e + c) \div w = Carried(t, x, z, i + 2)
  BY <1>1, CarriedOn
<1> HIDE DEF v, e, c, w
<1>7. AddStep(a, sub, st, i)
        = [d |-> W!PutWord(st.d, i, (v + e + c) % w), v |-> (v + e + c) \div w]
  BY <1>2, <1>4, <1>5, Zenon DEF AddStep, w
<1>8. AddStep(a, sub, st, i) = [d |-> Mix(t, x, i + 2), v |-> Carried(t, x, z, i + 2)]
  BY <1>2, <1>5, <1>6, <1>7, Zenon
<1> QED
  BY <1>3, <1>8, Zenon DEF st, i

LEMMA AddsUp ==
  ASSUME NEW x \in Int, NEW z \in Int, NEW a \in Row, NEW sub \in BOOLEAN,
         \A i \in Words :
           (IF sub THEN W!WordBase - 1 - W!Word(a, i) ELSE W!Word(a, i)) = WordAt(z, i)
  PROVE  W!AddArr(W!Stored(x), a, sub) = W!Stored((x + z) + IF sub THEN 1 ELSE 0)
<1> DEFINE s == IF sub THEN 1 ELSE 0
           t == (x + z) + s
           n == Size \div 2
           h == [k \in 0 .. n |-> Summed(t, x, z, k)]
<1>1. s \in Int /\ t \in Int
  OBVIOUS
<1>2. Summed(t, x, z, 0) = [d |-> W!Stored(x), v |-> s] /\ Summed(t, x, z, n).d = W!Stored(t)
  <2> HIDE DEF s
  <2> QED
    BY Zenon, <1>1, SummedEnds
<1>3. n \in Nat
  BY WordsIn
<1> HIDE DEF t
<1>4. ASSUME NEW k \in 1 .. n PROVE AddStep(a, sub, h[k - 1], 2 * (k - 1)) = h[k]
  <2>1. h[k - 1] = Summed(t, x, z, k - 1) /\ h[k] = Summed(t, x, z, k)
    BY <1>3
  <2>2. 2 * (k - 1) \in Words
    BY WordsIn
  <2> HIDE DEF h
  <2> QED
    BY <1>1, <2>1, <2>2, AddSteps
<1>5. h[0] = [d |-> W!Stored(x), v |-> s] /\ h[n].d = W!Stored(t)
  BY <1>2, <1>3
<1>6. W!Stored(x) \in Row
  BY StoredIs
<1>7. W!AddArr(W!Stored(x), a, sub) = h[n].d
  <2> HIDE DEF h
  <2> QED
    BY <1>4, <1>5, <1>6, AddFold
<1> QED
  BY <1>5, <1>7 DEF t

LEMMA Mirror ==
  ASSUME NEW x \in Int, NEW a \in Nat \ {0}
  PROVE  (-1 - x) \div a = -1 - (x \div a) /\ (-1 - x) % a = (a - 1) - (x % a)
<1> DEFINE q == x \div a
           r == x % a
           p == -1 - q
           s == (a - 1) - r
           y == -1 - x
<1>1. q \in Int /\ r \in 0 .. a - 1 /\ x = q * a + r
  BY FloorOf
<1> HIDE DEF q, r
<1>2. p \in Int /\ s \in 0 .. a - 1 /\ y \in Int
  BY <1>1
<1>3. -1 - (q * a + r) = (-1 - q) * a + ((a - 1) - r)
  BY <1>1, SMT
<1>4. y = p * a + s
  BY <1>1, <1>3
<1> HIDE DEF p, s, y
<1>5. y \div a = p /\ y % a = s
  BY <1>2, <1>4, Floor
<1> QED
  BY <1>5 DEF p, s, y, q, r

(* In two's complement the complement of x is -1 - x.                      *)
LEMMA Complement ==
  ASSUME NEW x \in Int
  PROVE  /\ -1 - x \in Int
         /\ \A i \in 0 .. Size - 1 : (Base - 1) - DigitOf(x, i) = DigitOf(-1 - x, i)
         /\ \A i \in Words : (W!WordBase - 1) - WordAt(x, i) = WordAt(-1 - x, i)
<1>1. ASSUME NEW i \in 0 .. Size
      PROVE  Part(-1 - x, i) = -1 - Part(x, i) /\ Part(x, i) \in Int
  <2>1. i \in 0 .. Size + 1
    BY FewPowers
  <2>2. Base ^ i \in Nat \ {0}
    BY <2>1, Powers
  <2> DEFINE b == Base ^ i
  <2> HIDE DEF b
  <2>3. (-1 - x) \div b = -1 - (x \div b)
    BY Zenon, <2>2, Mirror DEF b
  <2>4. Part(x, i) \in Int
    BY PartSteps
  <2> QED
    BY <2>3, <2>4 DEF Part, b
<1>2. ASSUME NEW i \in 0 .. Size - 1 PROVE (Base - 1) - DigitOf(x, i) = DigitOf(-1 - x, i)
  <2>1. i \in 0 .. Size /\ Base \in Nat \ {0}
    BY FewPowers
  <2> DEFINE p == Part(x, i)
  <2>2. p \in Int /\ Part(-1 - x, i) = -1 - p
    BY <1>1, <2>1
  <2> HIDE DEF p
  <2>3. (-1 - p) % Base = (Base - 1) - (p % Base)
    BY Zenon, <2>1, <2>2, Mirror
  <2> QED
    BY <2>2, <2>3 DEF DigitOf, p
<1>3. ASSUME NEW i \in Words PROVE (W!WordBase - 1) - WordAt(x, i) = WordAt(-1 - x, i)
  <2>1. i \in 0 .. Size /\ W!WordBase \in Nat \ {0}
    BY FewPowers, WordsIn DEF Words
  <2> DEFINE p == Part(x, i)
             b == W!WordBase
  <2>2. p \in Int /\ Part(-1 - x, i) = -1 - p
    BY <1>1, <2>1
  <2> HIDE DEF p, b
  <2>3. (-1 - p) % b = (b - 1) - (p % b)
    BY Zenon, <2>1, <2>2, Mirror DEF b
  <2> QED
    BY <2>2, <2>3 DEF WordAt, p, b
<1> QED
  BY <1>2, <1>3

LEMMA WordsOfStored ==
  ASSUME NEW x \in Int, NEW i \in Words
  PROVE  W!Word(W!Stored(x), i) = WordAt(x, i) /\ WordAt(x, i) \in 0 .. W!WordBase - 1
BY Zenon, StoredWord, WordOf DEF Words

(* bch_add and bch_sub.                                                    *)
LEMMA AddRight ==
  ASSUME NEW x \in Int, NEW y \in Int
  PROVE  W!Add(W!Stored(x), W!Stored(y)) = W!Stored(x + y)
<1>1. W!Stored(y) \in Row /\ FALSE \in BOOLEAN
  BY StoredIs
<1>2. \A i \in Words : (IF FALSE THEN W!WordBase - 1 - W!Word(W!Stored(y), i)
                                  ELSE W!Word(W!Stored(y), i)) = WordAt(y, i)
  BY WordsOfStored
<1> DEFINE a == W!Stored(y)
<1> HIDE DEF a
<1>3. W!AddArr(W!Stored(x), a, FALSE) = W!Stored((x + y) + IF FALSE THEN 1 ELSE 0)
  BY Zenon, <1>1, <1>2, AddsUp DEF a
<1>4. (x + y) + (IF FALSE THEN 1 ELSE 0) = x + y
  OBVIOUS
<1> QED
  BY <1>3, <1>4, Zenon DEF W!Add, a

LEMMA SubRight ==
  ASSUME NEW x \in Int, NEW y \in Int
  PROVE  W!Sub(W!Stored(x), W!Stored(y)) = W!Stored(x - y)
<1> DEFINE a == W!Stored(y)
           z == -1 - y
<1>1. a \in Row /\ TRUE \in BOOLEAN /\ z \in Int
  BY StoredIs
<1>2. \A i \in Words : (IF TRUE THEN W!WordBase - 1 - W!Word(a, i) ELSE W!Word(a, i))
                         = WordAt(z, i)
  <2> SUFFICES ASSUME NEW i \in Words
               PROVE  W!WordBase - 1 - W!Word(a, i) = WordAt(z, i)
    OBVIOUS
  <2>1. W!Word(a, i) = WordAt(y, i)
    BY WordsOfStored
  <2>2. (W!WordBase - 1) - WordAt(y, i) = WordAt(z, i)
    BY Complement
  <2> HIDE DEF z
  <2> QED
    BY <2>1, <2>2
<1> HIDE DEF a, z
<1>3. W!AddArr(W!Stored(x), a, TRUE) = W!Stored((x + z) + IF TRUE THEN 1 ELSE 0)
  BY Zenon, <1>1, <1>2, AddsUp
<1>4. (x + z) + (IF TRUE THEN 1 ELSE 0) = x - y
  BY DEF z
<1> QED
  BY <1>3, <1>4, Zenon DEF W!Sub, a

(* A step of bch_add_s, which is one that adds words of 0.                 *)
AddSStep(st, i) ==
  LET v == st.v + W!Word(st.d, i)
  IN [d |-> W!PutWord(st.d, i, v % W!WordBase), v |-> v \div W!WordBase]

LEMMA AddSFold ==
  ASSUME NEW d \in Row, NEW s \in Int, NEW h, h[0] = [d |-> d, v |-> s],
         \A k \in 1 .. Size \div 2 : AddSStep(h[k - 1], 2 * (k - 1)) = h[k]
  PROVE  W!AddS(d, s) = h[Size \div 2].d
<1> DEFINE n == Size \div 2
           b == [d |-> d, v |-> s]
           Is(f) == f = [t \in SUBSET DOMAIN W!WordPlaces |->
                           IF t = {} THEN b
                           ELSE AddSStep(f[t \ {W!Max(t)}], W!WordPlaces[W!Max(t)])]
<1>1. ASSUME NEW st \in State, NEW k \in 1 .. n
      PROVE  AddSStep(st, W!WordPlaces[k]) \in State
  <2> DEFINE i == W!WordPlaces[k]
             v == st.v + W!Word(st.d, i)
  <2>1. st.d \in Row /\ st.v \in Int /\ i \in Words
    BY WordsIn DEF State
  <2>2. W!Word(st.d, i) \in Int /\ W!WordBase \in Nat \ {0}
    BY Zenon, <2>1, WordsIn
  <2>3. v \in Int
    BY <2>1, <2>2
  <2> HIDE DEF v, i
  <2>4. v % W!WordBase \in Int /\ v \div W!WordBase \in Int
    BY <2>2, <2>3, FloorOf
  <2>5. W!PutWord(st.d, i, v % W!WordBase) \in Row
    BY Zenon, <2>1, <2>4, WordsIn
  <2> QED
    BY <2>4, <2>5 DEF State, AddSStep, v, i
<1>2. \E f : Is(f)
  <2> DEFINE g == [x \in State \X (1 .. n) |-> AddSStep(x[1], W!WordPlaces[x[2]])]
  <2>1. n \in Nat /\ DOMAIN W!WordPlaces = 1 .. n
    BY WordsIn
  <2>2. b \in State
    BY DEF State
  <2>3. g \in [State \X (1 .. n) -> State]
    BY <1>1
  <2>4. PICK f : /\ f = [t \in SUBSET (1 .. n) |->
                           IF t = {} THEN b ELSE g[<<f[t \ {W!Max(t)}], W!Max(t)>>]]
                 /\ \A t \in SUBSET (1 .. n) : f[t] \in State
    <3> HIDE DEF g, b, n
    <3>1. \E f : IsFold(f, n, State, b, g)
      BY Zenon, <2>1, <2>2, <2>3, FoldExists
    <3> QED
      BY <3>1, Zenon DEF IsFold
  <2>5. ASSUME NEW t \in SUBSET (1 .. n), t # {}
        PROVE  g[<<f[t \ {W!Max(t)}], W!Max(t)>>]
                 = AddSStep(f[t \ {W!Max(t)}], W!WordPlaces[W!Max(t)])
    <3>1. W!Max(t) \in t
      BY Zenon, <2>1, <2>5, MaxOf
    <3>2. W!Max(t) \in 1 .. n /\ f[t \ {W!Max(t)}] \in State
      BY Zenon, <2>4, <3>1
    <3> QED
      BY <3>2
  <2>6. Is(f)
    <3> HIDE DEF g, b, n
    <3> QED
      BY Zenon, <2>1, <2>4, <2>5
  <2> QED
    <3> HIDE DEF Is
    <3> QED
      BY <2>6
<1>3. PICK f : Is(f) /\ W!AddS(d, s) = f[DOMAIN W!WordPlaces].d
  <2>1. Is(CHOOSE f : Is(f))
    <3> HIDE DEF Is
    <3> QED
      BY <1>2
  <2> QED
    BY <2>1, Zenon DEF W!AddS, AddSStep, W!FoldLeft, W!MapThenFoldSet
<1>4. f[{}] = h[0]
  BY <1>3
<1>5. ASSUME NEW k \in 1 .. n, f[1 .. k - 1] = h[k - 1] PROVE f[1 .. k] = h[k]
  <2>1. /\ n \in Nat /\ DOMAIN W!WordPlaces = 1 .. n
        /\ 1 .. k \in SUBSET (1 .. n) /\ 1 .. k # {} /\ W!Max(1 .. k) = k
        /\ (1 .. k) \ {k} = 1 .. k - 1 /\ W!WordPlaces[k] = 2 * (k - 1)
    BY Zenon, WordsIn, Beginnings
  <2>2. f[1 .. k] = AddSStep(f[1 .. k - 1], 2 * (k - 1))
    <3> DEFINE t == 1 .. k
    <3>1. t \in SUBSET DOMAIN W!WordPlaces /\ t # {}
      BY <2>1
    <3>2. f[t] = AddSStep(f[t \ {W!Max(t)}], W!WordPlaces[W!Max(t)])
      <4> HIDE DEF t, b
      <4> QED
        BY Zenon, <1>3, <3>1
    <3> QED
      BY Zenon, <2>1, <3>2
  <2> QED
    BY <1>5, <2>2 DEF n
<1>6. f[1 .. n] = h[n]
  <2>1. n \in Nat
    BY WordsIn
  <2> HIDE DEF n, Is
  <2> QED
    BY <1>4, <1>5, <2>1, FoldSteps
<1> QED
  BY Zenon, <1>3, <1>6, WordsIn

LEMMA AddSRight ==
  ASSUME NEW x \in Int, NEW s \in Int
  PROVE  W!AddS(W!Stored(x), s) = W!Stored(x + s)
<1> DEFINE t == (x + 0) + s
           n == Size \div 2
           h == [k \in 0 .. n |-> Summed(t, x, 0, k)]
<1>1. t \in Int /\ 0 \in Int /\ t = x + s
  OBVIOUS
<1>2. Summed(t, x, 0, 0) = [d |-> W!Stored(x), v |-> s] /\ Summed(t, x, 0, n).d = W!Stored(t)
  BY <1>1, SummedEnds
<1>3. n \in Nat
  BY WordsIn
<1> HIDE DEF t
<1>4. ASSUME NEW k \in 1 .. n PROVE AddSStep(h[k - 1], 2 * (k - 1)) = h[k]
  <2> DEFINE i == 2 * (k - 1)
             st == Summed(t, x, 0, k - 1)
             w == W!WordBase
             v == Carried(t, x, 0, i)
             e == WordAt(x, i)
  <2>1. h[k - 1] = st /\ h[k] = Summed(t, x, 0, k)
    BY <1>3
  <2>2. i \in Words /\ i + 2 = 2 * k
    BY WordsIn
  <2>3. st.d = Mix(t, x, i) /\ st.v = v
    BY DEF Summed
  <2>4. Summed(t, x, 0, k) = [d |-> Mix(t, x, i + 2), v |-> Carried(t, x, 0, i + 2)]
    BY <2>2, Zenon DEF Summed
  <2> HIDE DEF i, st, h
  <2>5. /\ W!Word(Mix(t, x, i), i) = e
        /\ W!PutWord(Mix(t, x, i), i, WordAt(t, i)) = Mix(t, x, i + 2)
    BY <1>1, <2>2, MixWord DEF Words
  <2>6. /\ (v + e + WordAt(0, i)) % w = WordAt(t, i) /\ v \in Int /\ e \in Int
        /\ (v + e + WordAt(0, i)) \div w = Carried(t, x, 0, i + 2)
    BY <1>1, <2>2, CarriedOn
  <2>7. WordAt(0, i) = 0
    <3>1. i \in 0 .. Size + 1 /\ w \in Nat \ {0}
      BY <2>2, WordsIn, FewPowers DEF Words
    <3>2. Base ^ i \in Nat \ {0}
      BY <3>1, Powers
    <3> DEFINE b == Base ^ i
    <3> HIDE DEF b, w
    <3>3. 0 * b + 0 = 0 /\ 0 * w + 0 = 0 /\ 0 \in Int /\ 0 \in 0 .. b - 1 /\ 0 \in 0 .. w - 1
          /\ b \in Nat \ {0}
      BY <3>1, <3>2 DEF b
    <3>4. 0 \div b = 0
      BY <3>3, Floor
    <3>5. 0 % w = 0
      BY <3>1, <3>3, Floor
    <3> QED
      BY <3>4, <3>5 DEF WordAt, Part, b, w
  <2>8. v + e + WordAt(0, i) = v + e
    <3> HIDE DEF v, e
    <3> QED
      BY <2>6, <2>7
  <2> HIDE DEF v, e, w
  <2>9. AddSStep(st, i) = [d |-> W!PutWord(st.d, i, (v + e) % w), v |-> (v + e) \div w]
    BY <2>3, <2>5, Zenon DEF AddSStep, w
  <2>10. AddSStep(st, i) = [d |-> Mix(t, x, i + 2), v |-> Carried(t, x, 0, i + 2)]
    BY <2>3, <2>5, <2>6, <2>8, <2>9, Zenon
  <2> QED
    BY <2>1, <2>4, <2>10, Zenon DEF i
<1>5. h[0] = [d |-> W!Stored(x), v |-> s] /\ h[n].d = W!Stored(t)
  BY <1>2, <1>3
<1>6. W!Stored(x) \in Row
  BY StoredIs
<1>7. W!AddS(W!Stored(x), s) = h[n].d
  <2> HIDE DEF h
  <2> QED
    BY <1>4, <1>5, <1>6, AddSFold
<1> QED
  BY <1>1, <1>5, <1>7

(* bch_negate.                                                             *)
LEMMA NegateRight ==
  ASSUME NEW x \in Int
  PROVE  W!Negate(W!Stored(x)) = W!Stored(- x)
<1> DEFINE z == -1 - x
<1>1. [i \in W!Places |-> Base - 1 - W!Stored(x)[i]] = W!Stored(z)
  <2>1. \A i \in 0 .. Size - 1 : (Base - 1) - DigitOf(x, i) = DigitOf(z, i)
    BY Complement
  <2>2. /\ W!Stored(x) = [i \in 0 .. Size - 1 |-> DigitOf(x, i)]
        /\ W!Stored(z) = [i \in 0 .. Size - 1 |-> DigitOf(z, i)]
    <3>1. z \in Int
      OBVIOUS
    <3> HIDE DEF z
    <3> QED
      BY <3>1, StoredIs
  <2>3. \A i \in 0 .. Size - 1 : Base - 1 - W!Stored(x)[i] = DigitOf(z, i)
    BY <2>1, <2>2
  <2> HIDE DEF z
  <2> QED
    BY <2>2, <2>3 DEF W!Places
<1>2. z \in Int /\ z + 1 = - x /\ 1 \in Int
  OBVIOUS
<1> HIDE DEF z
<1>3. W!AddS(W!Stored(z), 1) = W!Stored(z + 1)
  BY <1>2, AddSRight
<1> QED
  BY <1>1, <1>2, <1>3, Zenon DEF W!Negate
-----------------------------------------------------------------------------
(* Signs and comparison.                                                   *)

LEMMA FullHalves ==
  LET b == Base ^ (Size - 1)
      c == Base \div 2
  IN /\ b \in Nat \ {0} /\ c \in Nat \ {0} /\ 2 * c = Base
     /\ Full = b * Base /\ Half = c * b /\ Full = Half + Half
     /\ Full \in Nat \ {0} /\ Half \in Nat
<1> DEFINE b == Base ^ (Size - 1)
           c == Base \div 2
<1>1. /\ Size - 1 \in 0 .. Size + 1 /\ 1 \in 0 .. Size + 1 /\ Size \in 0 .. Size + 1
      /\ (Size - 1) + 1 = Size
  BY FewPowers
<1>2. Base ^ Size = b * Base ^ 1 /\ b \in Nat \ {0}
  BY <1>1, PowerSum
<1>3. Full = b * Base
  BY <1>2, FewPowers DEF Full
<1>4. c \in Nat \ {0} /\ 2 * c = Base /\ Base \in Nat
  BY DivisionAssumption
<1> HIDE DEF b, c
<1>5. b * (2 * c) = (c * b) * 2 /\ c * b \in Nat /\ b * Base \in Nat \ {0}
  BY <1>2, <1>4, SMT
<1> DEFINE d == c * b
<1>6. d \in Nat /\ Full = d * 2 + 0
  BY <1>3, <1>4, <1>5
<1> HIDE DEF d
<1>7. Full \div 2 = d /\ Full = d + d
  BY <1>6
<1> QED
  BY <1>2, <1>3, <1>4, <1>5, <1>7 DEF Half, b, c, d

(* bch_is_negative.                                                        *)
LEMMA SignRight ==
  ASSUME NEW x \in Int, - Half <= x, x < Half
  PROVE  W!IsNegative(W!Stored(x)) <=> x < 0
<1> DEFINE b == Base ^ (Size - 1)
           c == Base \div 2
           p == Part(x, Size - 1)
           r == x % b
<1>1. /\ b \in Nat \ {0} /\ c \in Nat \ {0} /\ 2 * c = Base /\ Half = c * b
      /\ Half \in Nat /\ Base \in Nat \ {0}
  BY FullHalves, FewPowers
<1>2. p \in Int /\ r \in 0 .. b - 1 /\ x = p * b + r
  <2> HIDE DEF b
  <2>1. x \div b \in Int /\ r \in 0 .. b - 1 /\ x = (x \div b) * b + r
    BY <1>1, FloorOf
  <2> QED
    BY <2>1 DEF Part, b
<1>3. W!Stored(x)[Size - 1] = p % Base
  <2>1. Size - 1 \in 0 .. Size - 1
    BY FewPowers
  <2> QED
    BY <2>1, StoredIs DEF DigitOf
<1> HIDE DEF b, c, p, r
<1>4. p < c /\ - c <= p
  <2>1. CASE c <= p
    <3>1. (p - c) * b >= 0 /\ p * b = c * b + (p - c) * b
      BY <1>1, <1>2, <2>1, SMT
    <3> DEFINE y == p * b
               z == (p - c) * b
    <3>2. y \in Int /\ z \in Int
      BY <1>1, <1>2, SMT
    <3>3. y = Half + z /\ z >= 0 /\ x = y + r
      BY <1>1, <1>2, <3>1
    <3> HIDE DEF y, z
    <3> QED
      BY <1>1, <1>2, <3>2, <3>3
  <2>2. CASE p < - c
    <3>1. (- c - 1 - p) * b >= 0 /\ p * b = - (c * b) - b - (- c - 1 - p) * b
      BY <1>1, <1>2, <2>2, SMT
    <3> DEFINE y == p * b
               z == (- c - 1 - p) * b
    <3>2. y \in Int /\ z \in Int
      BY <1>1, <1>2, SMT
    <3>3. y = - Half - b - z /\ z >= 0 /\ x = y + r
      BY <1>1, <1>2, <3>1
    <3> HIDE DEF y, z
    <3> QED
      BY <1>1, <1>2, <3>2, <3>3
  <2> QED
    BY <1>1, <1>2, <2>1, <2>2
<1>5. x < 0 <=> p < 0
  <2>1. CASE p < 0
    <3>1. (- 1 - p) * b >= 0 /\ p * b = - b - (- 1 - p) * b
      BY <1>1, <1>2, <2>1, SMT
    <3> DEFINE y == p * b
               z == (- 1 - p) * b
    <3>2. y \in Int /\ z \in Int /\ y = - b - z /\ z >= 0 /\ x = y + r
      BY <1>1, <1>2, <3>1, SMT
    <3> HIDE DEF y, z
    <3> QED
      BY <1>1, <1>2, <2>1, <3>2
  <2>2. CASE p >= 0
    <3>1. p * b \in Nat
      BY <1>1, <1>2, <2>2, SMT
    <3> QED
      BY <1>1, <1>2, <2>2, <3>1
  <2> QED
    BY <1>2, <2>1, <2>2
<1>6. p % Base >= c <=> p < 0
  <2>1. CASE p < 0
    <3>1. p + Base \in 0 .. Base - 1 /\ p = (-1) * Base + (p + Base) /\ -1 \in Int
      BY <1>1, <1>2, <1>4, <2>1
    <3> DEFINE s == p + Base
    <3>2. s \in Int /\ s >= c
      BY <1>1, <1>2, <1>4
    <3>3. s \in 0 .. Base - 1 /\ p = (-1) * Base + s
      BY <3>1
    <3> HIDE DEF s
    <3>4. p % Base = s
      BY <1>1, <1>2, <3>1, <3>3, Floor
    <3> QED
      BY <2>1, <3>2, <3>4
  <2>2. CASE p >= 0
    <3>1. p \in 0 .. Base - 1
      BY <1>1, <1>2, <1>4, <2>2
    <3>2. p % Base = p
      BY <1>1, <1>2, <3>1, Mod
    <3> QED
      BY <1>1, <1>2, <1>4, <2>2, <3>2
  <2> QED
    BY <1>2, <2>1, <2>2
<1> QED
  BY <1>3, <1>5, <1>6 DEF W!IsNegative, c

(* bch_abs.                                                                *)
LEMMA AbsRight ==
  ASSUME NEW x \in Int, - Half <= x, x < Half
  PROVE  W!AbsOf(W!Stored(x)) = W!Stored(Abs(x))
<1>1. W!IsNegative(W!Stored(x)) <=> x < 0
  BY SignRight
<1>2. W!Negate(W!Stored(x)) = W!Stored(- x)
  BY NegateRight
<1>3. CASE x < 0
  BY <1>1, <1>2, <1>3 DEF W!AbsOf, Abs
<1>4. CASE ~(x < 0)
  BY <1>1, <1>4 DEF W!AbsOf, Abs
<1> QED
  BY <1>3, <1>4

(* Of two numbers that have the same digits from a place on, the same is   *)
(* above it.                                                               *)
LEMMA SameAbove ==
  ASSUME NEW x \in Int, NEW y \in Int, Part(x, Size) = Part(y, Size),
         NEW e \in 0 .. Size,
         \A p \in 0 .. Size - 1 : p >= e => DigitOf(x, p) = DigitOf(y, p)
  PROVE  Part(x, e) = Part(y, e)
<1> DEFINE S == {j \in Nat : j <= Size - e => Part(x, Size - j) = Part(y, Size - j)}
<1>1. 0 \in S /\ Size \in Nat
  <2>1. Size - 0 = Size /\ Size \in Nat
    BY FewPowers
  <2> QED
    BY <2>1
<1>2. ASSUME NEW j \in Nat, j \in S PROVE j + 1 \in S
  <2> SUFFICES ASSUME j + 1 <= Size - e
               PROVE  Part(x, Size - (j + 1)) = Part(y, Size - (j + 1))
    OBVIOUS
  <2> DEFINE p == Size - (j + 1)
  <2>1. p \in 0 .. Size - 1 /\ p + 1 = Size - j /\ p >= e /\ j <= Size - e
    BY <1>1
  <2>2. Part(x, p + 1) = Part(y, p + 1)
    BY <1>2, <2>1
  <2> HIDE DEF p
  <2>3. DigitOf(x, p) = DigitOf(y, p)
    BY <2>1
  <2>4. /\ Part(x, p) = Part(x, p + 1) * Base + DigitOf(x, p)
        /\ Part(y, p) = Part(y, p + 1) * Base + DigitOf(y, p)
    BY <2>1, PartSteps
  <2> QED
    BY <2>2, <2>3, <2>4 DEF p
<1>3. \A j \in Nat : j \in S
  <2> HIDE DEF S
  <2> QED
    BY <1>1, <1>2, Counting
<1>4. Size - e \in Nat /\ Size - (Size - e) = e /\ Size - e <= Size - e
  BY <1>1
<1> QED
  BY <1>3, <1>4

LEMMA NothingAbove ==
  ASSUME NEW x \in Nat, x < Full
  PROVE  Part(x, Size) = 0
<1>1. Full \in Nat \ {0}
  BY FullHalves
<1>2. 0 * Full + x = x /\ x \in 0 .. Full - 1 /\ 0 \in Int
  BY <1>1
<1>3. x \div Full = 0
  BY <1>1, <1>2, Floor
<1> QED
  BY <1>3 DEF Part, Full

LEMMA FloorMonotone ==
  ASSUME NEW x \in Int, NEW y \in Int, NEW b \in Nat \ {0}, x <= y
  PROVE  x \div b <= y \div b
<1> DEFINE p == x \div b
           q == y \div b
           r == x % b
           s == y % b
<1>1. p \in Int /\ r \in 0 .. b - 1 /\ x = p * b + r
  BY FloorOf
<1>2. q \in Int /\ s \in 0 .. b - 1 /\ y = q * b + s
  BY FloorOf
<1> HIDE DEF p, q, r, s
<1>3. CASE q < p
  <2>1. (p - q - 1) * b >= 0 /\ p * b = (q * b) + b + (p - q - 1) * b
    BY <1>1, <1>2, <1>3, SMT
  <2> DEFINE u == p * b
             v == q * b
             z == (p - q - 1) * b
  <2>2. u \in Int /\ v \in Int /\ z \in Int /\ z >= 0 /\ u = v + b + z /\ x = u + r /\ y = v + s
    BY <1>1, <1>2, <2>1, SMT
  <2> HIDE DEF u, v, z
  <2> QED
    BY <1>1, <1>2, <2>2
<1> QED
  BY <1>1, <1>2, <1>3 DEF p, q

(* The highest digit in which two numbers differ tells which is greater.   *)
LEMMA TopDigit ==
  ASSUME NEW x \in Int, NEW y \in Int, Part(x, Size) = Part(y, Size),
         NEW e \in 0 .. Size - 1, DigitOf(x, e) # DigitOf(y, e),
         \A p \in 0 .. Size - 1 : p > e => DigitOf(x, p) = DigitOf(y, p)
  PROVE  DigitOf(x, e) > DigitOf(y, e) <=> x > y
<1>1. /\ e + 1 \in 0 .. Size /\ \A p \in 0 .. Size - 1 : p >= e + 1 => p > e
      /\ e \in 0 .. Size + 1 /\ Base \in Nat
  BY FewPowers
<1>2. Part(x, e + 1) = Part(y, e + 1) /\ Part(x, e + 1) \in Int
  BY <1>1, SameAbove, PartSteps
<1> DEFINE u == Part(x, e + 1) * Base
           c == DigitOf(x, e)
           d == DigitOf(y, e)
           p == Part(x, e)
           q == Part(y, e)
<1>3. u \in Int /\ p = u + c /\ q = u + d /\ c \in Int /\ d \in Int /\ c # d
  <2>1. /\ Part(x, e) = Part(x, e + 1) * Base + c /\ c \in 0 .. Base - 1
        /\ Part(y, e) = Part(y, e + 1) * Base + d /\ d \in 0 .. Base - 1
    BY PartSteps
  <2>2. u \in Int
    BY <1>1, <1>2, SMT
  <2> QED
    BY <1>1, <1>2, <2>1, <2>2
<1>4. Base ^ e \in Nat \ {0}
  BY <1>1, Powers
<1>5. (x <= y => p <= q) /\ (y <= x => q <= p)
  BY <1>4, FloorMonotone DEF Part
<1> HIDE DEF u, c, d, p, q
<1>6. c > d <=> x > y
  BY <1>3, <1>5
<1> QED
  BY <1>6 DEF c, d

(* bch_cmp of numbers that are not negative.                               *)
LEMMA CmpRight ==
  ASSUME NEW x \in Nat, NEW y \in Nat, x < Half, y < Half
  PROVE  W!Cmp(W!Stored(x), W!Stored(y)) = Cmp(x, y)
<1> DEFINE a == W!AbsOf(W!Stored(x))
           b == W!AbsOf(W!Stored(y))
           Tops(e) == a[e] # b[e] /\ \A i \in W!Places : i > e => a[i] = b[i]
           top == CHOOSE e \in W!Places : Tops(e)
<1>1. /\ Half \in Nat /\ Full \in Nat /\ Half <= Full /\ x < Full /\ y < Full
      /\ - Half <= x /\ - Half <= y /\ Size \in Nat /\ x \in Int /\ y \in Int
  BY FullHalves, FewPowers
<1>2. a = W!Stored(x) /\ b = W!Stored(y)
  <2>1. Abs(x) = x /\ Abs(y) = y
    BY DEF Abs
  <2> QED
    BY <1>1, <2>1, AbsRight
<1>3. ~W!IsNegative(W!Stored(x)) /\ ~W!IsNegative(W!Stored(y))
  BY <1>1, SignRight
<1>4. Part(x, Size) = 0 /\ Part(y, Size) = 0
  BY <1>1, NothingAbove
<1>5. /\ \A i \in 0 .. Size - 1 : a[i] = DigitOf(x, i)
      /\ \A i \in 0 .. Size - 1 : b[i] = DigitOf(y, i)
  <2>1. a = [i \in 0 .. Size - 1 |-> DigitOf(x, i)]
    BY <1>1, <1>2, StoredIs, Zenon
  <2>2. b = [i \in 0 .. Size - 1 |-> DigitOf(y, i)]
    BY <1>1, <1>2, StoredIs, Zenon
  <2> HIDE DEF a, b
  <2> QED
    BY <2>1, <2>2, Zenon
<1>6. W!Cmp(W!Stored(x), W!Stored(y))
        = IF a = b THEN 0 ELSE IF (a[top] > b[top]) # FALSE THEN 1 ELSE -1
  <2> DEFINE m == W!IsNegative(W!Stored(x))
             n == W!IsNegative(W!Stored(y))
  <2>1. W!Cmp(W!Stored(x), W!Stored(y))
          = IF m # n THEN IF m THEN 1 ELSE -1
            ELSE IF a = b THEN 0
            ELSE IF (a[top] > b[top]) # m THEN 1 ELSE -1
    BY Zenon DEF W!Cmp
  <2>2. m = FALSE /\ n = FALSE
    BY <1>3 DEF W!IsNegative
  <2> QED
    BY <2>1, <2>2, Zenon
<1>7. CASE x = y
  <2>1. a = b
    BY <1>7
  <2>2. Cmp(x, y) = 0
    BY <1>7 DEF Cmp
  <2> HIDE DEF a, b
  <2> QED
    BY <1>6, <2>1, <2>2 DEF a, b
<1>8. CASE x # y
  <2> HIDE DEF a, b
  <2> DEFINE T == {i \in 0 .. Size - 1 : DigitOf(x, i) # DigitOf(y, i)}
  <2>1. T # {}
    <3> SUFFICES ASSUME T = {} PROVE FALSE
      OBVIOUS
    <3>1. \A p \in 0 .. Size - 1 : p >= 0 => DigitOf(x, p) = DigitOf(y, p)
      OBVIOUS
    <3>2. 0 \in 0 .. Size
      BY <1>1
    <3>3. Part(x, 0) = Part(y, 0)
      BY <1>4, <3>1, <3>2, SameAbove
    <3> QED
      BY <1>8, <3>3, PartSteps
  <2>2. PICK g \in T : \A m \in T : m <= g
    <3>1. T \subseteq 0 .. Size
      BY <1>1
    <3> HIDE DEF T
    <3> QED
      BY Zenon, <1>1, <2>1, <3>1, Greatest
  <2>3. g \in W!Places /\ Tops(g)
    <3>1. g \in 0 .. Size - 1 /\ DigitOf(x, g) # DigitOf(y, g)
      BY <2>2
    <3>2. \A i \in 0 .. Size - 1 : i > g => DigitOf(x, i) = DigitOf(y, i)
      BY <2>2, <3>1
    <3> QED
      BY <1>5, <3>1, <3>2 DEF W!Places
  <2>4. top \in W!Places /\ Tops(top)
    <3> HIDE DEF Tops
    <3> QED
      BY <2>3
  <2> DEFINE e == top
  <2>5. e \in 0 .. Size - 1 /\ Tops(e)
    BY <2>4 DEF W!Places
  <2> HIDE DEF top
  <2> HIDE DEF e
  <2>6. /\ DigitOf(x, e) # DigitOf(y, e)
        /\ \A p \in 0 .. Size - 1 : p > e => DigitOf(x, p) = DigitOf(y, p)
    BY <1>5, <2>5 DEF W!Places
  <2>7. DigitOf(x, e) > DigitOf(y, e) <=> x > y
    BY <1>4, <2>5, <2>6, TopDigit
  <2>8. a # b /\ ((a[e] > b[e]) # FALSE <=> x > y)
    <3>1. a[e] = DigitOf(x, e) /\ b[e] = DigitOf(y, e) /\ a # b
      BY <1>5, <2>5
    <3>2. DigitOf(x, e) \in 0 .. Base - 1 /\ DigitOf(y, e) \in 0 .. Base - 1 /\ Base \in Nat
      BY <2>5, PartSteps, FewPowers
    <3> DEFINE c == DigitOf(x, e)
               d == DigitOf(y, e)
    <3>3. c \in Int /\ d \in Int
      BY <3>2
    <3> HIDE DEF c, d
    <3> DEFINE greater == c > d
    <3>4. greater # FALSE <=> greater
      <4>1. greater \in BOOLEAN
        BY <3>3, SMT
      <4> HIDE DEF greater
      <4> QED
        BY <4>1, Zenon
    <3> QED
      BY <2>7, <3>1, <3>4, Zenon DEF c, d
  <2>9. W!Cmp(W!Stored(x), W!Stored(y)) = IF x > y THEN 1 ELSE -1
    BY <1>6, <2>8, Zenon DEF e
  <2>10. Cmp(x, y) = IF x > y THEN 1 ELSE -1
    BY <1>8 DEF Cmp
  <2> QED
    BY <2>9, <2>10 DEF a, b
<1> QED
  BY <1>7, <1>8

(* bch_byte_shr by one digit.                                              *)
LEMMA ByteShrRight ==
  ASSUME NEW x \in Nat, x < Full
  PROVE  W!ByteShr(W!Stored(x), 1) = W!Stored(ByteShr(x, 1))
<1> DEFINE y == ByteShr(x, 1)
<1>1. Base \in Nat \ {0} /\ Size \in Nat /\ y = x \div Base /\ x \in Int
  BY FewPowers DEF ByteShr
<1>2. y \in Int
  BY <1>1, FloorOf
<1>3. ASSUME NEW i \in 0 .. Size - 1 PROVE Part(y, i) = Part(x, i + 1)
  <2>1. i \in 0 .. Size + 1 /\ i + 1 \in 0 .. Size + 1 /\ 1 \in 0 .. Size + 1 /\ 1 + i = i + 1
    BY <1>1
  <2>2. Base ^ (i + 1) = Base ^ 1 * Base ^ i /\ Base ^ 1 = Base
    BY <2>1, PowerSum, FewPowers
  <2>3. Base ^ i \in Nat \ {0}
    BY <2>1, Powers
  <2> DEFINE b == Base ^ i
  <2> HIDE DEF b
  <2>4. (x \div Base) \div b = x \div (Base * b)
    BY Zenon, <1>1, <2>3, FloorTwice DEF b
  <2> QED
    BY <1>1, <2>2, <2>4 DEF Part, b
<1>4. Part(x, Size) = 0
  BY NothingAbove
<1>5. ASSUME NEW i \in 0 .. Size - 1
      PROVE  DigitOf(y, i) = IF i + 1 < Size THEN W!Stored(x)[i + 1] ELSE 0
  <2>1. CASE i + 1 < Size
    <3>1. i + 1 \in 0 .. Size - 1
      BY <1>1, <2>1
    <3>2. W!Stored(x) = [j \in 0 .. Size - 1 |-> DigitOf(x, j)]
      BY <1>1, StoredIs
    <3>3. W!Stored(x)[i + 1] = DigitOf(x, i + 1)
      BY <3>1, <3>2
    <3> QED
      BY <1>3, <2>1, <3>3 DEF DigitOf
  <2>2. CASE ~(i + 1 < Size)
    <3>1. i + 1 = Size
      BY <1>1, <2>2
    <3>2. Part(y, i) = 0
      BY <1>3, <1>4, <3>1
    <3>3. 0 % Base = 0
      BY <1>1, Mod
    <3> QED
      BY <2>2, <3>2, <3>3 DEF DigitOf
  <2> QED
    BY <2>1, <2>2
<1> HIDE DEF y
<1>6. W!Stored(y) = [i \in 0 .. Size - 1 |-> DigitOf(y, i)]
  BY <1>2, StoredIs
<1>7. W!ByteShr(W!Stored(x), 1)
        = [i \in 0 .. Size - 1 |-> IF i + 1 < Size THEN W!Stored(x)[i + 1] ELSE 0]
  BY DEF W!ByteShr, W!Places
<1>8. W!ByteShr(W!Stored(x), 1) = W!Stored(y)
  BY <1>5, <1>6, <1>7
<1> QED
  BY <1>8 DEF y

-----------------------------------------------------------------------------
(* Shifts, by longs.                                                       *)

LongAt(x, i) == Part(x, i) % W!LongBase
Longs == 0 .. Size - 4

(* Two parts of x, one above the other.                                    *)
LEMMA TwoFloors ==
  ASSUME NEW p \in Int, NEW q \in Int, NEW r \in Int, NEW b \in Nat \ {0},
         NEW c \in 0 .. b - 1, NEW d \in 0 .. b - 1,
         p = q * b + c, q = r * b + d
  PROVE  /\ p = r * (b * b) + (c + b * d) /\ c + b * d \in 0 .. (b * b) - 1
         /\ p \div (b * b) = r /\ p % (b * b) = c + b * d
         /\ (c + b * d) % b = c /\ (c + b * d) \div b = d
<1>1. p = r * (b * b) + (c + b * d) /\ c + b * d = d * b + c
  <2>1. (r * b + d) * b + c = r * (b * b) + (c + b * d) /\ c + b * d = d * b + c
    BY SMT
  <2> QED
    BY <2>1
<1> DEFINE w == c + b * d
           m == b * b
<1>2. w \in 0 .. m - 1 /\ m \in Nat \ {0}
  <2>1. d \in Nat /\ c \in Nat /\ b \in Nat /\ d < b /\ c < b
    OBVIOUS
  <2>2. d * b \in Nat /\ b * d = d * b /\ d * b + b <= b * b /\ b * b \in Nat
    BY <2>1, Times
  <2> QED
    BY <2>1, <2>2
<1>3. w = d * b + c /\ p = r * m + w
  BY <1>1
<1> HIDE DEF w, m
<1>4. p \div m = r /\ p % m = w
  BY <1>2, <1>3, Floor
<1>5. w \in Int /\ d \in Int
  BY <1>2
<1>6. w % b = c /\ w \div b = d
  BY Zenon, <1>3, <1>5, Floor
<1> QED
  BY <1>1, <1>2, <1>3, <1>4, <1>6 DEF w, m

LEMMA LongOf ==
  ASSUME NEW x \in Int, NEW i \in Longs
  PROVE  /\ W!LongBase \in Nat \ {0} /\ Part(x, i) \in Int /\ Part(x, i + 4) \in Int
         /\ LongAt(x, i) \in 0 .. W!LongBase - 1
         /\ LongAt(x, i) = WordAt(x, i) + W!WordBase * WordAt(x, i + 2)
         /\ Part(x, i + 4) = Part(x, i) \div W!LongBase
         /\ Part(x, i) = Part(x, i + 4) * W!LongBase + LongAt(x, i)
         /\ LongAt(x, i) % W!WordBase = WordAt(x, i)
         /\ LongAt(x, i) \div W!WordBase = WordAt(x, i + 2)
<1> DEFINE b == W!WordBase
           p == Part(x, i)
           q == Part(x, i + 2)
           r == Part(x, i + 4)
           c == WordAt(x, i)
           d == WordAt(x, i + 2)
<1>1. i \in 0 .. Size - 2 /\ i + 2 \in 0 .. Size - 2 /\ (i + 2) + 2 = i + 4
  BY FewPowers DEF Longs
<1>2. p \in Int /\ q \in Int /\ c \in 0 .. b - 1 /\ p = q * b + c /\ b \in Nat \ {0}
  BY Zenon, <1>1, WordOf
<1>3. r \in Int /\ d \in 0 .. b - 1 /\ q = r * b + d
  <2>1. Part(x, (i + 2) + 2) \in Int /\ WordAt(x, i + 2) \in 0 .. W!WordBase - 1
        /\ Part(x, i + 2) = Part(x, (i + 2) + 2) * W!WordBase + WordAt(x, i + 2)
    BY Zenon, <1>1, WordOf
  <2> QED
    BY <1>1, <2>1
<1>4. W!LongBase = b * b
  <2>1. Base ^ 4 = Base ^ 2 * Base ^ 2
    BY FewPowers
  <2> QED
    BY <2>1, Zenon DEF W!LongBase, W!WordBase
<1>5. W!LongBase \in Nat \ {0}
  BY FewPowers DEF W!LongBase
<1>6. LongAt(x, i) = p % (b * b)
  BY <1>4, Zenon DEF LongAt
<1> HIDE DEF b, p, q, r, c, d
<1>7. /\ p = r * (b * b) + (c + b * d) /\ c + b * d \in 0 .. (b * b) - 1
      /\ p \div (b * b) = r /\ p % (b * b) = c + b * d
      /\ (c + b * d) % b = c /\ (c + b * d) \div b = d
  BY <1>2, <1>3, TwoFloors
<1>8. LongAt(x, i) = c + b * d
  BY <1>6, <1>7
<1>9. /\ LongAt(x, i) \in 0 .. W!LongBase - 1 /\ r = p \div W!LongBase
      /\ p = r * W!LongBase + LongAt(x, i)
  BY <1>4, <1>7, <1>8, Zenon
<1>10. LongAt(x, i) % b = c /\ LongAt(x, i) \div b = d
  BY <1>7, <1>8, Zenon
<1> QED
  BY <1>2, <1>3, <1>5, <1>8, <1>9, <1>10, Zenon DEF b, p, q, r, c, d

(* The long in a row of which four digits are those of x, and the row in   *)
(* which they become t's.                                                  *)
HasLong(d, x, i) ==
  \A p \in 0 .. Size - 1 : i <= p /\ p < i + 4 => d[p] = DigitOf(x, p)
WithLong(d, t, i) ==
  [p \in 0 .. Size - 1 |-> IF i <= p /\ p < i + 4 THEN DigitOf(t, p) ELSE d[p]]

LEMMA LongIn ==
  ASSUME NEW x \in Int, NEW t \in Int, NEW d \in Row, NEW i \in Longs, HasLong(d, x, i)
  PROVE  /\ W!Long(d, i) = LongAt(x, i)
         /\ W!PutLong(d, i, LongAt(t, i)) = WithLong(d, t, i)
<1>1. /\ i \in 0 .. Size - 2 /\ i + 2 \in 0 .. Size - 2
      /\ i \in 0 .. Size - 1 /\ i + 1 \in 0 .. Size - 1
      /\ i + 2 \in 0 .. Size - 1 /\ i + 3 \in 0 .. Size - 1 /\ (i + 2) + 1 = i + 3
  BY FewPowers DEF Longs
<1>2. /\ d[i] = DigitOf(x, i) /\ d[i + 1] = DigitOf(x, i + 1)
      /\ d[i + 2] = DigitOf(x, i + 2) /\ d[(i + 2) + 1] = DigitOf(x, (i + 2) + 1)
  BY <1>1 DEF HasLong
<1>3. W!Word(d, i) = WordAt(x, i)
  <2>1. WordAt(x, i) = DigitOf(x, i) + Base * DigitOf(x, i + 1)
    BY <1>1, WordOf
  <2> QED
    BY <1>2, <2>1, Zenon DEF W!Word
<1>4. W!Word(d, i + 2) = WordAt(x, i + 2)
  <2>1. WordAt(x, i + 2) = DigitOf(x, i + 2) + Base * DigitOf(x, (i + 2) + 1)
    BY <1>1, WordOf
  <2> QED
    BY <1>2, <2>1, Zenon DEF W!Word
<1>5. LongAt(x, i) = WordAt(x, i) + W!WordBase * WordAt(x, i + 2)
  BY LongOf
<1>6. W!Long(d, i) = LongAt(x, i)
  BY <1>3, <1>4, <1>5, Zenon DEF W!Long
<1>7. /\ LongAt(t, i) % W!WordBase = WordAt(t, i)
      /\ LongAt(t, i) \div W!WordBase = WordAt(t, i + 2)
  BY LongOf
<1>8. WordAt(t, i) % Base = DigitOf(t, i) /\ (WordAt(t, i) \div Base) % Base = DigitOf(t, i + 1)
  BY Zenon, <1>1, WordOf
<1>9. /\ WordAt(t, i + 2) % Base = DigitOf(t, i + 2)
      /\ (WordAt(t, i + 2) \div Base) % Base = DigitOf(t, (i + 2) + 1)
  BY Zenon, <1>1, WordOf
<1> DEFINE a0 == DigitOf(t, i)
           a1 == DigitOf(t, i + 1)
           a2 == DigitOf(t, i + 2)
           a3 == DigitOf(t, (i + 2) + 1)
<1>10. W!PutLong(d, i, LongAt(t, i))
         = [[d EXCEPT ![i] = a0, ![i + 1] = a1] EXCEPT ![i + 2] = a2, ![(i + 2) + 1] = a3]
  BY <1>7, <1>8, <1>9, Zenon DEF W!PutLong, W!PutWord
<1>11. [[d EXCEPT ![i] = a0, ![i + 1] = a1] EXCEPT ![i + 2] = a2, ![(i + 2) + 1] = a3]
         = WithLong(d, t, i)
  <2>1. \A p \in 0 .. Size - 1 :
          i <= p /\ p < i + 4 <=> (p = i \/ p = i + 1 \/ p = i + 2 \/ p = (i + 2) + 1)
    BY <1>1
  <2>2. i # i + 1 /\ i # i + 2 /\ i # (i + 2) + 1 /\ i + 1 # i + 2 /\ i + 1 # (i + 2) + 1
        /\ i + 2 # (i + 2) + 1
    BY <1>1
  <2>3. DOMAIN d = 0 .. Size - 1
    BY DEF Row
  <2> DEFINE R == [[d EXCEPT ![i] = a0, ![i + 1] = a1] EXCEPT ![i + 2] = a2, ![(i + 2) + 1] = a3]
  <2>4. ASSUME NEW p \in 0 .. Size - 1
        PROVE  R[p] = IF i <= p /\ p < i + 4 THEN DigitOf(t, p) ELSE d[p]
    BY Zenon, <1>1, <2>1, <2>2, <2>3
  <2>5. R = [p \in 0 .. Size - 1 |-> R[p]]
    BY Zenon, <2>3
  <2> HIDE DEF R
  <2> QED
    BY Zenon, <2>4, <2>5 DEF R, WithLong
<1> QED
  BY <1>6, <1>10, <1>11

LEMMA LongsIn ==
  /\ \A d \in Row, i \in Longs : W!Long(d, i) \in Int
  /\ \A d \in Row, i \in Longs, l \in Int : W!PutLong(d, i, l) \in Row
  /\ W!LongBase \in Nat \ {0} /\ W!LongBase % 2 = 0 /\ 2 * (W!LongBase \div 2) = W!LongBase
  /\ W!LongBase \div 2 \in Nat
  /\ DOMAIN W!LongPlaces = 1 .. Size \div 4 /\ Size \div 4 \in Nat /\ 4 * (Size \div 4) = Size
  /\ \A k \in 1 .. Size \div 4 : /\ W!LongPlaces[k] = 4 * (k - 1) /\ 4 * (k - 1) \in Longs
                                 /\ 4 * (k - 1) + 4 = 4 * k
<1>1. \A i \in Longs : i \in Words /\ i + 2 \in Words
  BY FewPowers DEF Longs, Words
<1>2. ASSUME NEW d \in Row, NEW i \in Longs PROVE W!Long(d, i) \in Int
  <2> DEFINE u == W!Word(d, i)
             v == W!Word(d, i + 2)
             w == W!WordBase
  <2>1. u \in Int /\ v \in Int /\ w \in Nat
    BY <1>1, WordsIn
  <2>2. W!Long(d, i) = u + w * v
    BY Zenon DEF W!Long
  <2> HIDE DEF u, v, w
  <2>3. u + w * v \in Int
    BY <2>1, SMT
  <2> QED
    BY <2>2, <2>3
<1>3. ASSUME NEW d \in Row, NEW i \in Longs, NEW l \in Int PROVE W!PutLong(d, i, l) \in Row
  <2> DEFINE w == W!WordBase
             u == l % w
             v == l \div w
  <2>1. u \in Int /\ v \in Int
    <3>1. w \in Nat \ {0}
      BY WordsIn
    <3> HIDE DEF w
    <3> QED
      BY <3>1, FloorOf
  <2>2. W!PutLong(d, i, l) = W!PutWord(W!PutWord(d, i, u), i + 2, v)
    BY Zenon DEF W!PutLong
  <2> HIDE DEF u, v
  <2>3. W!PutWord(d, i, u) \in Row
    BY <1>1, <2>1, WordsIn
  <2> DEFINE e == W!PutWord(d, i, u)
  <2> HIDE DEF e
  <2>4. W!PutWord(e, i + 2, v) \in Row
    BY <1>1, <2>1, <2>3, WordsIn DEF e
  <2> QED
    BY <2>2, <2>4 DEF e
<1>4. W!LongBase \in Nat \ {0} /\ W!LongBase % 2 = 0 /\ 2 * (W!LongBase \div 2) = W!LongBase
      /\ W!LongBase \div 2 \in Nat
  <2> DEFINE c == Base \div 2
             e == Base ^ 3
             l == W!LongBase
             m == c * e
  <2>1. c \in Nat /\ Base = 2 * c /\ e \in Nat /\ l = Base * e /\ l \in Nat \ {0}
    BY FewPowers, DivisionAssumption DEF W!LongBase
  <2> HIDE DEF c, e, l
  <2>2. (2 * c) * e = m * 2 /\ m \in Nat
    BY <2>1, SMT
  <2>3. l = m * 2
    BY <2>1, <2>2
  <2> HIDE DEF m
  <2>4. l \div 2 = m /\ l % 2 = 0
    BY <2>2, <2>3
  <2> QED
    BY <2>1, <2>2, <2>3, <2>4 DEF l
<1>5. Size \div 4 \in Nat /\ 4 * (Size \div 4) = Size /\ DOMAIN W!LongPlaces = 1 .. Size \div 4
  BY DivisionAssumption DEF W!LongPlaces
<1>6. ASSUME NEW k \in 1 .. Size \div 4
      PROVE  /\ W!LongPlaces[k] = 4 * (k - 1) /\ 4 * (k - 1) \in Longs
             /\ 4 * (k - 1) + 4 = 4 * k
  <2>1. 4 * (k - 1) \in Longs /\ 4 * (k - 1) + 4 = 4 * k
    BY <1>5, FewPowers DEF Longs
  <2> QED
    BY <2>1 DEF W!LongPlaces
<1> QED
  BY <1>2, <1>3, <1>4, <1>5, <1>6

(* A step of bch_bit_shl.                                                  *)
ShlStep(st, i) ==
  LET l == W!Long(st.d, i)
  IN [d |-> W!PutLong(st.d, i, ((2 * l) % W!LongBase) + st.bit),
      bit |-> (2 * l) \div W!LongBase]

BitState == [d : Row, bit : Int]

LEMMA ShlFold ==
  ASSUME NEW d \in Row, NEW h, h[0] = [d |-> d, bit |-> 0],
         \A k \in 1 .. Size \div 4 : ShlStep(h[k - 1], 4 * (k - 1)) = h[k]
  PROVE  W!BitShl(d) = h[Size \div 4].d
<1> DEFINE n == Size \div 4
           b == [d |-> d, bit |-> 0]
           Is(f) == f = [t \in SUBSET DOMAIN W!LongPlaces |->
                           IF t = {} THEN b
                           ELSE ShlStep(f[t \ {W!Max(t)}], W!LongPlaces[W!Max(t)])]
<1>1. ASSUME NEW st \in BitState, NEW k \in 1 .. n
      PROVE  ShlStep(st, W!LongPlaces[k]) \in BitState
  <2> DEFINE i == W!LongPlaces[k]
             l == W!Long(st.d, i)
             w == W!LongBase
  <2>1. st.d \in Row /\ st.bit \in Int /\ i \in Longs /\ w \in Nat \ {0}
    BY Zenon, LongsIn DEF BitState
  <2>2. l \in Int
    BY Zenon, <2>1, LongsIn
  <2> HIDE DEF l, i, w
  <2>3. 2 * l \in Int
    BY <2>2
  <2>4. (2 * l) % w \in 0 .. w - 1 /\ (2 * l) \div w \in Int
    BY Zenon, <2>1, <2>3, FloorOf
  <2>5. ((2 * l) % w) + st.bit \in Int
    BY <2>1, <2>4
  <2>6. W!PutLong(st.d, i, ((2 * l) % w) + st.bit) \in Row
    BY Zenon, <2>1, <2>5, LongsIn
  <2>7. ShlStep(st, i) = [d |-> W!PutLong(st.d, i, ((2 * l) % w) + st.bit), bit |-> (2 * l) \div w]
    BY Zenon DEF ShlStep, l, w
  <2> QED
    BY <2>4, <2>6, <2>7 DEF BitState, i
<1>2. \E f : Is(f)
  <2> DEFINE g == [x \in BitState \X (1 .. n) |-> ShlStep(x[1], W!LongPlaces[x[2]])]
  <2>1. n \in Nat /\ DOMAIN W!LongPlaces = 1 .. n
    BY LongsIn
  <2>2. b \in BitState
    BY DEF BitState
  <2>3. g \in [BitState \X (1 .. n) -> BitState]
    BY <1>1
  <2>4. PICK f : /\ f = [t \in SUBSET (1 .. n) |->
                           IF t = {} THEN b ELSE g[<<f[t \ {W!Max(t)}], W!Max(t)>>]]
                 /\ \A t \in SUBSET (1 .. n) : f[t] \in BitState
    <3> HIDE DEF g, b, n
    <3>1. \E f : IsFold(f, n, BitState, b, g)
      BY Zenon, <2>1, <2>2, <2>3, FoldExists
    <3> QED
      BY <3>1, Zenon DEF IsFold
  <2>5. ASSUME NEW t \in SUBSET (1 .. n), t # {}
        PROVE  g[<<f[t \ {W!Max(t)}], W!Max(t)>>]
                 = ShlStep(f[t \ {W!Max(t)}], W!LongPlaces[W!Max(t)])
    <3>1. W!Max(t) \in t
      BY Zenon, <2>1, <2>5, MaxOf
    <3>2. W!Max(t) \in 1 .. n /\ f[t \ {W!Max(t)}] \in BitState
      BY Zenon, <2>4, <3>1
    <3> QED
      BY <3>2
  <2>6. Is(f)
    <3> HIDE DEF g, b, n
    <3> QED
      BY Zenon, <2>1, <2>4, <2>5
  <2> QED
    <3> HIDE DEF Is
    <3> QED
      BY <2>6
<1>3. PICK f : Is(f) /\ W!BitShl(d) = f[DOMAIN W!LongPlaces].d
  <2>1. Is(CHOOSE f : Is(f))
    <3> HIDE DEF Is
    <3> QED
      BY <1>2
  <2> QED
    BY <2>1, Zenon DEF W!BitShl, ShlStep, W!FoldLeft, W!MapThenFoldSet
<1>4. f[{}] = h[0]
  BY <1>3
<1>5. ASSUME NEW k \in 1 .. n, f[1 .. k - 1] = h[k - 1] PROVE f[1 .. k] = h[k]
  <2>1. /\ n \in Nat /\ DOMAIN W!LongPlaces = 1 .. n
        /\ 1 .. k \in SUBSET (1 .. n) /\ 1 .. k # {} /\ W!Max(1 .. k) = k
        /\ (1 .. k) \ {k} = 1 .. k - 1 /\ W!LongPlaces[k] = 4 * (k - 1)
    BY Zenon, LongsIn, Beginnings
  <2>2. f[1 .. k] = ShlStep(f[1 .. k - 1], 4 * (k - 1))
    <3> DEFINE t == 1 .. k
    <3>1. t \in SUBSET DOMAIN W!LongPlaces /\ t # {}
      BY <2>1
    <3>2. f[t] = ShlStep(f[t \ {W!Max(t)}], W!LongPlaces[W!Max(t)])
      <4> HIDE DEF t, b
      <4> QED
        BY Zenon, <1>3, <3>1
    <3> QED
      BY Zenon, <2>1, <3>2
  <2> QED
    BY <1>5, <2>2 DEF n
<1>6. f[1 .. n] = h[n]
  <2>1. n \in Nat
    BY LongsIn
  <2> HIDE DEF n, Is
  <2> QED
    BY <1>4, <1>5, <2>1, FoldSteps
<1> QED
  BY Zenon, <1>3, <1>6, LongsIn

(* Twice a number of which the digits from i on are p.                     *)
LEMMA TwiceFloor ==
  ASSUME NEW x \in Int, NEW b \in Nat \ {0}
  PROVE  (2 * x) \div b - 2 * (x \div b) \in {0, 1}
<1> DEFINE p == x \div b
           r == x % b
           y == 2 * x
<1>1. p \in Int /\ r \in 0 .. b - 1 /\ x = p * b + r
  BY FloorOf
<1> HIDE DEF p, r
<1>2. y = (2 * p) * b + 2 * r /\ y = (2 * p + 1) * b + (2 * r - b) /\ y \in Int
  <2>1. 2 * (p * b + r) = (2 * p) * b + 2 * r /\ 2 * (p * b + r) = (2 * p + 1) * b + (2 * r - b)
    BY <1>1, SMT
  <2> QED
    BY <1>1, <2>1
<1>3. \E q \in {2 * p, 2 * p + 1}, s \in 0 .. b - 1 : q \in Int /\ y = q * b + s
  <2>1. CASE 2 * r < b
    <3>1. 2 * r \in 0 .. b - 1 /\ 2 * p \in Int
      BY <1>1, <2>1
    <3> QED
      BY <1>2, <3>1
  <2>2. CASE ~(2 * r < b)
    <3>1. 2 * r - b \in 0 .. b - 1 /\ 2 * p + 1 \in Int
      BY <1>1, <2>2
    <3> QED
      BY <1>2, <3>1
  <2> QED
    BY <2>1, <2>2
<1> HIDE DEF y
<1>4. y \div b \in {2 * p, 2 * p + 1}
  <2>1. PICK q \in {2 * p, 2 * p + 1}, s \in 0 .. b - 1 : q \in Int /\ y = q * b + s
    BY Zenon, <1>3
  <2>2. y \div b = q
    BY <1>2, <2>1, Floor
  <2> QED
    BY <2>1, <2>2
<1>5. y \div b - 2 * p \in {0, 1}
  BY <1>1, <1>4
<1> QED
  BY <1>5 DEF y, p

(* A long of 2 * x, of which c comes from the long below.                  *)
LEMMA TwiceLong ==
  ASSUME NEW w \in Nat \ {0}, w % 2 = 0, NEW X1 \in Int, NEW l \in 0 .. w - 1,
         NEW c \in {0, 1}
  PROVE  /\ (2 * (X1 * w + l) + c) % w = ((2 * l) % w) + c
         /\ (2 * (X1 * w + l) + c) \div w = 2 * X1 + (2 * l) \div w
<1> DEFINE T == 2 * (X1 * w + l) + c
           y == 2 * l
           k == y \div w
           m == y % w
           q == 2 * X1 + k
           r == m + c
<1>1. k \in Int /\ m \in 0 .. w - 1 /\ y = k * w + m /\ y \in Int
  <2>1. y \in Int
    OBVIOUS
  <2> HIDE DEF y
  <2> QED
    BY <2>1, FloorOf
<1> HIDE DEF k, m
<1>2. m # w - 1
  <2>1. PICK u \in Int : w = 2 * u
    BY SMT
  <2>2. k * (2 * u) = 2 * (k * u) /\ k * u \in Int
    BY <1>1, <2>1, SMT
  <2> DEFINE z == k * u
  <2>3. z \in Int /\ 2 * l = 2 * z + m
    BY <1>1, <2>1, <2>2
  <2> HIDE DEF z
  <2> QED
    BY <1>1, <2>1, <2>3
<1>3. r \in 0 .. w - 1 /\ q \in Int
  BY <1>1, <1>2
<1>4. T = q * w + r
  <2>1. 2 * (X1 * w + l) + c = 2 * (X1 * w) + (2 * l) + c /\ X1 * w \in Int
    BY SMT
  <2>2. (2 * X1 + k) * w = 2 * (X1 * w) + k * w /\ k * w \in Int
    BY <1>1, SMT
  <2> DEFINE u == X1 * w
             v == k * w
  <2> HIDE DEF u, v
  <2>3. T = 2 * u + y + c /\ q * w = 2 * u + v /\ y = v + m /\ u \in Int /\ v \in Int
    BY <1>1, <2>1, <2>2 DEF u, v
  <2> DEFINE p == q * w
  <2> HIDE DEF y, p, q, T
  <2> QED
    BY <1>1, <2>3 DEF p
<1>5. T \in Int
  <2>1. X1 * w \in Int
    BY SMT
  <2> DEFINE u == X1 * w
  <2> HIDE DEF u
  <2>2. 2 * (u + l) + c \in Int
    BY <2>1 DEF u
  <2> QED
    BY <2>2 DEF u
<1> HIDE DEF q, r, T
<1>6. T \div w = q /\ T % w = r
  BY <1>3, <1>4, <1>5, Floor
<1> QED
  BY <1>6 DEF q, r, k, m, y, T

(* The states of bch_bit_shl.                                              *)
Twice(x, i) == Part(2 * x, i) - 2 * Part(x, i)

LEMMA TwiceOn ==
  ASSUME NEW x \in Int, NEW i \in Longs
  PROVE  /\ LongAt(2 * x, i) = ((2 * LongAt(x, i)) % W!LongBase) + Twice(x, i)
         /\ Twice(x, i + 4) = (2 * LongAt(x, i)) \div W!LongBase
<1> DEFINE y == 2 * x
           w == W!LongBase
           X1 == Part(x, i + 4)
           l == LongAt(x, i)
           T == Part(y, i)
           c == Twice(x, i)
<1>1. /\ X1 \in Int /\ l \in 0 .. w - 1 /\ w \in Nat \ {0} /\ w % 2 = 0
      /\ Part(x, i) = X1 * w + l /\ Part(x, i) \in Int
  BY LongOf, LongsIn
<1>2. y \in Int
  OBVIOUS
<1>3. T \in Int /\ Part(y, i + 4) = T \div w /\ LongAt(y, i) = T % w
  <2> HIDE DEF y
  <2>1. Part(y, i) \in Int /\ Part(y, i + 4) = Part(y, i) \div W!LongBase
    BY <1>2, LongOf
  <2> QED
    BY <2>1 DEF LongAt
<1>4. c \in {0, 1} /\ T = 2 * (X1 * w + l) + c
  <2>1. i \in 0 .. Size + 1
    BY FewPowers DEF Longs
  <2>2. Base ^ i \in Nat \ {0}
    BY <2>1, Powers
  <2> DEFINE b == Base ^ i
  <2> HIDE DEF b
  <2>3. (2 * x) \div b - 2 * (x \div b) \in {0, 1}
    BY Zenon, <2>2, TwiceFloor DEF b
  <2>4. c \in {0, 1}
    BY <2>3 DEF Twice, Part, b
  <2>5. c = T - 2 * Part(x, i)
    BY DEF Twice
  <2> DEFINE p == Part(x, i)
  <2>6. T = 2 * p + c
    <3> HIDE DEF T, p, c
    <3> QED
      BY <1>1, <1>3, <2>4, <2>5 DEF p
  <2> QED
    BY <1>1, <2>4, <2>6
<1> HIDE DEF y, w, X1, l, T, c
<1>5. T % w = ((2 * l) % w) + c /\ T \div w = 2 * X1 + (2 * l) \div w
  <2>1. /\ (2 * (X1 * w + l) + c) % w = ((2 * l) % w) + c
        /\ (2 * (X1 * w + l) + c) \div w = 2 * X1 + (2 * l) \div w
    BY Zenon, <1>1, <1>4, TwiceLong
  <2> QED
    BY <1>4, <2>1, Zenon
<1>6. LongAt(y, i) = ((2 * l) % w) + c
  BY <1>3, <1>5
<1>7. Part(y, i + 4) - 2 * X1 = (2 * l) \div w
  <2> DEFINE k == (2 * l) \div w
  <2>1. k \in Int
    <3> DEFINE z == 2 * l
    <3>1. z \in Int
      BY <1>1
    <3> HIDE DEF z
    <3>2. z \div w \in Int
      BY <1>1, <3>1, FloorOf
    <3> QED
      BY <3>2 DEF z
  <2>2. Part(y, i + 4) = 2 * X1 + k
    BY <1>3, <1>5
  <2> HIDE DEF k
  <2>3. Part(y, i + 4) - 2 * X1 = k
    BY <1>1, <2>1, <2>2
  <2> QED
    BY <2>3 DEF k
<1>8. Twice(x, i + 4) = (2 * l) \div w
  BY <1>7 DEF Twice, y, X1
<1> QED
  BY <1>6, <1>8 DEF y, w, l, c

(* bch_bit_shl by 1.                                                       *)
LEMMA ShlRight ==
  ASSUME NEW x \in Int
  PROVE  W!BitShl(W!Stored(x)) = W!Stored(2 * x)
<1> DEFINE t == 2 * x
           n == Size \div 4
           S(k) == [d |-> Mix(t, x, 4 * k), bit |-> Twice(x, 4 * k)]
           h == [k \in 0 .. n |-> S(k)]
<1>1. t \in Int /\ n \in Nat /\ 4 * 0 = 0 /\ 4 * n = Size
  BY LongsIn
<1>2. h[0] = [d |-> W!Stored(x), bit |-> 0] /\ h[n].d = W!Stored(t)
  <2>1. Mix(t, x, 0) = W!Stored(x) /\ Mix(t, x, Size) = W!Stored(t)
    <3> HIDE DEF t
    <3> QED
      BY <1>1, MixEnds
  <2>2. Twice(x, 0) = 0
    <3>1. Part(t, 0) = t
      <4> HIDE DEF t
      <4> QED
        BY <1>1, PartSteps
    <3>2. Part(x, 0) = x
      BY PartSteps
    <3> QED
      BY <1>1, <3>1, <3>2 DEF Twice
  <2>3. S(0) = [d |-> W!Stored(x), bit |-> 0] /\ S(n).d = W!Stored(t)
    <3> HIDE DEF t, n
    <3> QED
      BY <1>1, <2>1, <2>2
  <2> QED
    BY <1>1, <2>3
<1>3. ASSUME NEW k \in 1 .. n PROVE ShlStep(h[k - 1], 4 * (k - 1)) = h[k]
  <2> DEFINE i == 4 * (k - 1)
             st == S(k - 1)
             w == W!LongBase
             l == LongAt(x, i)
             c == Twice(x, i)
  <2>1. h[k - 1] = st /\ h[k] = S(k)
    BY <1>1
  <2>2. i \in Longs /\ i + 4 = 4 * k
    BY LongsIn
  <2>3. st.d = Mix(t, x, i) /\ st.bit = c
    OBVIOUS
  <2>4. S(k) = [d |-> Mix(t, x, i + 4), bit |-> Twice(x, i + 4)]
    BY <2>2, Zenon
  <2> HIDE DEF i, st, h, S
  <2>5. /\ W!Long(Mix(t, x, i), i) = l
        /\ W!PutLong(Mix(t, x, i), i, LongAt(t, i)) = Mix(t, x, i + 4)
    <3> HIDE DEF t
    <3> DEFINE d == Mix(t, x, i)
    <3>1. i \in 0 .. Size - 4 /\ i \in Nat
      BY <2>2, FewPowers DEF Longs
    <3>2. d \in Row
      BY <1>1, <3>1, MixEnds
    <3>3. HasLong(d, x, i)
      BY <3>1 DEF Mix, HasLong
    <3>4. WithLong(d, t, i) = Mix(t, x, i + 4)
      BY <3>1 DEF Mix, WithLong
    <3> HIDE DEF d
    <3>5. /\ W!Long(d, i) = LongAt(x, i)
          /\ W!PutLong(d, i, LongAt(t, i)) = WithLong(d, t, i)
      BY <1>1, <2>2, <3>2, <3>3, LongIn
    <3> QED
      BY <3>4, <3>5 DEF d
  <2>6. LongAt(t, i) = ((2 * l) % w) + c /\ Twice(x, i + 4) = (2 * l) \div w
    BY <2>2, TwiceOn
  <2> HIDE DEF c, l, w, t
  <2>7. ShlStep(st, i)
          = [d |-> W!PutLong(st.d, i, ((2 * l) % w) + c), bit |-> (2 * l) \div w]
    BY <2>3, <2>5, Zenon DEF ShlStep, w
  <2>8. ShlStep(st, i) = [d |-> Mix(t, x, i + 4), bit |-> Twice(x, i + 4)]
    BY <2>3, <2>5, <2>6, <2>7, Zenon
  <2> QED
    BY <2>1, <2>4, <2>8, Zenon DEF i
<1>4. W!Stored(x) \in Row
  BY StoredIs
<1>5. W!BitShl(W!Stored(x)) = h[n].d
  <2>1. /\ h[0] = [d |-> W!Stored(x), bit |-> 0]
        /\ \A k \in 1 .. Size \div 4 : ShlStep(h[k - 1], 4 * (k - 1)) = h[k]
    BY Zenon, <1>2, <1>3
  <2> HIDE DEF h
  <2> QED
    BY <1>4, <2>1, ShlFold
<1> QED
  BY <1>2, <1>5

(* A step of bch_bit_shr and of bch_keep_sign_shift_right.                 *)
ShrStep(st, i) ==
  LET l == W!Long(st.d, i)
  IN [d |-> W!PutLong(st.d, i, (l \div 2) + st.bit * (W!LongBase \div 2)),
      bit |-> l % 2]

Downwards == W!Reverse(W!LongPlaces)

LEMMA DownwardsIn ==
  /\ DOMAIN Downwards = 1 .. Size \div 4 /\ Size \div 4 \in Nat
  /\ \A k \in 1 .. Size \div 4 :
       /\ Downwards[k] = 4 * (Size \div 4 - k) /\ 4 * (Size \div 4 - k) \in Longs
       /\ 4 * (Size \div 4 - k) + 4 = 4 * (Size \div 4 - (k - 1))
<1> DEFINE n == Size \div 4
<1>1. n \in Nat /\ 4 * n = Size
  BY LongsIn
<1>2. Len(W!LongPlaces) = n
  BY <1>1 DEF W!LongPlaces
<1>3. Downwards = [k \in 1 .. n |-> W!LongPlaces[(n - k) + 1]]
  BY <1>2, Zenon DEF Downwards, W!Reverse
<1> HIDE DEF n
<1>4. ASSUME NEW k \in 1 .. n
      PROVE  /\ Downwards[k] = 4 * (n - k) /\ 4 * (n - k) \in Longs
             /\ 4 * (n - k) + 4 = 4 * (n - (k - 1))
  <2>1. (n - k) + 1 \in 1 .. n /\ ((n - k) + 1) - 1 = n - k
    BY <1>1
  <2>2. W!LongPlaces[(n - k) + 1] = 4 * (((n - k) + 1) - 1)
    BY <2>1, LongsIn DEF n
  <2>3. 4 * (n - k) \in Longs /\ 4 * (n - k) + 4 = 4 * (n - (k - 1))
    BY <1>1 DEF Longs
  <2> QED
    BY <1>3, <2>1, <2>2, <2>3
<1>5. DOMAIN Downwards = 1 .. n
  BY <1>3
<1> QED
  BY <1>1, <1>4, <1>5 DEF n

LEMMA ShrFold ==
  ASSUME NEW d \in Row, NEW top \in Int, NEW h, h[0] = [d |-> d, bit |-> top],
         \A k \in 1 .. Size \div 4 : ShrStep(h[k - 1], 4 * (Size \div 4 - k)) = h[k]
  PROVE  W!ShiftRight(d, top) = h[Size \div 4].d
<1> DEFINE n == Size \div 4
           b == [d |-> d, bit |-> top]
           Is(f) == f = [t \in SUBSET DOMAIN Downwards |->
                           IF t = {} THEN b
                           ELSE ShrStep(f[t \ {W!Max(t)}], Downwards[W!Max(t)])]
<1>1. ASSUME NEW st \in BitState, NEW k \in 1 .. n
      PROVE  ShrStep(st, Downwards[k]) \in BitState
  <2> DEFINE i == Downwards[k]
             l == W!Long(st.d, i)
             v == W!LongBase \div 2
  <2>1. st.d \in Row /\ st.bit \in Int /\ i \in Longs /\ v \in Nat
    BY DownwardsIn, LongsIn DEF BitState
  <2>2. l \in Int
    BY Zenon, <2>1, LongsIn
  <2> DEFINE c == st.bit
  <2> HIDE DEF l, i, v, c
  <2>3. l \div 2 \in Int /\ l % 2 \in Int
    BY <2>2
  <2>4. c * v \in Int
    BY <2>1, SMT DEF c
  <2>5. (l \div 2) + c * v \in Int
    BY <2>3, <2>4
  <2>6. W!PutLong(st.d, i, (l \div 2) + c * v) \in Row
    BY Zenon, <2>1, <2>5, LongsIn
  <2>7. ShrStep(st, i) = [d |-> W!PutLong(st.d, i, (l \div 2) + c * v), bit |-> l % 2]
    BY Zenon DEF ShrStep, l, v, c
  <2> QED
    BY <2>3, <2>6, <2>7 DEF BitState, i
<1>2. \E f : Is(f)
  <2> DEFINE g == [x \in BitState \X (1 .. n) |-> ShrStep(x[1], Downwards[x[2]])]
  <2>1. n \in Nat /\ DOMAIN Downwards = 1 .. n
    BY DownwardsIn
  <2>2. b \in BitState
    BY DEF BitState
  <2>3. g \in [BitState \X (1 .. n) -> BitState]
    BY <1>1
  <2>4. PICK f : /\ f = [t \in SUBSET (1 .. n) |->
                           IF t = {} THEN b ELSE g[<<f[t \ {W!Max(t)}], W!Max(t)>>]]
                 /\ \A t \in SUBSET (1 .. n) : f[t] \in BitState
    <3> HIDE DEF g, b, n
    <3>1. \E f : IsFold(f, n, BitState, b, g)
      BY Zenon, <2>1, <2>2, <2>3, FoldExists
    <3> QED
      BY <3>1, Zenon DEF IsFold
  <2>5. ASSUME NEW t \in SUBSET (1 .. n), t # {}
        PROVE  g[<<f[t \ {W!Max(t)}], W!Max(t)>>]
                 = ShrStep(f[t \ {W!Max(t)}], Downwards[W!Max(t)])
    <3>1. W!Max(t) \in t
      BY Zenon, <2>1, <2>5, MaxOf
    <3>2. W!Max(t) \in 1 .. n /\ f[t \ {W!Max(t)}] \in BitState
      BY Zenon, <2>4, <3>1
    <3> QED
      BY <3>2
  <2>6. Is(f)
    <3> HIDE DEF g, b, n
    <3> QED
      BY Zenon, <2>1, <2>4, <2>5
  <2> QED
    <3> HIDE DEF Is
    <3> QED
      BY <2>6
<1>3. PICK f : Is(f) /\ W!ShiftRight(d, top) = f[DOMAIN Downwards].d
  <2>1. Is(CHOOSE f : Is(f))
    <3> HIDE DEF Is
    <3> QED
      BY <1>2
  <2> QED
    BY <2>1, Zenon DEF W!ShiftRight, ShrStep, Downwards, W!FoldLeft, W!MapThenFoldSet
<1>4. f[{}] = h[0]
  BY <1>3
<1>5. ASSUME NEW k \in 1 .. n, f[1 .. k - 1] = h[k - 1] PROVE f[1 .. k] = h[k]
  <2>1. /\ n \in Nat /\ DOMAIN Downwards = 1 .. n
        /\ 1 .. k \in SUBSET (1 .. n) /\ 1 .. k # {} /\ W!Max(1 .. k) = k
        /\ (1 .. k) \ {k} = 1 .. k - 1 /\ Downwards[k] = 4 * (Size \div 4 - k)
    BY Zenon, DownwardsIn, Beginnings
  <2>2. f[1 .. k] = ShrStep(f[1 .. k - 1], 4 * (Size \div 4 - k))
    <3> DEFINE t == 1 .. k
    <3>1. t \in SUBSET DOMAIN Downwards /\ t # {}
      BY Zenon, <2>1
    <3>2. f[t] = ShrStep(f[t \ {W!Max(t)}], Downwards[W!Max(t)])
      <4> HIDE DEF t, b
      <4> QED
        BY Zenon, <1>3, <3>1
    <3> QED
      BY Zenon, <2>1, <3>2
  <2> QED
    BY <1>5, <2>2 DEF n
<1>6. f[1 .. n] = h[n]
  <2>1. n \in Nat
    BY DownwardsIn
  <2> HIDE DEF n, Is
  <2> QED
    BY <1>4, <1>5, <2>1, FoldSteps
<1> QED
  BY Zenon, <1>3, <1>6, DownwardsIn

(* A long of half of a number, into which the lowest bit of what is above  *)
(* comes.                                                                  *)
LEMMA HalfLong ==
  ASSUME NEW w \in Nat \ {0}, w % 2 = 0, NEW X1 \in Int, NEW l \in 0 .. w - 1
  PROVE  /\ ((X1 * w + l) \div 2) % w = (l \div 2) + (X1 % 2) * (w \div 2)
         /\ (X1 * w + l) % 2 = l % 2
<1> DEFINE v == w \div 2
           y == X1 \div 2
           c == X1 % 2
           m == l \div 2
           e == l % 2
           r == m + c * v
           q == y * w + r
           p == X1 * w + l
<1>1. /\ v \in Nat /\ w = 2 * v /\ y \in Int /\ c \in {0, 1} /\ X1 = 2 * y + c
      /\ m \in Nat /\ e \in {0, 1} /\ l = 2 * m + e
  BY SMT
<1> HIDE DEF v, y, c, m, e
<1>2. r \in 0 .. w - 1
  <2>1. m < v
    BY <1>1
  <2>2. c * v \in {0, v}
    <3>1. 0 * v = 0 /\ 1 * v = v
      BY <1>1, SMT
    <3> QED
      BY <1>1, <3>1
  <2> DEFINE z == c * v
  <2>3. z \in {0, v}
    BY <2>2
  <2> HIDE DEF z
  <2>4. m + z \in 0 .. w - 1
    BY <1>1, <2>1, <2>3
  <2> QED
    BY <2>4 DEF z
<1>3. q \in Int /\ p \in Int /\ p = q * 2 + e
  <2>1. /\ (2 * y + c) * (2 * v) = 2 * (y * (2 * v)) + 2 * (c * v)
        /\ y * (2 * v) \in Int /\ c * v \in Int
    BY <1>1, SMT
  <2> DEFINE a == y * w
             b == c * v
             g == X1 * w
  <2>2. g = 2 * a + 2 * b /\ a \in Int /\ b \in Int
    BY <1>1, <2>1
  <2> HIDE DEF a, b, g
  <2>3. g + l = (a + (m + b)) * 2 + e /\ a + (m + b) \in Int /\ g + l \in Int
    BY <1>1, <2>2
  <2> QED
    BY <2>3 DEF a, b, g
<1>4. q = y * w + r
  OBVIOUS
<1> HIDE DEF p, q, r
<1>5. p \div 2 = q /\ p % 2 = e
  BY <1>1, <1>3
<1>6. q % w = r
  BY Zenon, <1>1, <1>2, <1>3, <1>4, Floor
<1> QED
  BY <1>5, <1>6 DEF p, r, m, c, v, e

LEMMA HalfOn ==
  ASSUME NEW x \in Int, NEW i \in Longs
  PROVE  /\ LongAt(x \div 2, i)
              = (LongAt(x, i) \div 2) + (Part(x, i + 4) % 2) * (W!LongBase \div 2)
         /\ Part(x, i) % 2 = LongAt(x, i) % 2
<1> DEFINE w == W!LongBase
           X1 == Part(x, i + 4)
           l == LongAt(x, i)
           p == Part(x, i)
<1>1. /\ X1 \in Int /\ l \in 0 .. w - 1 /\ w \in Nat \ {0} /\ w % 2 = 0
      /\ p = X1 * w + l
  BY LongOf, LongsIn
<1>2. Part(x \div 2, i) = p \div 2
  <2>1. i \in 0 .. Size + 1
    BY FewPowers DEF Longs
  <2>2. Base ^ i \in Nat \ {0}
    BY <2>1, Powers
  <2> DEFINE b == Base ^ i
  <2> HIDE DEF b
  <2>3. (x \div 2) \div b = x \div (2 * b) /\ (x \div b) \div 2 = x \div (b * 2)
    <3> DEFINE t == 2
    <3>1. t \in Nat \ {0} /\ b \in Nat \ {0}
      BY <2>2 DEF b
    <3> HIDE DEF t
    <3>2. (x \div t) \div b = x \div (t * b)
      BY ZenonT(60), <3>1, FloorTwice
    <3>3. (x \div b) \div t = x \div (b * t)
      BY ZenonT(60), <3>1, FloorTwice
    <3> QED
      BY <3>2, <3>3, ZenonT(60) DEF t
  <2>4. 2 * b = b * 2
    BY <2>2 DEF b
  <2> QED
    BY <2>3, <2>4, Zenon DEF Part, b
<1>3. LongAt(x \div 2, i) = (p \div 2) % w
  BY <1>2, Zenon DEF LongAt
<1> HIDE DEF w, X1, l, p
<1>4. /\ ((X1 * w + l) \div 2) % w = (l \div 2) + (X1 % 2) * (w \div 2)
      /\ (X1 * w + l) % 2 = l % 2
  BY Zenon, <1>1, HalfLong
<1> QED
  BY <1>1, <1>3, <1>4, Zenon DEF w, X1, l, p

(* What comes in at the top being the sign, the result is the half.        *)
LEMMA ShrRight ==
  ASSUME NEW x \in Int, NEW top \in Int, Part(x, Size) % 2 = top
  PROVE  W!ShiftRight(W!Stored(x), top) = W!Stored(x \div 2)
<1> DEFINE t == x \div 2
           n == Size \div 4
           S(k) == [d |-> Mix(x, t, 4 * (n - k)), bit |-> Part(x, 4 * (n - k)) % 2]
           h == [k \in 0 .. n |-> S(k)]
<1>1. t \in Int /\ n \in Nat /\ 4 * (n - 0) = Size /\ 4 * (n - n) = 0
  BY LongsIn
<1>2. h[0] = [d |-> W!Stored(x), bit |-> top] /\ h[n].d = W!Stored(t)
  <2>1. Mix(x, t, 0) = W!Stored(t) /\ Mix(x, t, Size) = W!Stored(x)
    <3> HIDE DEF t
    <3> QED
      BY <1>1, MixEnds
  <2>2. S(0) = [d |-> W!Stored(x), bit |-> top] /\ S(n).d = W!Stored(t)
    <3> HIDE DEF t, n
    <3> QED
      BY <1>1, <2>1
  <2> QED
    BY <1>1, <2>2
<1>3. ASSUME NEW k \in 1 .. n PROVE ShrStep(h[k - 1], 4 * (n - k)) = h[k]
  <2> DEFINE i == 4 * (n - k)
             st == S(k - 1)
             v == W!LongBase \div 2
             l == LongAt(x, i)
             c == Part(x, i + 4) % 2
  <2>1. h[k - 1] = st /\ h[k] = S(k)
    BY <1>1
  <2>2. i \in Longs /\ i + 4 = 4 * (n - (k - 1))
    BY DownwardsIn
  <2>3. st.d = Mix(x, t, i + 4) /\ st.bit = c
    BY <2>2, Zenon
  <2>4. S(k) = [d |-> Mix(x, t, i), bit |-> Part(x, i) % 2]
    BY Zenon
  <2> HIDE DEF i, st, h, S
  <2>5. /\ W!Long(Mix(x, t, i + 4), i) = l
        /\ W!PutLong(Mix(x, t, i + 4), i, LongAt(t, i)) = Mix(x, t, i)
    <3> HIDE DEF t
    <3> DEFINE d == Mix(x, t, i + 4)
    <3>1. i \in 0 .. Size - 4 /\ i + 4 \in Nat
      BY <2>2, FewPowers DEF Longs
    <3>2. d \in Row
      BY <1>1, <3>1, MixEnds
    <3>3. HasLong(d, x, i)
      BY <3>1 DEF Mix, HasLong
    <3>4. WithLong(d, t, i) = Mix(x, t, i)
      BY <3>1 DEF Mix, WithLong
    <3> HIDE DEF d
    <3>5. W!Long(d, i) = LongAt(x, i) /\ W!PutLong(d, i, LongAt(t, i)) = WithLong(d, t, i)
      BY <1>1, <2>2, <3>2, <3>3, LongIn
    <3> QED
      BY <3>4, <3>5 DEF d
  <2>6. LongAt(t, i) = (l \div 2) + c * v /\ Part(x, i) % 2 = l % 2
    BY <2>2, HalfOn
  <2> HIDE DEF c, l, v, t
  <2>7. ShrStep(st, i)
          = [d |-> W!PutLong(st.d, i, (l \div 2) + c * v), bit |-> l % 2]
    BY <2>3, <2>5, Zenon DEF ShrStep, v
  <2>8. ShrStep(st, i) = [d |-> Mix(x, t, i), bit |-> Part(x, i) % 2]
    BY <2>3, <2>5, <2>6, <2>7, Zenon
  <2> QED
    BY <2>1, <2>4, <2>8, Zenon DEF i
<1>4. W!Stored(x) \in Row
  BY StoredIs
<1>5. W!ShiftRight(W!Stored(x), top) = h[n].d
  <2>1. /\ h[0] = [d |-> W!Stored(x), bit |-> top]
        /\ \A k \in 1 .. Size \div 4 : ShrStep(h[k - 1], 4 * (Size \div 4 - k)) = h[k]
    BY Zenon, <1>2, <1>3
  <2> HIDE DEF h
  <2> QED
    BY <1>4, <2>1, ShrFold
<1> QED
  BY <1>2, <1>5

LEMMA BitShrRight ==
  ASSUME NEW x \in Nat, x < Full
  PROVE  W!BitShr(W!Stored(x)) = W!Stored(Halved(x))
<1>1. Part(x, Size) % 2 = 0
  BY NothingAbove
<1>2. x \in Int /\ 0 \in Int
  OBVIOUS
<1>3. W!ShiftRight(W!Stored(x), 0) = W!Stored(x \div 2)
  BY <1>1, <1>2, ShrRight
<1> QED
  BY <1>3, Zenon DEF W!BitShr, Halved

LEMMA KeepSignRight ==
  ASSUME NEW x \in Int, - Half <= x, x < Half
  PROVE  W!KeepSignShiftRight(W!Stored(x)) = W!Stored(Halved(x))
<1> DEFINE top == IF W!IsNegative(W!Stored(x)) THEN 1 ELSE 0
<1>1. Part(x, Size) % 2 = top /\ top \in Int
  <2>1. Half \in Nat /\ Full \in Nat \ {0} /\ Full = Half + Half
    BY FullHalves
  <2>2. W!IsNegative(W!Stored(x)) <=> x < 0
    BY SignRight
  <2>3. CASE x < 0
    <3>1. -1 \in Int /\ x + Full \in 0 .. Full - 1 /\ (-1) * Full = - Full
      BY <2>1, <2>3, SMT
    <3> DEFINE r == x + Full
    <3>2. r \in 0 .. Full - 1 /\ x = (-1) * Full + r
      BY <2>1, <3>1
    <3> HIDE DEF r
    <3>3. x \div Full = -1
      BY <2>1, <3>1, <3>2, Floor
    <3>4. (-1) % 2 = 1
      <4>1. -1 \in Int /\ 2 \in Nat \ {0} /\ 1 \in 0 .. 2 - 1 /\ -1 = (-1) * 2 + 1
        OBVIOUS
      <4> DEFINE m == -1
      <4> HIDE DEF m
      <4>2. m % 2 = 1
        BY Zenon, <4>1, Floor DEF m
      <4> QED
        BY <4>2 DEF m
    <3> QED
      BY <2>2, <2>3, <3>3, <3>4 DEF Part, Full
  <2>4. CASE ~(x < 0)
    <3>1. x \in Nat /\ x < Full
      BY <2>1, <2>4
    <3>2. Part(x, Size) = 0
      BY <3>1, NothingAbove
    <3> QED
      BY <2>2, <2>4, <3>2
  <2> QED
    BY <2>3, <2>4
<1> HIDE DEF top
<1>2. W!ShiftRight(W!Stored(x), top) = W!Stored(x \div 2)
  BY <1>1, ShrRight
<1> QED
  BY <1>2, Zenon DEF W!KeepSignShiftRight, Halved, top

-----------------------------------------------------------------------------
(* Subtraction of a multiple.                                              *)

(* A step of bch_sub_mul_s.                                                *)
SubMulStep(a, mul, st, i) ==
  LET v == st.v + W!Word(a, i) * mul
      u == st.u + W!Word(st.d, i) + (W!WordBase - 1 - (v % W!WordBase))
  IN [d |-> W!PutWord(st.d, i, u % W!WordBase),
      u |-> u \div W!WordBase, v |-> v \div W!WordBase]

SubState == [d : Row, u : Int, v : Int]

LEMMA SubMulFold ==
  ASSUME NEW d \in Row, NEW a \in Row, NEW mul \in Int, NEW h,
         h[0] = [d |-> d, u |-> 1, v |-> 0],
         \A k \in 1 .. Size \div 2 : SubMulStep(a, mul, h[k - 1], 2 * (k - 1)) = h[k]
  PROVE  W!SubMulS(d, a, mul) = h[Size \div 2].d
<1> DEFINE n == Size \div 2
           b == [d |-> d, u |-> 1, v |-> 0]
           Is(f) == f = [t \in SUBSET DOMAIN W!WordPlaces |->
                           IF t = {} THEN b
                           ELSE SubMulStep(a, mul, f[t \ {W!Max(t)}], W!WordPlaces[W!Max(t)])]
<1>1. ASSUME NEW st \in SubState, NEW k \in 1 .. n
      PROVE  SubMulStep(a, mul, st, W!WordPlaces[k]) \in SubState
  <2> DEFINE i == W!WordPlaces[k]
             w == W!WordBase
             e == W!Word(a, i)
             c == W!Word(st.d, i)
             v == st.v + e * mul
             u == st.u + c + (w - 1 - (v % w))
  <2>1. st.d \in Row /\ st.v \in Int /\ st.u \in Int /\ i \in Words /\ w \in Nat \ {0}
    BY WordsIn DEF SubState
  <2>2. e \in Int /\ c \in Int
    BY Zenon, <2>1, WordsIn
  <2>3. SubMulStep(a, mul, st, i) = [d |-> W!PutWord(st.d, i, u % w), u |-> u \div w, v |-> v \div w]
    BY Zenon DEF SubMulStep
  <2> HIDE DEF e, c, w, i
  <2>4. v \in Int
    <3>1. e * mul \in Int
      BY <2>2, SMT
    <3> DEFINE p == e * mul
    <3> HIDE DEF p
    <3>2. st.v + p \in Int
      BY <2>1, <3>1 DEF p
    <3> QED
      BY <3>2 DEF p
  <2> HIDE DEF v
  <2>5. v % w \in 0 .. w - 1 /\ v \div w \in Int
    BY Zenon, <2>1, <2>4, FloorOf
  <2>6. u \in Int
    BY <2>1, <2>2, <2>5
  <2> HIDE DEF u
  <2>7. u % w \in 0 .. w - 1 /\ u \div w \in Int
    BY Zenon, <2>1, <2>6, FloorOf
  <2>8. u % w \in Int
    BY <2>1, <2>7
  <2>9. W!PutWord(st.d, i, u % w) \in Row
    BY Zenon, <2>1, <2>8, WordsIn
  <2> QED
    BY <2>3, <2>5, <2>7, <2>9 DEF SubState, i
<1>2. \E f : Is(f)
  <2> DEFINE g == [x \in SubState \X (1 .. n) |-> SubMulStep(a, mul, x[1], W!WordPlaces[x[2]])]
  <2>1. n \in Nat /\ DOMAIN W!WordPlaces = 1 .. n
    BY WordsIn
  <2>2. b \in SubState
    BY DEF SubState
  <2>3. g \in [SubState \X (1 .. n) -> SubState]
    BY <1>1
  <2>4. PICK f : /\ f = [t \in SUBSET (1 .. n) |->
                           IF t = {} THEN b ELSE g[<<f[t \ {W!Max(t)}], W!Max(t)>>]]
                 /\ \A t \in SUBSET (1 .. n) : f[t] \in SubState
    <3> HIDE DEF g, b, n
    <3>1. \E f : IsFold(f, n, SubState, b, g)
      BY Zenon, <2>1, <2>2, <2>3, FoldExists
    <3> QED
      BY <3>1, Zenon DEF IsFold
  <2>5. ASSUME NEW t \in SUBSET (1 .. n), t # {}
        PROVE  g[<<f[t \ {W!Max(t)}], W!Max(t)>>]
                 = SubMulStep(a, mul, f[t \ {W!Max(t)}], W!WordPlaces[W!Max(t)])
    <3>1. W!Max(t) \in t
      BY Zenon, <2>1, <2>5, MaxOf
    <3>2. W!Max(t) \in 1 .. n /\ f[t \ {W!Max(t)}] \in SubState
      BY Zenon, <2>4, <3>1
    <3> QED
      BY <3>2
  <2>6. Is(f)
    <3> HIDE DEF g, b, n
    <3> QED
      BY Zenon, <2>1, <2>4, <2>5
  <2> QED
    <3> HIDE DEF Is
    <3> QED
      BY <2>6
<1>3. PICK f : Is(f) /\ W!SubMulS(d, a, mul) = f[DOMAIN W!WordPlaces].d
  <2>1. Is(CHOOSE f : Is(f))
    <3> HIDE DEF Is
    <3> QED
      BY <1>2
  <2> QED
    BY <2>1, Zenon DEF W!SubMulS, SubMulStep, W!FoldLeft, W!MapThenFoldSet
<1>4. f[{}] = h[0]
  BY <1>3
<1>5. ASSUME NEW k \in 1 .. n, f[1 .. k - 1] = h[k - 1] PROVE f[1 .. k] = h[k]
  <2>1. /\ n \in Nat /\ DOMAIN W!WordPlaces = 1 .. n
        /\ 1 .. k \in SUBSET (1 .. n) /\ 1 .. k # {} /\ W!Max(1 .. k) = k
        /\ (1 .. k) \ {k} = 1 .. k - 1 /\ W!WordPlaces[k] = 2 * (k - 1)
    BY Zenon, WordsIn, Beginnings
  <2>2. f[1 .. k] = SubMulStep(a, mul, f[1 .. k - 1], 2 * (k - 1))
    <3> DEFINE t == 1 .. k
    <3>1. t \in SUBSET DOMAIN W!WordPlaces /\ t # {}
      BY <2>1
    <3>2. f[t] = SubMulStep(a, mul, f[t \ {W!Max(t)}], W!WordPlaces[W!Max(t)])
      <4> HIDE DEF t, b
      <4> QED
        BY Zenon, <1>3, <3>1
    <3> QED
      BY Zenon, <2>1, <3>2
  <2> QED
    BY <1>5, <2>2 DEF n
<1>6. f[1 .. n] = h[n]
  <2>1. n \in Nat
    BY WordsIn
  <2> HIDE DEF n, Is
  <2> QED
    BY <1>4, <1>5, <2>1, FoldSteps
<1> QED
  BY Zenon, <1>3, <1>6, WordsIn

(* What the words of a multiple carry.                                     *)
Multiplied(s, q, i) == Part(s * q, i) - Part(s, i) * q

LEMMA MultipliedOn ==
  ASSUME NEW s \in Int, NEW q \in Int, NEW i \in Words
  PROVE  LET v == Multiplied(s, q, i) + WordAt(s, i) * q
         IN /\ Multiplied(s, q, i) \in Int /\ v \in Int
            /\ v % W!WordBase = WordAt(s * q, i)
            /\ v \div W!WordBase = Multiplied(s, q, i + 2)
<1> DEFINE z == s * q
           w == W!WordBase
           S1 == Part(s, i + 2)
           e == WordAt(s, i)
           T == Part(z, i)
           y == - (S1 * q)
           v == Multiplied(s, q, i) + e * q
<1>1. z \in Int
  BY SMT
<1>2. /\ Part(s, i) = S1 * w + e /\ S1 \in Int /\ e \in 0 .. w - 1 /\ w \in Nat \ {0}
      /\ Part(s, i) \in Int
  BY Zenon, WordOf DEF Words
<1> HIDE DEF z
<1>3. T \in Int /\ Part(z, i + 2) = T \div w /\ WordAt(z, i) = T % w
  <2>1. T \in Int /\ Part(z, i + 2) = T \div w
    BY Zenon, <1>1, WordOf DEF Words
  <2> QED
    BY <2>1 DEF WordAt
<1>4. Multiplied(s, q, i) = T - Part(s, i) * q
  BY DEF Multiplied, z
<1>5. e \in Int
  BY <1>2
<1> HIDE DEF S1, e, T, w
<1>6. /\ (S1 * w + e) * q = (S1 * q) * w + e * q /\ (- (S1 * q)) * w = - ((S1 * q) * w)
      /\ (S1 * q) * w \in Int /\ e * q \in Int /\ S1 * q \in Int
  BY <1>2, <1>5, SMT
<1>7. y \in Int /\ v = T + y * w /\ Multiplied(s, q, i) \in Int /\ v \in Int
  <2> DEFINE g == (S1 * q) * w
             f == e * q
             m == Part(s, i) * q
  <2>1. m = g + f /\ g \in Int /\ f \in Int /\ y * w = - g
    BY <1>2, <1>6
  <2>2. y \in Int
    BY <1>6
  <2> DEFINE r == y * w
  <2> HIDE DEF g, f, m, y, r
  <2>3. Multiplied(s, q, i) = T - m
    BY <1>4 DEF m
  <2>4. Multiplied(s, q, i) + f = T + r /\ Multiplied(s, q, i) \in Int
        /\ Multiplied(s, q, i) + f \in Int
    BY <1>3, <2>1, <2>3 DEF r
  <2> QED
    BY <2>2, <2>4 DEF f, r
<1> HIDE DEF v
<1>8. v % w = T % w /\ v \div w = (T \div w) + y
  BY Zenon, <1>2, <1>3, <1>7, FloorShift
<1>9. (T \div w) + y = Multiplied(s, q, i + 2)
  <2>1. T \div w \in Int
    BY <1>2, <1>3, FloorOf
  <2> DEFINE p == T \div w
             g == S1 * q
  <2>2. p \in Int /\ g \in Int
    BY <1>6, <2>1
  <2> HIDE DEF p, g
  <2>3. p + (- g) = p - g
    BY <2>2
  <2> QED
    BY <1>3, <2>3 DEF Multiplied, p, g, z, S1
<1> QED
  BY <1>3, <1>7, <1>8, <1>9, Zenon DEF v, e, w, z

(* bch_sub_mul_s.                                                          *)
LEMMA SubMulRight ==
  ASSUME NEW m \in Int, NEW s \in Int, NEW q \in Int
  PROVE  W!SubMulS(W!Stored(m), W!Stored(s), q) = W!Stored(m - s * q)
<1> DEFINE z == s * q
           y == -1 - z
           t == (m + y) + 1
           n == Size \div 2
           S(k) == [d |-> Mix(t, m, 2 * k), u |-> Carried(t, m, y, 2 * k),
                    v |-> Multiplied(s, q, 2 * k)]
           h == [k \in 0 .. n |-> S(k)]
<1>1. z \in Int
  BY SMT
<1>2. y \in Int /\ t \in Int /\ t = m - z /\ n \in Nat
  <2> HIDE DEF z
  <2>1. n \in Nat
    BY WordsIn
  <2> QED
    BY <1>1, <2>1
<1>3. h[0] = [d |-> W!Stored(m), u |-> 1, v |-> 0] /\ h[n].d = W!Stored(t)
  <2>1. Summed(t, m, y, 0) = [d |-> W!Stored(m), v |-> 1] /\ Summed(t, m, y, n).d = W!Stored(t)
    <3> HIDE DEF y
    <3>1. 1 \in Int /\ m \in Int /\ y \in Int
      BY <1>2
    <3>2. /\ Summed((m + y) + 1, m, y, 0) = [d |-> W!Stored(m), v |-> 1]
          /\ Summed((m + y) + 1, m, y, Size \div 2).d = W!Stored((m + y) + 1)
      BY ZenonT(60), <3>1, SummedEnds
    <3> QED
      BY Zenon, <3>2
  <2> HIDE DEF t, y
  <2>2. 2 * 0 = 0
    OBVIOUS
  <2>3. Multiplied(s, q, 0) = 0
    <3>1. Part(s, 0) = s /\ Part(s * q, 0) = s * q
      <4>1. Part(z, 0) = z
        <5> HIDE DEF z
        <5> QED
          BY <1>1, PartSteps
      <4> QED
        BY <4>1, PartSteps
    <3>2. Multiplied(s, q, 0) = z - z
      BY <3>1 DEF Multiplied
    <3> HIDE DEF z
    <3> QED
      BY <1>1, <3>2
  <2>4. /\ Mix(t, m, 2 * 0) = W!Stored(m) /\ Carried(t, m, y, 2 * 0) = 1
        /\ Mix(t, m, 2 * n) = W!Stored(t)
    BY <2>1 DEF Summed
  <2>5. S(0) = [d |-> W!Stored(m), u |-> 1, v |-> 0] /\ S(n).d = W!Stored(t)
    <3> HIDE DEF n
    <3> QED
      BY <2>2, <2>3, <2>4
  <2> QED
    BY <1>2, <2>5
<1> HIDE DEF z
<1>4. ASSUME NEW k \in 1 .. n PROVE SubMulStep(W!Stored(s), q, h[k - 1], 2 * (k - 1)) = h[k]
  <2> DEFINE i == 2 * (k - 1)
             st == S(k - 1)
             w == W!WordBase
             a == W!Stored(s)
             e == WordAt(s, i)
             c == WordAt(m, i)
             v == Multiplied(s, q, i)
             u == Carried(t, m, y, i)
             f == WordAt(y, i)
  <2>1. h[k - 1] = st /\ h[k] = S(k)
    BY <1>2
  <2>2. i \in Words /\ i + 2 = 2 * k
    BY WordsIn
  <2>3. st.d = Mix(t, m, i) /\ st.u = u /\ st.v = v
    OBVIOUS
  <2>4. S(k) = [d |-> Mix(t, m, i + 2), u |-> Carried(t, m, y, i + 2),
                v |-> Multiplied(s, q, i + 2)]
    BY <2>2, Zenon
  <2> HIDE DEF i, st, h, S
  <2>5. /\ W!Word(Mix(t, m, i), i) = c
        /\ W!PutWord(Mix(t, m, i), i, WordAt(t, i)) = Mix(t, m, i + 2)
    <3> HIDE DEF t
    <3> QED
      BY <1>2, <2>2, MixWord DEF Words
  <2>6. W!Word(a, i) = e
    BY <2>2, WordsOfStored
  <2>7. /\ (v + e * q) % w = WordAt(z, i)
        /\ (v + e * q) \div w = Multiplied(s, q, i + 2)
    BY <2>2, MultipliedOn DEF z
  <2>8. w - 1 - WordAt(z, i) = f
    BY <1>1, <2>2, Complement
  <2>9. /\ (u + c + f) % w = WordAt(t, i)
        /\ (u + c + f) \div w = Carried(t, m, y, i + 2)
    <3> HIDE DEF t, y
    <3> QED
      BY <1>2, <2>2, CarriedOn
  <2> HIDE DEF v, u, e, c, f, w, t, y, a
  <2> DEFINE r == v + e * q
  <2>10. SubMulStep(a, q, st, i)
           = [d |-> W!PutWord(st.d, i, (u + c + (w - 1 - (r % w))) % w),
              u |-> (u + c + (w - 1 - (r % w))) \div w, v |-> r \div w]
    BY <2>3, <2>5, <2>6, Zenon DEF SubMulStep, w
  <2> HIDE DEF r
  <2>11. w - 1 - (r % w) = f
    BY <2>7, <2>8, Zenon DEF r
  <2>12. SubMulStep(a, q, st, i)
           = [d |-> W!PutWord(st.d, i, (u + c + f) % w), u |-> (u + c + f) \div w,
              v |-> r \div w]
    BY <2>10, <2>11, Zenon
  <2>13. SubMulStep(a, q, st, i)
           = [d |-> Mix(t, m, i + 2), u |-> Carried(t, m, y, i + 2),
              v |-> Multiplied(s, q, i + 2)]
    BY <2>3, <2>5, <2>7, <2>9, <2>12, Zenon DEF r
  <2> QED
    BY <2>1, <2>4, <2>13, Zenon DEF i, a
<1>5. W!Stored(m) \in Row /\ W!Stored(s) \in Row
  BY StoredIs
<1>6. W!SubMulS(W!Stored(m), W!Stored(s), q) = h[n].d
  <2>1. /\ h[0] = [d |-> W!Stored(m), u |-> 1, v |-> 0]
        /\ \A k \in 1 .. Size \div 2 : SubMulStep(W!Stored(s), q, h[k - 1], 2 * (k - 1)) = h[k]
    BY Zenon, <1>3, <1>4
  <2> DEFINE a == W!Stored(s)
             d == W!Stored(m)
  <2> HIDE DEF h, a, d
  <2>2. W!SubMulS(d, a, q) = h[Size \div 2].d
    BY <1>5, <2>1, SubMulFold DEF a, d
  <2> QED
    BY <2>2 DEF a, d
<1>7. W!SubMulS(W!Stored(m), W!Stored(s), q) = W!Stored(t)
  BY <1>3, <1>6, Zenon
<1> HIDE DEF t
<1> QED
  BY <1>2, <1>7, Zenon DEF z

-----------------------------------------------------------------------------
(* Multiplication.                                                         *)

LEMMA FoldKeeps ==
  ASSUME NEW n \in Nat, NEW f, NEW h, f[{}] \in h[0],
         \A k \in 1 .. n : f[1 .. k - 1] \in h[k - 1] => f[1 .. k] \in h[k]
  PROVE  f[1 .. n] \in h[n]
<1> DEFINE S == {k \in Nat : k <= n => f[1 .. k] \in h[k]}
<1>1. 0 \in S
  <2>1. 1 .. 0 = {}
    OBVIOUS
  <2> QED
    BY <2>1
<1>2. ASSUME NEW k \in Nat, k \in S PROVE k + 1 \in S
  <2> SUFFICES ASSUME k + 1 <= n PROVE f[1 .. k + 1] \in h[k + 1]
    OBVIOUS
  <2>1. k + 1 \in 1 .. n /\ (k + 1) - 1 = k /\ k <= n
    OBVIOUS
  <2>2. f[1 .. k] \in h[k]
    BY <1>2, <2>1
  <2>3. f[1 .. (k + 1) - 1] \in h[(k + 1) - 1]
    BY <2>1, <2>2
  <2> QED
    BY <2>1, <2>3
<1>3. n \in S
  <2> HIDE DEF S
  <2> QED
    BY Zenon, <1>1, <1>2, Counting
<1> QED
  BY <1>3

(* A row of bch_mul_arr_base, and a step of it.                            *)
MulStep(a, b, i, st, j) ==
  LET v == (st.v + st.u + W!Word(a, i) * W!Word(b, j)) % W!LongBase
      u == W!Word(st.d, i + j) + (v % W!WordBase)
  IN IF i + j < Size
     THEN [d |-> W!PutWord(st.d, i + j, u % W!WordBase),
           u |-> u \div W!WordBase, v |-> v \div W!WordBase]
     ELSE [st EXCEPT !.u = @ \div W!WordBase, !.v = v \div W!WordBase]

MulRow(a, b, d, i) ==
  LET Step(st, j) == MulStep(a, b, i, st, j)
  IN W!FoldLeft(Step, [d |-> d, u |-> 0, v |-> 0], W!WordPlaces).d

(* The words of a row, two places apart.                                   *)
LEMMA WordPlace ==
  ASSUME NEW j \in 1 .. Size \div 2, NEW k \in 1 .. Size \div 2
  PROVE  LET p == 2 * (j - 1) + 2 * (k - 1)
         IN /\ p \in Nat /\ p + 2 = 2 * (j - 1) + 2 * k
            /\ p < Size => p \in Words /\ p + 2 <= Size
            /\ p >= Size => p + 2 > Size
BY FewPowers, WordsIn DEF Words

(* From d on the steps of row r keep to the sets h.                        *)
MulSteps(a, b, d, r, h) ==
  /\ [d |-> d, u |-> 0, v |-> 0] \in h[0]
  /\ \A k \in 1 .. Size \div 2 : \A st \in h[k - 1] :
       MulStep(a, b, 2 * (r - 1), st, 2 * (k - 1)) \in h[k]

LEMMA MulStepIn ==
  ASSUME NEW a \in Row, NEW b \in Row, NEW st \in SubState,
         NEW r \in 1 .. Size \div 2, NEW k \in 1 .. Size \div 2
  PROVE  MulStep(a, b, 2 * (r - 1), st, 2 * (k - 1)) \in SubState
<1> DEFINE i == 2 * (r - 1)
           j == 2 * (k - 1)
           w == W!WordBase
           g == W!LongBase
           e == W!Word(a, i)
           c == W!Word(b, j)
           v == (st.v + st.u + e * c) % g
           u == W!Word(st.d, i + j) + (v % w)
<1>1. /\ st.d \in Row /\ st.v \in Int /\ st.u \in Int /\ i \in Words /\ j \in Words
      /\ w \in Nat \ {0} /\ g \in Nat \ {0}
  BY WordsIn, LongsIn DEF SubState
<1>2. e \in Int /\ c \in Int
  BY <1>1, WordsIn
<1>3. i + j < Size => i + j \in Words
  BY WordPlace
<1>4. /\ i + j < Size => MulStep(a, b, i, st, j)
          = [d |-> W!PutWord(st.d, i + j, u % w), u |-> u \div w, v |-> v \div w]
      /\ ~(i + j < Size) => MulStep(a, b, i, st, j)
          = [st EXCEPT !.u = @ \div w, !.v = v \div w]
  BY Zenon DEF MulStep
<1> HIDE DEF e, c, w, g, i, j
<1>5. v \in Int
  <2>1. e * c \in Int
    BY <1>2, SMT
  <2> DEFINE p == e * c
  <2> HIDE DEF p
  <2> DEFINE q == st.v + st.u + p
  <2>2. q \in Int
    BY <1>1, <2>1 DEF p
  <2>3. v = q % g
    BY DEF p
  <2> HIDE DEF q, v
  <2>4. q % g \in 0 .. g - 1
    BY Zenon, <1>1, <2>2, FloorOf
  <2> QED
    BY <1>1, <2>3, <2>4
<1> HIDE DEF v
<1>6. v % w \in 0 .. w - 1 /\ v \div w \in Int
  BY Zenon, <1>1, <1>5, FloorOf
<1>7. CASE i + j < Size
  <2>1. W!Word(st.d, i + j) \in Int
    BY Zenon, <1>1, <1>3, <1>7, WordsIn
  <2>2. u \in Int
    BY <1>1, <1>6, <2>1
  <2> HIDE DEF u
  <2>3. u % w \in 0 .. w - 1 /\ u \div w \in Int
    BY Zenon, <1>1, <2>2, FloorOf
  <2>4. u % w \in Int
    BY <1>1, <2>3
  <2>5. W!PutWord(st.d, i + j, u % w) \in Row
    BY Zenon, <1>1, <1>3, <1>7, <2>4, WordsIn
  <2> QED
    BY <1>4, <1>6, <1>7, <2>3, <2>5 DEF SubState, i, j
<1>8. CASE ~(i + j < Size)
  <2> DEFINE q == st.u
  <2>1. q \div w \in Int
    <3> HIDE DEF q
    <3> QED
      BY Zenon, <1>1, FloorOf DEF q
  <2>2. [st EXCEPT !.u = @ \div w, !.v = v \div w] \in SubState
    BY Zenon, <1>6, <2>1 DEF SubState
  <2> QED
    BY <1>4, <1>8, <2>2 DEF i, j
<1> QED
  BY <1>7, <1>8

LEMMA MulRowFold ==
  ASSUME NEW d \in Row, NEW a \in Row, NEW b0 \in Row, NEW r \in 1 .. Size \div 2, NEW h,
         MulSteps(a, b0, d, r, h)
  PROVE  \E st \in h[Size \div 2] : MulRow(a, b0, d, 2 * (r - 1)) = st.d
<1> USE DEF MulSteps
<1> DEFINE n == Size \div 2
           b == [d |-> d, u |-> 0, v |-> 0]
           Is(f) == f = [t \in SUBSET DOMAIN W!WordPlaces |->
                           IF t = {} THEN b
                           ELSE MulStep(a, b0, 2 * (r - 1), f[t \ {W!Max(t)}], W!WordPlaces[W!Max(t)])]
<1>1. ASSUME NEW st \in SubState, NEW k \in 1 .. n
      PROVE  MulStep(a, b0, 2 * (r - 1), st, W!WordPlaces[k]) \in SubState
  BY MulStepIn, WordsIn
<1>2. \E f : Is(f)
  <2> DEFINE g == [x \in SubState \X (1 .. n) |-> MulStep(a, b0, 2 * (r - 1), x[1], W!WordPlaces[x[2]])]
  <2>1. n \in Nat /\ DOMAIN W!WordPlaces = 1 .. n
    BY WordsIn
  <2>2. b \in SubState
    BY DEF SubState
  <2>3. g \in [SubState \X (1 .. n) -> SubState]
    BY <1>1
  <2>4. PICK f : /\ f = [t \in SUBSET (1 .. n) |->
                           IF t = {} THEN b ELSE g[<<f[t \ {W!Max(t)}], W!Max(t)>>]]
                 /\ \A t \in SUBSET (1 .. n) : f[t] \in SubState
    <3> HIDE DEF g, b, n
    <3>1. \E f : IsFold(f, n, SubState, b, g)
      BY Zenon, <2>1, <2>2, <2>3, FoldExists
    <3> QED
      BY <3>1, Zenon DEF IsFold
  <2>5. ASSUME NEW t \in SUBSET (1 .. n), t # {}
        PROVE  g[<<f[t \ {W!Max(t)}], W!Max(t)>>]
                 = MulStep(a, b0, 2 * (r - 1), f[t \ {W!Max(t)}], W!WordPlaces[W!Max(t)])
    <3>1. W!Max(t) \in t
      BY Zenon, <2>1, <2>5, MaxOf
    <3>2. W!Max(t) \in 1 .. n /\ f[t \ {W!Max(t)}] \in SubState
      BY Zenon, <2>4, <3>1
    <3> QED
      BY <3>2
  <2>6. Is(f)
    <3> HIDE DEF g, b, n
    <3> QED
      BY Zenon, <2>1, <2>4, <2>5
  <2> QED
    <3> HIDE DEF Is
    <3> QED
      BY <2>6
<1>3. PICK f : Is(f) /\ MulRow(a, b0, d, 2 * (r - 1)) = f[DOMAIN W!WordPlaces].d
  <2>1. Is(CHOOSE f : Is(f))
    <3> HIDE DEF Is
    <3> QED
      BY <1>2
  <2> QED
    BY <2>1, Zenon DEF MulRow, W!FoldLeft, W!MapThenFoldSet
<1>4. f[{}] \in h[0]
  BY <1>3
<1>5. ASSUME NEW k \in 1 .. n, f[1 .. k - 1] \in h[k - 1] PROVE f[1 .. k] \in h[k]
  <2>1. /\ n \in Nat /\ DOMAIN W!WordPlaces = 1 .. n
        /\ 1 .. k \in SUBSET (1 .. n) /\ 1 .. k # {} /\ W!Max(1 .. k) = k
        /\ (1 .. k) \ {k} = 1 .. k - 1 /\ W!WordPlaces[k] = 2 * (k - 1)
    BY Zenon, WordsIn, Beginnings
  <2>2. f[1 .. k] = MulStep(a, b0, 2 * (r - 1), f[1 .. k - 1], 2 * (k - 1))
    <3> DEFINE t == 1 .. k
    <3>1. t \in SUBSET DOMAIN W!WordPlaces /\ t # {}
      BY <2>1
    <3>2. f[t] = MulStep(a, b0, 2 * (r - 1), f[t \ {W!Max(t)}], W!WordPlaces[W!Max(t)])
      <4> HIDE DEF t, b
      <4> QED
        BY Zenon, <1>3, <3>1
    <3> QED
      BY Zenon, <2>1, <3>2
  <2> QED
    BY <1>5, <2>2 DEF n
<1>6. f[1 .. n] \in h[n]
  <2>1. n \in Nat
    BY WordsIn
  <2> HIDE DEF n, Is
  <2> QED
    BY <1>4, <1>5, <2>1, FoldKeeps
<1> QED
  BY Zenon, <1>3, <1>6, WordsIn

LEMMA MulRowIn ==
  ASSUME NEW d \in Row, NEW a \in Row, NEW b \in Row, NEW r \in 1 .. Size \div 2
  PROVE  MulRow(a, b, d, 2 * (r - 1)) \in Row
<1> DEFINE n == Size \div 2
           h == [k \in 0 .. n |-> SubState]
<1>1. n \in Nat
  BY WordsIn
<1>2. [d |-> d, u |-> 0, v |-> 0] \in SubState
  BY DEF SubState
<1>3. \A k \in 1 .. n : \A st \in SubState : MulStep(a, b, 2 * (r - 1), st, 2 * (k - 1)) \in SubState
  BY MulStepIn
<1>4. h[n] = SubState /\ MulSteps(a, b, d, r, h)
  <2>1. h[0] = SubState /\ h[n] = SubState
        /\ \A k \in 1 .. n : h[k - 1] = SubState /\ h[k] = SubState
    BY <1>1
  <2> HIDE DEF h
  <2> QED
    BY <1>2, <1>3, <2>1 DEF MulSteps
<1> HIDE DEF h
<1>5. PICK st \in SubState : MulRow(a, b, d, 2 * (r - 1)) = st.d
  <2>1. \E st \in h[Size \div 2] : MulRow(a, b, d, 2 * (r - 1)) = st.d
    BY <1>4, MulRowFold
  <2> QED
    BY <1>4, <2>1
<1> QED
  BY <1>5 DEF SubState

(* The carries stay within a word and a bit, and what a step adds up in a  *)
(* long.                                                                   *)
LEMMA MulRange ==
  ASSUME NEW w \in Nat \ {0}, w >= 2, NEW v \in 0 .. w - 1, NEW u \in 0 .. 1,
         NEW a \in 0 .. w - 1, NEW e \in 0 .. w - 1, NEW c \in 0 .. w - 1
  PROVE  LET s == v + u + a * e
         IN /\ s \in Nat /\ s % (w * w) = s
            /\ s \div w \in 0 .. w - 1
            /\ (c + (s % w)) \div w \in 0 .. 1
            /\ u \div w \in 0 .. 1
<1> DEFINE p == a * e
           s == v + u + p
           m == w * w
           k == s \div w
           r == s % w
<1>1. p \in Nat /\ p + w + w <= m + 1 /\ m \in Nat \ {0}
  <2>1. /\ a <= w - 1 /\ e <= w - 1 /\ a \in Nat /\ e \in Nat /\ w - 1 \in Nat /\ w \in Nat
        /\ (w - 1) + 1 = w
    OBVIOUS
  <2> DEFINE f == w - 1
  <2>2. f \in Nat /\ a <= f /\ e <= f /\ f + 1 = w
    BY <2>1
  <2> HIDE DEF f
  <2>3. a * e \in Nat /\ a * e <= f * e
    BY <2>1, <2>2, Times
  <2>4. e * f \in Nat /\ e * f <= f * f /\ f * e = e * f
    BY <2>1, <2>2, Times
  <2>5. f * f \in Nat /\ (f + 1) * f = f * f + f /\ f * (f + 1) = (f + 1) * f
    BY <2>2, SMT
  <2>6. (f + 1) * (f + 1) = f * (f + 1) + (f + 1)
    BY <2>2, SMT
  <2> DEFINE q == f * f
  <2>7. m = q + f + f + 1
    BY <2>2, <2>5, <2>6
  <2>8. p <= q /\ p \in Nat /\ q \in Nat
    BY <2>3, <2>4, <2>5
  <2> HIDE DEF p, q, m
  <2> QED
    BY <2>2, <2>7, <2>8
<1> HIDE DEF p
<1>2. s \in 0 .. m - 1
  <2> HIDE DEF m
  <2> QED
    BY <1>1
<1>3. s % m = s /\ s \in Nat
  <2> HIDE DEF m, s
  <2> QED
    BY <1>1, <1>2, Mod
<1> HIDE DEF s
<1>4. k \in Int /\ r \in 0 .. w - 1 /\ s = k * w + r
  BY <1>3, FloorOf
<1>5. k \in 0 .. w - 1
  <2>1. k \in Nat
    BY <1>3, Div
  <2> HIDE DEF k, r
  <2>2. CASE k >= w
    <3>1. w * w <= k * w
      BY <2>1, <2>2, Times
    <3> DEFINE z == k * w
    <3>2. z \in Nat /\ m <= z /\ s = z + r
      BY <1>4, <2>1, <3>1, Times
    <3> HIDE DEF z, m
    <3> QED
      BY <1>1, <1>2, <1>4, <3>2
  <2> QED
    BY <2>1, <2>2
<1> HIDE DEF k, r
<1>6. (c + r) \div w \in 0 .. 1
  <2> DEFINE g == c + r
  <2>1. CASE g < w
    <3>1. g \in 0 .. w - 1 /\ g = 0 * w + g /\ 0 \in Int /\ g \in Int
      BY <1>4, <2>1
    <3> HIDE DEF g
    <3>2. g \div w = 0
      BY <3>1, Floor
    <3> QED
      BY <3>2 DEF g
  <2>2. CASE g >= w
    <3> DEFINE y == g - w
    <3>1. y \in 0 .. w - 1 /\ g = 1 * w + y /\ 1 \in Int /\ g \in Int
      BY <1>4, <2>2
    <3> HIDE DEF g, y
    <3>2. g \div w = 1
      BY <3>1, Floor
    <3> QED
      BY <3>2 DEF g
  <2> QED
    BY <1>4, <2>1, <2>2
<1>7. u \div w = 0
  <2>1. u \in 0 .. w - 1 /\ u = 0 * w + u /\ 0 \in Int /\ u \in Int
    OBVIOUS
  <2> QED
    BY <2>1, Floor
<1> QED
  BY <1>3, <1>5, <1>6, <1>7 DEF s, p, m, k, r

(* What a step puts down and what it carries on: s is what it adds up but  *)
(* for the word c of the row, D1 and Y1 are what is above c and e.         *)
MulTotal(w, D1, Y1, c, e, a, s) == (s - a * e) + (D1 * w + c) + a * (Y1 * w + e)

MulCarries(w, D1, Y1, c, e, a, s) ==
  LET T == MulTotal(w, D1, Y1, c, e, a, s)
  IN /\ (c + (s % w)) % w = T % w
     /\ (s \div w) + ((c + (s % w)) \div w) = (T \div w) - D1 - a * Y1

LEMMA MulCarry ==
  ASSUME NEW w \in Nat \ {0}, NEW D1 \in Int, NEW Y1 \in Int, NEW c \in Int,
         NEW e \in Int, NEW a \in Int, NEW s \in Int
  PROVE  MulCarries(w, D1, Y1, c, e, a, s)
<1> DEFINE k == s \div w
           m == s % w
           g == c + m
           l == g \div w
           r == g % w
           y == a * Y1
           q == D1 + y + k + l
           T == (s - a * e) + (D1 * w + c) + a * (Y1 * w + e)
<1>1. k \in Int /\ m \in 0 .. w - 1 /\ s = k * w + m
  BY FloorOf
<1>2. g \in Int
  BY <1>1
<1> HIDE DEF k, m, g
<1>3. l \in Int /\ r \in 0 .. w - 1 /\ g = l * w + r
  BY <1>2, FloorOf
<1> HIDE DEF l, r
<1>4. y \in Int /\ a * e \in Int /\ a * (Y1 * w + e) = y * w + a * e /\ y * w \in Int
      /\ D1 * w \in Int
  BY SMT
<1>5. T = (D1 * w + y * w) + (c + s) /\ T \in Int
  <2> DEFINE b == a * e
             f == y * w
             h == D1 * w
             z == a * (Y1 * w + e)
  <2>1. z = f + b /\ b \in Int /\ f \in Int /\ h \in Int
    BY <1>4
  <2> HIDE DEF b, f, h, z
  <2>2. (s - b) + (h + c) + z = (h + f) + (c + s) /\ (s - b) + (h + c) + z \in Int
    BY <2>1
  <2> QED
    BY <2>2 DEF b, f, h, z
<1> HIDE DEF T, y
<1>6. T = q * w + r
  <2>1. (D1 + y + k + l) * w = (D1 * w + y * w) + k * w + l * w
        /\ k * w \in Int /\ l * w \in Int
    BY <1>1, <1>3, <1>4, SMT
  <2> DEFINE f == D1 * w + y * w
             h == k * w
             z == l * w
             b == q * w
  <2>2. f \in Int
    BY <1>4
  <2>3. b = f + h + z /\ h \in Int /\ z \in Int
    BY <2>1
  <2>4. T = f + (c + s) /\ s = h + m /\ g = z + r /\ g = c + m
    BY <1>1, <1>3, <1>5 DEF g
  <2> HIDE DEF f, h, z, b, q
  <2>5. T = b + r
    BY <1>1, <1>2, <1>3, <2>2, <2>3, <2>4
  <2> QED
    BY <2>5 DEF b
<1>7. q \in Int /\ q - D1 - y = k + l
  BY <1>1, <1>3, <1>4
<1> HIDE DEF q
<1>8. T \div w = q /\ T % w = r
  <2>1. T \in Int /\ q \in Int /\ r \in 0 .. w - 1
    BY <1>3, <1>5, <1>7
  <2> QED
    BY <1>6, <2>1, Floor
<1> QED
  BY <1>7, <1>8 DEF k, m, g, l, r, T, y, MulTotal, MulCarries

(* What is added from a place on leaves the digits below it.               *)
LEMMA SameBelow ==
  ASSUME NEW x \in Int, NEW z \in Int, NEW i \in 0 .. Size
  PROVE  /\ x + z * Base ^ i \in Int
         /\ Part(x + z * Base ^ i, i) = Part(x, i) + z
         /\ \A p \in 0 .. Size - 1 : p < i => DigitOf(x + z * Base ^ i, p) = DigitOf(x, p)
<1>1. i \in 0 .. Size + 1 /\ Base \in Nat \ {0} /\ Base ^ 1 = Base /\ Size \in Nat
  BY FewPowers
<1>2. Base ^ i \in Nat \ {0}
  BY <1>1, Powers
<1>3. x + z * Base ^ i \in Int /\ Part(x + z * Base ^ i, i) = Part(x, i) + z
  <2> DEFINE b == Base ^ i
  <2> HIDE DEF b
  <2>1. x + z * b \in Int /\ (x + z * b) \div b = (x \div b) + z
    BY Zenon, <1>2, FloorShift DEF b
  <2> QED
    BY <2>1 DEF Part, b
<1>4. ASSUME NEW p \in 0 .. Size - 1, p < i
      PROVE  DigitOf(x + z * Base ^ i, p) = DigitOf(x, p)
  <2> DEFINE b == Base ^ p
             c == Base ^ (i - (p + 1))
             g == Base ^ (p + 1)
             f == Base ^ i
  <2>1. /\ p \in 0 .. Size + 1 /\ p + 1 \in 0 .. Size + 1 /\ 1 \in 0 .. Size + 1
        /\ i - (p + 1) \in 0 .. Size + 1 /\ (p + 1) + (i - (p + 1)) = i
    BY <1>1, <1>4
  <2>2. g = b * Base /\ b \in Nat \ {0}
    BY <1>1, <2>1, PowerSum
  <2>3. f = g * c /\ c \in Nat \ {0}
    <3>1. f = g * c
      BY <1>1, <2>1, PowerSum
    <3>2. c \in Nat \ {0}
      BY <2>1, Powers
    <3> QED
      BY <3>1, <3>2
  <2> HIDE DEF b, c, g, f
  <2>4. z * f = ((z * c) * Base) * b /\ (z * c) * Base \in Int /\ z * c \in Int
    <3>1. z * ((b * Base) * c) = ((z * c) * Base) * b /\ (z * c) * Base \in Int /\ z * c \in Int
      BY <1>1, <2>2, <2>3, SMT
    <3> QED
      BY <2>2, <2>3, <3>1
  <2> DEFINE v == z * c
             y == v * Base
             u == x \div b
  <2>5. v \in Int /\ y \in Int /\ z * f = y * b
    BY <2>4
  <2>6. (x + y * b) \div b = u + y /\ u \in Int
    <3> HIDE DEF y
    <3>1. (x + y * b) \div b = (x \div b) + y
      BY Zenon, <2>2, <2>5, FloorShift
    <3>2. x \div b \in Int
      BY <2>2, FloorOf
    <3> QED
      BY <3>1, <3>2
  <2>7. (u + v * Base) % Base = u % Base
    <3> HIDE DEF u, v
    <3> QED
      BY Zenon, <1>1, <2>5, <2>6, FloorShift
  <2>8. DigitOf(x + z * f, p) = (u + y) % Base
    <3> HIDE DEF u, y
    <3> QED
      BY <2>5, <2>6, Zenon DEF DigitOf, Part, b
  <2>9. DigitOf(x, p) = u % Base
    BY DEF DigitOf, Part, b
  <2> QED
    BY <2>7, <2>8, <2>9, Zenon DEF f
<1> QED
  BY <1>3, <1>4

(* The states of row r of the product: t is what comes of it.              *)
RowStates(t, x, y, D, i, k) ==
  {st \in SubState :
     /\ st.v \in 0 .. W!WordBase - 1 /\ st.u \in 0 .. 1
     /\ i + 2 * k <= Size =>
          /\ st.d = Mix(t, D, i + 2 * k)
          /\ st.v + st.u = Part(t, i + 2 * k) - Part(D, i + 2 * k)
                             - WordAt(x, i) * Part(y, 2 * k)
     /\ i + 2 * k >= Size => st.d = W!Stored(t)}

LEMMA MulStepOn ==
  ASSUME NEW t \in Int, NEW x \in Int, NEW y \in Int, NEW D \in Int,
         NEW r \in 1 .. Size \div 2, NEW k \in 1 .. Size \div 2,
         NEW st \in RowStates(t, x, y, D, 2 * (r - 1), k - 1)
  PROVE  MulStep(W!Stored(x), W!Stored(y), 2 * (r - 1), st, 2 * (k - 1))
           \in RowStates(t, x, y, D, 2 * (r - 1), k)
<1> DEFINE i == 2 * (r - 1)
           j == 2 * (k - 1)
           p == i + j
           w == W!WordBase
           a == W!Stored(x)
           b == W!Stored(y)
           wa == WordAt(x, i)
           e == WordAt(y, j)
           s == st.v + st.u + wa * e
           out == MulStep(a, b, i, st, j)
<1>1. /\ i \in Words /\ j \in Words /\ j + 2 = 2 * k /\ w \in Nat \ {0} /\ w >= 2
      /\ W!LongBase = w * w
  <2>1. w = Base * Base /\ Base \in Nat /\ Base >= 2 /\ Base ^ 4 = Base ^ 2 * Base ^ 2
    BY FewPowers DEF W!WordBase
  <2>2. W!LongBase = w * w
    BY <2>1, Zenon DEF W!LongBase, W!WordBase
  <2>3. Base <= Base * Base
    BY <2>1, Times
  <2>4. w >= 2 /\ w \in Nat \ {0}
    <3>1. w \in Nat \ {0}
      BY WordsIn
    <3> QED
      BY <2>1, <2>3, <3>1
  <2> QED
    BY <2>2, <2>4, WordsIn
<1>2. /\ p \in Nat /\ i + 2 * k = p + 2
      /\ p < Size => p \in Words /\ p + 2 <= Size
      /\ p >= Size => p + 2 > Size
  BY WordPlace, <1>1
<1>3. /\ st \in SubState /\ st.v \in 0 .. w - 1 /\ st.u \in 0 .. 1
      /\ p <= Size => /\ st.d = Mix(t, D, p)
                      /\ st.v + st.u = Part(t, p) - Part(D, p) - wa * Part(y, j)
      /\ p >= Size => st.d = W!Stored(t)
  BY DEF RowStates
<1>4. /\ W!Word(a, i) = wa /\ wa \in 0 .. w - 1
      /\ W!Word(b, j) = e /\ e \in 0 .. w - 1
  BY <1>1, WordsOfStored
<1>5. out \in SubState
  <2>1. a \in Row /\ b \in Row
    BY StoredIs
  <2> QED
    BY <1>3, <2>1, MulStepIn
<1> HIDE DEF i, j, p, a, b
<1> DEFINE v0 == st.v
           u0 == st.u
<1>6. ASSUME NEW c \in 0 .. w - 1
      PROVE  /\ s \in Nat /\ s % W!LongBase = s /\ s \div w \in 0 .. w - 1
             /\ (c + (s % w)) \div w \in 0 .. 1
             /\ st.u \div w \in 0 .. 1
  <2>1. v0 \in 0 .. w - 1 /\ u0 \in 0 .. 1
    BY <1>3
  <2> HIDE DEF v0, u0, wa, e, w
  <2>2. LET q == v0 + u0 + wa * e
        IN /\ q \in Nat /\ q % (w * w) = q /\ q \div w \in 0 .. w - 1
           /\ (c + (q % w)) \div w \in 0 .. 1 /\ u0 \div w \in 0 .. 1
    BY <1>1, <1>4, <2>1, MulRange
  <2> QED
    BY <1>1, <2>2, Zenon DEF v0, u0
<1>7. CASE p < Size
  <2> DEFINE c == WordAt(D, p)
             D1 == Part(D, p + 2)
             Y1 == Part(y, j + 2)
             T == Part(t, p)
             u == c + (s % w)
  <2>1. /\ p \in Words /\ p + 2 <= Size /\ st.d = Mix(t, D, p)
        /\ st.v + st.u = T - Part(D, p) - wa * Part(y, j)
    <3>1. p <= Size
      BY <1>2, <1>7, FewPowers
    <3> HIDE DEF T, wa
    <3> QED
      BY <1>2, <1>3, <1>7, <3>1, Zenon DEF T
  <2>2. /\ c \in 0 .. w - 1 /\ D1 \in Int /\ Part(D, p) = D1 * w + c /\ Part(D, p) \in Int
    BY <2>1, WordOf DEF Words
  <2>3. Y1 \in Int /\ Part(y, j) = Y1 * w + e /\ Part(y, j) \in Int
    BY <1>1, WordOf DEF Words
  <2>4. T \in Int /\ Part(t, p + 2) = T \div w /\ WordAt(t, p) = T % w
    <3>1. T \in Int /\ Part(t, p + 2) = T \div w
      BY <2>1, WordOf DEF Words
    <3> QED
      BY <3>1 DEF WordAt
  <2>5. /\ W!Word(st.d, p) = c
        /\ W!PutWord(st.d, p, WordAt(t, p)) = Mix(t, D, p + 2)
    BY <2>1, MixWord DEF Words
  <2>6. /\ s \in Nat /\ s % W!LongBase = s /\ s \div w \in 0 .. w - 1 /\ u \div w \in 0 .. 1
    BY <1>6, <2>2
  <2>7. out = [d |-> W!PutWord(st.d, p, u % w), u |-> u \div w, v |-> s \div w]
    <3> DEFINE z == W!Word(a, i) * W!Word(b, j)
    <3>1. (st.v + st.u + W!Word(a, i) * W!Word(b, j)) % W!LongBase = s
      BY <1>4, <2>6, Zenon
    <3>2. i + j < Size /\ i + j = p
      BY <1>7 DEF p
    <3> HIDE DEF s
    <3> QED
      BY <2>5, <3>1, <3>2, Zenon DEF MulStep
  <2>8. /\ u % w = T % w /\ (s \div w) + (u \div w) = (T \div w) - D1 - wa * Y1
    <3> DEFINE g == st.v + st.u
               f == wa * e
               h == wa * (Y1 * w + e)
               q == D1 * w + c
    <3>1. wa \in Int /\ e \in Int /\ c \in Int
      BY <1>1, <1>4, <2>2
    <3> HIDE DEF wa, e, c, w, D1, Y1
    <3>2. f \in Int /\ h \in Int /\ q \in Int
      BY <1>1, <2>2, <2>3, <3>1, SMT
    <3>3. g = T - q - h /\ s = g + f
      BY <2>1, <2>2, <2>3
    <3>4. (s - f) + q + h = T
      <4> HIDE DEF f, h, q, g, s, T
      <4>1. g \in Int
        BY <2>4, <3>2, <3>3
      <4> QED
        BY <2>4, <3>2, <3>3, <4>1
    <3> HIDE DEF s, T
    <3>5. s \in Int
      BY <2>6
    <3>6. MulCarries(w, D1, Y1, c, e, wa, s)
      <4>1. w \in Nat \ {0} /\ D1 \in Int /\ Y1 \in Int
        BY <1>1, <2>2, <2>3
      <4> QED
        BY Zenon, <3>1, <3>5, <4>1, MulCarry
    <3> QED
      BY <3>4, <3>6, Zenon DEF MulTotal, MulCarries
  <2>9. /\ out.d = Mix(t, D, p + 2) /\ out.v = s \div w /\ out.u = u \div w
    <3> HIDE DEF u, s, out
    <3> QED
      BY <2>4, <2>5, <2>7, <2>8
  <2>10. out.v + out.u = Part(t, p + 2) - Part(D, p + 2) - wa * Part(y, 2 * k)
    <3> HIDE DEF u, s, out, wa, w, T
    <3> QED
      BY <1>1, <2>4, <2>8, <2>9, Zenon
  <2>11. p + 2 >= Size => out.d = W!Stored(t)
    <3>1. p + 2 >= Size => p + 2 = Size
      BY <1>2, <2>1, FewPowers
    <3>2. Mix(t, D, Size) = W!Stored(t)
      BY MixEnds
    <3> HIDE DEF out
    <3> QED
      BY <2>9, <3>1, <3>2
  <2> HIDE DEF out, u, s, wa, w
  <2> QED
    BY <1>2, <1>5, <2>6, <2>9, <2>10, <2>11 DEF RowStates, wa, w, i, j, a, b, out
<1>8. CASE ~(p < Size)
  <2>1. p >= Size /\ p + 2 > Size /\ st.d = W!Stored(t)
    BY <1>2, <1>3, <1>8, FewPowers
  <2>2. 0 \in 0 .. w - 1
    BY <1>1
  <2>3. s % W!LongBase = s /\ s \div w \in 0 .. w - 1 /\ st.u \div w \in 0 .. 1
    BY <1>6, <2>2
  <2>4. out = [st EXCEPT !.u = @ \div w, !.v = s \div w]
    <3>1. (st.v + st.u + W!Word(a, i) * W!Word(b, j)) % W!LongBase = s
      BY <1>4, <2>3, Zenon
    <3>2. ~(i + j < Size)
      BY <1>8 DEF p
    <3> HIDE DEF s
    <3> QED
      BY <3>1, <3>2, Zenon DEF MulStep
  <2>5. out.d = W!Stored(t) /\ out.v = s \div w /\ out.u = st.u \div w
    <3> HIDE DEF s
    <3> QED
      BY <1>3, <2>1, <2>4 DEF SubState
  <2>6. ~(p + 2 <= Size) /\ p + 2 >= Size
    BY <1>2, <2>1, FewPowers
  <2> HIDE DEF out, s, wa, w
  <2> QED
    BY <1>2, <1>5, <2>3, <2>5, <2>6 DEF RowStates, w, i, j, a, b, out
<1> QED
  BY <1>7, <1>8

(* A row adds the product of a word of x and y, at the place of the word.  *)
LEMMA MulRowRight ==
  ASSUME NEW x \in Int, NEW y \in Int, NEW D \in Int, NEW r \in 1 .. Size \div 2
  PROVE  /\ D + (WordAt(x, 2 * (r - 1)) * y) * Base ^ (2 * (r - 1)) \in Int
         /\ MulRow(W!Stored(x), W!Stored(y), W!Stored(D), 2 * (r - 1))
              = W!Stored(D + (WordAt(x, 2 * (r - 1)) * y) * Base ^ (2 * (r - 1)))
<1> DEFINE i == 2 * (r - 1)
           n == Size \div 2
           wa == WordAt(x, i)
           z == wa * y
           t == D + z * Base ^ i
           h == [k \in 0 .. n |-> RowStates(t, x, y, D, i, k)]
<1>1. i \in Words /\ i \in 0 .. Size /\ n \in Nat /\ wa \in Int /\ z \in Int
      /\ W!WordBase \in Nat \ {0} /\ i + 2 * n >= Size /\ i + 2 * 0 = i /\ i < Size
  <2>1. i \in Words /\ n \in Nat /\ W!WordBase \in Nat \ {0} /\ 2 * n = Size
    BY WordsIn
  <2>2. i \in 0 .. Size /\ i + 2 * n >= Size /\ i + 2 * 0 = i /\ i < Size
    BY <2>1, FewPowers DEF Words
  <2>3. wa \in 0 .. W!WordBase - 1
    BY Zenon, <2>1, WordOf DEF Words
  <2>4. wa \in Int
    BY <2>1, <2>3
  <2> HIDE DEF wa
  <2>5. z \in Int
    BY <2>4, SMT
  <2> QED
    BY <2>1, <2>2, <2>4, <2>5
<1>2. /\ t \in Int /\ Part(t, i) = Part(D, i) + z
      /\ \A p \in 0 .. Size - 1 : p < i => DigitOf(t, p) = DigitOf(D, p)
  <2> HIDE DEF z, i
  <2> QED
    BY Zenon, <1>1, SameBelow
<1> HIDE DEF t
<1>3. [d |-> W!Stored(D), u |-> 0, v |-> 0] \in RowStates(t, x, y, D, i, 0)
  <2>1. W!Stored(D) = Mix(t, D, i)
    <3>1. W!Stored(D) = [p \in 0 .. Size - 1 |-> DigitOf(D, p)]
      BY StoredIs
    <3> HIDE DEF i
    <3> QED
      BY <1>2, <3>1 DEF Mix
  <2>2. Part(t, i) - Part(D, i) - wa * Part(y, 0) = 0
    <3>1. Part(D, i) \in Int /\ Part(y, 0) = y
      BY <1>1, PartSteps
    <3>2. Part(t, i) - Part(D, i) - z = 0
      <4> HIDE DEF z, i
      <4> QED
        BY <1>1, <1>2, <3>1
    <3> QED
      BY <3>1, <3>2
  <2>3. W!Stored(D) \in Row
    BY StoredIs
  <2>4. 2 * 0 = 0
    OBVIOUS
  <2> DEFINE st == [d |-> W!Stored(D), u |-> 0, v |-> 0]
  <2>5. st \in SubState /\ st.d = Mix(t, D, i) /\ st.u = 0 /\ st.v = 0
    BY <2>1, <2>3 DEF SubState
  <2> HIDE DEF st, i, z
  <2>6. /\ st.v \in 0 .. W!WordBase - 1 /\ st.u \in 0 .. 1
        /\ ~(i + 2 * 0 >= Size) /\ st.v + st.u = 0
    BY <1>1, <2>5, FewPowers
  <2>7. /\ st.d = Mix(t, D, i + 2 * 0)
        /\ st.v + st.u = Part(t, i + 2 * 0) - Part(D, i + 2 * 0) - WordAt(x, i) * Part(y, 2 * 0)
    BY <1>1, <2>2, <2>4, <2>5, <2>6, Zenon
  <2>8. st \in RowStates(t, x, y, D, i, 0)
    BY <2>5, <2>6, <2>7, Zenon DEF RowStates
  <2> QED
    BY <2>8 DEF st
<1>4. ASSUME NEW k \in 1 .. n, NEW st \in RowStates(t, x, y, D, i, k - 1)
      PROVE  MulStep(W!Stored(x), W!Stored(y), i, st, 2 * (k - 1)) \in RowStates(t, x, y, D, i, k)
  BY Zenon, <1>2, MulStepOn
<1>5. MulSteps(W!Stored(x), W!Stored(y), W!Stored(D), r, h)
  <2>1. h[0] = RowStates(t, x, y, D, i, 0)
        /\ \A k \in 1 .. n : /\ h[k - 1] = RowStates(t, x, y, D, i, k - 1)
                            /\ h[k] = RowStates(t, x, y, D, i, k)
    BY <1>1
  <2> HIDE DEF h
  <2> QED
    BY <1>3, <1>4, <2>1 DEF MulSteps
<1>6. PICK st \in h[n] : MulRow(W!Stored(x), W!Stored(y), W!Stored(D), i) = st.d
  <2>1. W!Stored(x) \in Row /\ W!Stored(y) \in Row /\ W!Stored(D) \in Row
    BY StoredIs
  <2> DEFINE a == W!Stored(x)
             b == W!Stored(y)
             d == W!Stored(D)
  <2> HIDE DEF a, b, d, h
  <2>2. \E st \in h[Size \div 2] : MulRow(a, b, d, 2 * (r - 1)) = st.d
    BY <1>5, <2>1, MulRowFold DEF a, b, d
  <2> QED
    BY <2>2 DEF a, b, d
<1>7. st.d = W!Stored(t)
  <2>1. h[n] = RowStates(t, x, y, D, i, n)
    BY <1>1
  <2> HIDE DEF h, i, n
  <2> QED
    BY <1>1, <1>6, <2>1 DEF RowStates
<1> QED
  BY <1>2, <1>6, <1>7 DEF t

LEMMA MulArrFold ==
  ASSUME NEW a \in Row, NEW b0 \in Row, NEW h, h[0] = W!Zero,
         \A k \in 1 .. Size \div 2 : MulRow(a, b0, h[k - 1], 2 * (k - 1)) = h[k]
  PROVE  W!MulArr(a, b0) = h[Size \div 2]
<1> DEFINE n == Size \div 2
           b == W!Zero
           Is(f) == f = [t \in SUBSET DOMAIN W!WordPlaces |->
                           IF t = {} THEN b
                           ELSE MulRow(a, b0, f[t \ {W!Max(t)}], W!WordPlaces[W!Max(t)])]
<1>1. ASSUME NEW st \in Row, NEW k \in 1 .. n
      PROVE  MulRow(a, b0, st, W!WordPlaces[k]) \in Row
  BY MulRowIn, WordsIn
<1>2. \E f : Is(f)
  <2> DEFINE g == [x \in Row \X (1 .. n) |-> MulRow(a, b0, x[1], W!WordPlaces[x[2]])]
  <2>1. n \in Nat /\ DOMAIN W!WordPlaces = 1 .. n
    BY WordsIn
  <2>2. b \in Row
    BY FewPowers DEF Row, W!Zero, W!Places
  <2>3. g \in [Row \X (1 .. n) -> Row]
    BY <1>1
  <2>4. PICK f : /\ f = [t \in SUBSET (1 .. n) |->
                           IF t = {} THEN b ELSE g[<<f[t \ {W!Max(t)}], W!Max(t)>>]]
                 /\ \A t \in SUBSET (1 .. n) : f[t] \in Row
    <3> HIDE DEF g, b, n
    <3>1. \E f : IsFold(f, n, Row, b, g)
      BY Zenon, <2>1, <2>2, <2>3, FoldExists
    <3> QED
      BY <3>1, Zenon DEF IsFold
  <2>5. ASSUME NEW t \in SUBSET (1 .. n), t # {}
        PROVE  g[<<f[t \ {W!Max(t)}], W!Max(t)>>]
                 = MulRow(a, b0, f[t \ {W!Max(t)}], W!WordPlaces[W!Max(t)])
    <3>1. W!Max(t) \in t
      BY Zenon, <2>1, <2>5, MaxOf
    <3>2. W!Max(t) \in 1 .. n /\ f[t \ {W!Max(t)}] \in Row
      BY Zenon, <2>4, <3>1
    <3> QED
      BY <3>2
  <2>6. Is(f)
    <3> HIDE DEF g, b, n
    <3> QED
      BY Zenon, <2>1, <2>4, <2>5
  <2> QED
    <3> HIDE DEF Is
    <3> QED
      BY <2>6
<1>3. PICK f : Is(f) /\ W!MulArr(a, b0) = f[DOMAIN W!WordPlaces]
  <2>1. Is(CHOOSE f : Is(f))
    <3> HIDE DEF Is
    <3> QED
      BY <1>2
  <2> QED
    BY <2>1, Zenon DEF W!MulArr, MulRow, MulStep, W!FoldLeft, W!MapThenFoldSet
<1>4. f[{}] = h[0]
  BY <1>3
<1>5. ASSUME NEW k \in 1 .. n, f[1 .. k - 1] = h[k - 1] PROVE f[1 .. k] = h[k]
  <2>1. /\ n \in Nat /\ DOMAIN W!WordPlaces = 1 .. n
        /\ 1 .. k \in SUBSET (1 .. n) /\ 1 .. k # {} /\ W!Max(1 .. k) = k
        /\ (1 .. k) \ {k} = 1 .. k - 1 /\ W!WordPlaces[k] = 2 * (k - 1)
    BY Zenon, WordsIn, Beginnings
  <2>2. f[1 .. k] = MulRow(a, b0, f[1 .. k - 1], 2 * (k - 1))
    <3> DEFINE t == 1 .. k
    <3>1. t \in SUBSET DOMAIN W!WordPlaces /\ t # {}
      BY <2>1
    <3>2. f[t] = MulRow(a, b0, f[t \ {W!Max(t)}], W!WordPlaces[W!Max(t)])
      <4> HIDE DEF t, b
      <4> QED
        BY Zenon, <1>3, <3>1
    <3> QED
      BY Zenon, <2>1, <3>2
  <2> QED
    BY <1>5, <2>2 DEF n
<1>6. f[1 .. n] = h[n]
  <2>1. n \in Nat
    BY WordsIn
  <2> HIDE DEF n, Is
  <2> QED
    BY <1>4, <1>5, <2>1, FoldSteps
<1> QED
  BY Zenon, <1>3, <1>6, WordsIn

(* The number that the lowest digits of x are.                             *)
Low(x, i) == x - Part(x, i) * Base ^ i

LEMMA LowSteps ==
  ASSUME NEW x \in Int
  PROVE  /\ Low(x, 0) = 0
         /\ Part(x, Size) = 0 => Low(x, Size) = x
         /\ \A i \in Words : /\ Low(x, i) \in Int /\ Base ^ i \in Nat \ {0}
                            /\ WordAt(x, i) \in Int
                            /\ Low(x, i + 2) = Low(x, i) + WordAt(x, i) * Base ^ i
<1>1. Low(x, 0) = 0
  <2>1. Part(x, 0) = x /\ Base ^ 0 = 1
    BY PartSteps, FewPowers
  <2>2. x * 1 = x /\ x - x = 0
    OBVIOUS
  <2> QED
    BY <2>1, <2>2, Zenon DEF Low
<1>2. Part(x, Size) = 0 => Low(x, Size) = x
  <2>1. Size \in 0 .. Size + 1
    BY FewPowers
  <2>2. Base ^ Size \in Nat
    BY <2>1, Powers
  <2> DEFINE b == Base ^ Size
  <2> HIDE DEF b
  <2>3. x - 0 * b = x
    BY <2>2 DEF b
  <2> QED
    BY <2>3, Zenon DEF Low, b
<1>3. ASSUME NEW i \in Words
      PROVE  /\ Low(x, i) \in Int /\ Base ^ i \in Nat \ {0} /\ WordAt(x, i) \in Int
             /\ Low(x, i + 2) = Low(x, i) + WordAt(x, i) * Base ^ i
  <2> DEFINE b == Base ^ i
             w == W!WordBase
             p == Part(x, i)
             q == Part(x, i + 2)
             c == WordAt(x, i)
  <2>1. /\ i \in 0 .. Size + 1 /\ i + 2 \in 0 .. Size + 1 /\ 2 \in 0 .. Size + 1
    BY FewPowers DEF Words
  <2>2. Base ^ (i + 2) = b * w /\ b \in Nat \ {0}
    BY <2>1, PowerSum DEF W!WordBase
  <2>3. p \in Int /\ q \in Int /\ c \in 0 .. w - 1 /\ p = q * w + c /\ w \in Nat \ {0}
    BY Zenon, WordOf DEF Words
  <2>4. c \in Int
    BY <2>3
  <2>5. Low(x, i) = x - p * b /\ Low(x, i + 2) = x - q * (b * w)
    BY <2>2, Zenon DEF Low
  <2> HIDE DEF b, w, p, q, c
  <2>6. /\ (q * w + c) * b = q * (b * w) + c * b /\ q * (b * w) \in Int /\ c * b \in Int
    BY <2>2, <2>3, <2>4, SMT
  <2> DEFINE f == q * (b * w)
             g == c * b
             h == p * b
  <2>7. h = f + g /\ f \in Int /\ g \in Int
    BY <2>3, <2>6
  <2> HIDE DEF f, g, h
  <2>8. x - f = (x - h) + g /\ x - h \in Int
    BY <2>7
  <2> QED
    BY <2>2, <2>4, <2>5, <2>8 DEF f, g, h, b, c
<1> QED
  BY <1>1, <1>2, <1>3

LEMMA ZeroStored ==
  W!Zero = W!Stored(0)
<1>1. ASSUME NEW i \in 0 .. Size - 1 PROVE DigitOf(0, i) = 0
  <2>1. i \in 0 .. Size + 1 /\ Base \in Nat \ {0}
    BY FewPowers
  <2>2. Base ^ i \in Nat \ {0}
    BY <2>1, Powers
  <2> DEFINE b == Base ^ i
  <2> HIDE DEF b
  <2>3. 0 * b + 0 = 0 /\ 0 \in Int /\ 0 \in 0 .. b - 1 /\ b \in Nat \ {0}
    BY <2>2 DEF b
  <2>4. 0 \div b = 0
    BY <2>3, Floor
  <2>5. 0 % Base = 0
    BY <2>1, Mod
  <2> QED
    BY <2>4, <2>5 DEF DigitOf, Part, b
<1>2. W!Stored(0) = [i \in 0 .. Size - 1 |-> DigitOf(0, i)]
  BY StoredIs
<1> QED
  BY <1>1, <1>2 DEF W!Zero, W!Places

LEMMA MulArrRight ==
  ASSUME NEW x \in Nat, x < Full, NEW y \in Int
  PROVE  W!MulArr(W!Stored(x), W!Stored(y)) = W!Stored(x * y)
<1> DEFINE n == Size \div 2
           a == W!Stored(x)
           b == W!Stored(y)
           h == [k \in 0 .. n |-> W!Stored(Low(x, 2 * k) * y)]
<1>1. n \in Nat /\ 2 * n = Size /\ x \in Int /\ a \in Row /\ b \in Row
  BY WordsIn, StoredIs
<1>2. h[0] = W!Zero /\ h[n] = W!Stored(x * y)
  <2>1. Low(x, 0) = 0 /\ Low(x, Size) = x
    BY <1>1, NothingAbove, LowSteps
  <2>2. 2 * 0 = 0 /\ 0 * y = 0
    OBVIOUS
  <2>3. h[0] = W!Stored(Low(x, 2 * 0) * y) /\ h[n] = W!Stored(Low(x, 2 * n) * y)
    BY <1>1
  <2> HIDE DEF h, n
  <2> QED
    BY <1>1, <2>1, <2>2, <2>3, ZeroStored, Zenon
<1>3. ASSUME NEW k \in 1 .. n PROVE MulRow(a, b, h[k - 1], 2 * (k - 1)) = h[k]
  <2> DEFINE i == 2 * (k - 1)
             l == Low(x, i)
             c == WordAt(x, i)
             g == Base ^ i
             D == l * y
  <2>1. i \in Words /\ i + 2 = 2 * k
    BY WordsIn
  <2>2. l \in Int /\ c \in Int /\ g \in Nat \ {0} /\ Low(x, i + 2) = l + c * g
    BY <1>1, <2>1, LowSteps
  <2>3. h[k - 1] = W!Stored(D) /\ h[k] = W!Stored(Low(x, i + 2) * y)
    <3>1. h[k] = W!Stored(Low(x, 2 * k) * y) /\ h[k - 1] = W!Stored(D)
      BY <1>1
    <3> HIDE DEF h, D, i
    <3> QED
      BY <2>1, <3>1
  <2>4. D \in Int /\ Low(x, i + 2) * y = D + (c * y) * g
    <3> HIDE DEF l, c, g, i
    <3>1. (l + c * g) * y = l * y + (c * y) * g /\ l * y \in Int
      BY <2>2, SMT
    <3> QED
      BY <2>2, <3>1
  <2> HIDE DEF h, D
  <2>5. MulRow(W!Stored(x), W!Stored(y), W!Stored(D), 2 * (k - 1))
          = W!Stored(D + (WordAt(x, 2 * (k - 1)) * y) * Base ^ (2 * (k - 1)))
    BY <1>1, <2>4, MulRowRight
  <2> QED
    BY <2>3, <2>4, <2>5, Zenon
<1> HIDE DEF h, a, b
<1>4. W!MulArr(a, b) = h[n]
  BY <1>1, <1>2, <1>3, MulArrFold
<1> QED
  BY <1>2, <1>4 DEF a, b

(* bch_mul.                                                                *)
LEMMA MulRight ==
  ASSUME NEW x \in Int, - Half <= x, x < Half, NEW y \in Int, - Half <= y, y < Half
  PROVE  W!Mul(W!Stored(x), W!Stored(y)) = W!Stored(x * y)
<1> DEFINE a == Abs(x)
           b == Abs(y)
           p == a * b
<1>1. W!AbsOf(W!Stored(x)) = W!Stored(a) /\ W!AbsOf(W!Stored(y)) = W!Stored(b)
  BY AbsRight
<1>2. /\ W!IsNegative(W!Stored(x)) <=> x < 0
      /\ W!IsNegative(W!Stored(y)) <=> y < 0
  BY SignRight
<1>3. a \in Nat /\ a < Full /\ b \in Int /\ b \in Nat
  <2>1. Half \in Nat /\ Full = Half + Half /\ Full \in Nat \ {0}
    BY FullHalves
  <2> QED
    BY <2>1 DEF Abs
<1>4. W!MulArr(W!Stored(a), W!Stored(b)) = W!Stored(p)
  BY <1>3, MulArrRight
<1>5. p \in Int /\ (x * y = IF (x < 0) # (y < 0) THEN - p ELSE p)
  <2>1. p \in Int
    BY <1>3, SMT
  <2>2. (- x) * y = - (x * y) /\ x * (- y) = - (x * y) /\ (- x) * (- y) = x * y /\ x * y \in Int
    BY SMT
  <2> DEFINE q == x * y
  <2>3. CASE x < 0 /\ y < 0
    <3>1. p = q
      BY <2>2, <2>3, Zenon DEF Abs
    <3> QED
      BY <2>1, <2>3, <3>1
  <2>4. CASE x < 0 /\ ~(y < 0)
    <3>1. p = - q
      BY <2>2, <2>4, Zenon DEF Abs
    <3> HIDE DEF q, p
    <3>2. q = - p
      BY <2>1, <2>2, <3>1 DEF q
    <3> QED
      BY <2>1, <2>4, <3>2 DEF q
  <2>5. CASE ~(x < 0) /\ y < 0
    <3>1. p = - q
      BY <2>2, <2>5, Zenon DEF Abs
    <3> HIDE DEF q, p
    <3>2. q = - p
      BY <2>1, <2>2, <3>1 DEF q
    <3> QED
      BY <2>1, <2>5, <3>2 DEF q
  <2>6. CASE ~(x < 0) /\ ~(y < 0)
    <3>1. p = q
      BY <2>2, <2>6, Zenon DEF Abs
    <3> QED
      BY <2>1, <2>6, <3>1
  <2> QED
    BY <2>3, <2>4, <2>5, <2>6
<1> HIDE DEF a, b, p
<1>6. W!Negate(W!Stored(p)) = W!Stored(- p)
  BY <1>5, NegateRight
<1> DEFINE m == W!IsNegative(W!Stored(x))
           n == W!IsNegative(W!Stored(y))
<1>7. W!Mul(W!Stored(x), W!Stored(y)) = IF m # n THEN W!Stored(- p) ELSE W!Stored(p)
  BY <1>1, <1>4, <1>6, Zenon DEF W!Mul
<1>8. m \in BOOLEAN /\ n \in BOOLEAN
  BY DEF W!IsNegative
<1>9. m # n <=> ((x < 0) # (y < 0))
  <2>1. (x < 0) \in BOOLEAN /\ (y < 0) \in BOOLEAN
    BY SMT
  <2> DEFINE c == x < 0
             d == y < 0
  <2>2. c \in BOOLEAN /\ d \in BOOLEAN /\ (m <=> c) /\ (n <=> d)
    BY <1>2, <2>1
  <2> HIDE DEF c, d, m, n
  <2>3. m # n <=> c # d
    BY <1>8, <2>2, Zenon
  <2> QED
    BY <2>3 DEF c, d
<1> HIDE DEF m, n
<1> QED
  BY <1>5, <1>7, <1>9, Zenon

-----------------------------------------------------------------------------
(* Squares.                                                                *)

SqrPut(d, i, x) == IF i < Size THEN [d EXCEPT ![i] = x % Base] ELSE d

(* A step of bch_sqr_arr_base, its inner loop and a row.                   *)
SqrStep(a, i, st, j) ==
  LET t == IF i + j < Size THEN st.d[i + j] + 2 * a[i] * a[j] + (st.t \div Base) ELSE st.t
  IN [d |-> SqrPut(st.d, i + j, t), t |-> t]

Above(n, i) == [k \in 1 .. n - i |-> i + k]

SqrLoop(a, n, st, i) ==
  LET Step(in, j) == SqrStep(a, i, in, j)
  IN W!FoldLeft(Step, st, Above(n, i))

SqrStart(a, st, i) ==
  LET t == IF 2 * i < Size THEN st.d[2 * i] + a[i] * a[i] ELSE st.t
  IN [d |-> SqrPut(st.d, 2 * i, t), t |-> t]

SqrRow(a, n, st, i) ==
  LET out == SqrLoop(a, n, SqrStart(a, st, i), i)
  IN [d |-> SqrPut(out.d, i + n + 1, out.t \div Base), t |-> out.t]

SqrState == [d : Row, t : Int]

LEMMA SqrPutIn ==
  ASSUME NEW d \in Row, NEW i \in Nat, NEW x \in Int
  PROVE  SqrPut(d, i, x) \in Row
<1>1. Base \in Nat \ {0}
  BY FewPowers
<1>2. x % Base \in 0 .. Base - 1
  BY <1>1, FloorOf
<1> QED
  BY Zenon, <1>2 DEF SqrPut, Row

LEMMA SqrStepIn ==
  ASSUME NEW a \in Row, NEW st \in SqrState, NEW i \in Nat, NEW j \in Nat
  PROVE  SqrStep(a, i, st, j) \in SqrState
<1> DEFINE t == IF i + j < Size THEN st.d[i + j] + 2 * a[i] * a[j] + (st.t \div Base) ELSE st.t
<1>1. st.d \in Row /\ st.t \in Int /\ Base \in Nat \ {0} /\ Size \in Nat /\ i + j \in Nat
  BY FewPowers DEF SqrState
<1>2. t \in Int
  <2>1. CASE i + j < Size
    <3>1. i + j \in 0 .. Size - 1 /\ i \in 0 .. Size - 1 /\ j \in 0 .. Size - 1
      BY <1>1, <2>1
    <3> DEFINE c == st.d[i + j]
               e == a[i]
               f == a[j]
               g == st.t \div Base
    <3>2. c \in Int /\ e \in Int /\ f \in Int
      BY <1>1, <3>1 DEF Row
    <3> DEFINE s == st.t
    <3>3. g \in Int
      <4> HIDE DEF s
      <4> QED
        BY Zenon, <1>1, FloorOf DEF s
    <3>4. t = c + 2 * e * f + g
      BY <2>1
    <3> HIDE DEF c, e, f, g, t
    <3>5. 2 * e * f \in Int
      BY <3>2, SMT
    <3> QED
      BY <3>2, <3>3, <3>4, <3>5
  <2>2. CASE ~(i + j < Size)
    BY <1>1, <2>2
  <2> QED
    BY <2>1, <2>2
<1>3. SqrStep(a, i, st, j) = [d |-> SqrPut(st.d, i + j, t), t |-> t]
  BY Zenon DEF SqrStep
<1> HIDE DEF t
<1>4. SqrPut(st.d, i + j, t) \in Row
  BY <1>1, <1>2, SqrPutIn
<1> QED
  BY <1>2, <1>3, <1>4 DEF SqrState

LEMMA AboveIn ==
  ASSUME NEW n \in 0 .. Size, NEW i \in 0 .. n
  PROVE  /\ DOMAIN Above(n, i) = 1 .. n - i /\ n - i \in Nat /\ i \in Nat
         /\ \A k \in 1 .. n - i : Above(n, i)[k] = i + k /\ i + k \in Nat
BY FewPowers DEF Above

(* From b on the steps of row i keep to the sets h.                        *)
SqrSteps(a, n, b, i, h) ==
  /\ b \in h[0]
  /\ \A k \in 1 .. n - i : \A st \in h[k - 1] : SqrStep(a, i, st, i + k) \in h[k]

LEMMA SqrLoopFold ==
  ASSUME NEW a \in Row, NEW m \in 0 .. Size, NEW i \in 0 .. m, NEW start \in SqrState,
         NEW h, SqrSteps(a, m, start, i, h)
  PROVE  \E st \in h[m - i] : SqrLoop(a, m, start, i) = st
<1> USE DEF SqrSteps
<1> DEFINE n == m - i
           b == start
           Is(f) == f = [t \in SUBSET DOMAIN Above(m, i) |->
                           IF t = {} THEN b
                           ELSE SqrStep(a, i, f[t \ {W!Max(t)}], Above(m, i)[W!Max(t)])]
<1>1. ASSUME NEW st \in SqrState, NEW k \in 1 .. n
      PROVE  SqrStep(a, i, st, Above(m, i)[k]) \in SqrState
  BY Zenon, SqrStepIn, AboveIn
<1>2. \E f : Is(f)
  <2> DEFINE g == [x \in SqrState \X (1 .. n) |-> SqrStep(a, i, x[1], Above(m, i)[x[2]])]
  <2>1. n \in Nat /\ DOMAIN Above(m, i) = 1 .. n
    BY AboveIn
  <2>2. b \in SqrState
    BY DEF SqrState
  <2>3. g \in [SqrState \X (1 .. n) -> SqrState]
    BY <1>1
  <2>4. PICK f : /\ f = [t \in SUBSET (1 .. n) |->
                           IF t = {} THEN b ELSE g[<<f[t \ {W!Max(t)}], W!Max(t)>>]]
                 /\ \A t \in SUBSET (1 .. n) : f[t] \in SqrState
    <3> HIDE DEF g, b, n
    <3>1. \E f : IsFold(f, n, SqrState, b, g)
      BY Zenon, <2>1, <2>2, <2>3, FoldExists
    <3> QED
      BY <3>1, Zenon DEF IsFold
  <2>5. ASSUME NEW t \in SUBSET (1 .. n), t # {}
        PROVE  g[<<f[t \ {W!Max(t)}], W!Max(t)>>]
                 = SqrStep(a, i, f[t \ {W!Max(t)}], Above(m, i)[W!Max(t)])
    <3>1. W!Max(t) \in t
      BY Zenon, <2>1, <2>5, MaxOf
    <3>2. W!Max(t) \in 1 .. n /\ f[t \ {W!Max(t)}] \in SqrState
      BY Zenon, <2>4, <3>1
    <3> QED
      BY <3>2
  <2>6. Is(f)
    <3> HIDE DEF g, b, n
    <3> QED
      BY Zenon, <2>1, <2>4, <2>5
  <2> QED
    <3> HIDE DEF Is
    <3> QED
      BY <2>6
<1>3. PICK f : Is(f) /\ SqrLoop(a, m, start, i) = f[DOMAIN Above(m, i)]
  <2>1. Is(CHOOSE f : Is(f))
    <3> HIDE DEF Is
    <3> QED
      BY <1>2
  <2> QED
    BY <2>1, Zenon DEF SqrLoop, W!FoldLeft, W!MapThenFoldSet
<1>4. f[{}] \in h[0]
  BY <1>3
<1>5. ASSUME NEW k \in 1 .. n, f[1 .. k - 1] \in h[k - 1] PROVE f[1 .. k] \in h[k]
  <2>1. /\ n \in Nat /\ DOMAIN Above(m, i) = 1 .. n
        /\ 1 .. k \in SUBSET (1 .. n) /\ 1 .. k # {} /\ W!Max(1 .. k) = k
        /\ (1 .. k) \ {k} = 1 .. k - 1 /\ Above(m, i)[k] = i + k
    <3>1. n \in Nat /\ DOMAIN Above(m, i) = 1 .. n /\ Above(m, i)[k] = i + k
      BY AboveIn
    <3> HIDE DEF n
    <3>2. /\ 1 .. k \in SUBSET (1 .. n) /\ 1 .. k # {} /\ W!Max(1 .. k) = k
          /\ (1 .. k) \ {k} = 1 .. k - 1
      BY <3>1, Beginnings
    <3> QED
      BY <3>1, <3>2
  <2>2. f[1 .. k] = SqrStep(a, i, f[1 .. k - 1], i + k)
    <3> DEFINE t == 1 .. k
    <3>1. t \in SUBSET DOMAIN Above(m, i) /\ t # {}
      BY <2>1
    <3>2. f[t] = SqrStep(a, i, f[t \ {W!Max(t)}], Above(m, i)[W!Max(t)])
      <4> HIDE DEF t, b
      <4> QED
        BY Zenon, <1>3, <3>1
    <3> QED
      BY Zenon, <2>1, <3>2
  <2> QED
    BY <1>5, <2>2 DEF n
<1>6. f[1 .. n] \in h[n]
  <2>1. n \in Nat
    BY AboveIn
  <2> HIDE DEF n, Is
  <2> QED
    BY <1>4, <1>5, <2>1, FoldKeeps
<1> QED
  BY Zenon, <1>3, <1>6, AboveIn

LEMMA SqrLoopIn ==
  ASSUME NEW a \in Row, NEW n \in 0 .. Size, NEW i \in 0 .. n, NEW st \in SqrState
  PROVE  SqrLoop(a, n, st, i) \in SqrState
<1> DEFINE h == [k \in 0 .. n - i |-> SqrState]
<1>1. h[n - i] = SqrState /\ SqrSteps(a, n, st, i, h)
  <2>1. /\ n - i \in Nat /\ i \in Nat /\ \A k \in 1 .. n - i : i + k \in Nat
    BY AboveIn
  <2>2. h[0] = SqrState /\ h[n - i] = SqrState
        /\ \A k \in 1 .. n - i : h[k - 1] = SqrState /\ h[k] = SqrState
    BY <2>1
  <2> HIDE DEF h
  <2>3. \A k \in 1 .. n - i : \A in \in SqrState : SqrStep(a, i, in, i + k) \in SqrState
    BY <2>1, SqrStepIn
  <2> QED
    BY Zenon, <2>2, <2>3 DEF SqrSteps
<1> HIDE DEF h
<1>2. \E in \in h[n - i] : SqrLoop(a, n, st, i) = in
  BY <1>1, SqrLoopFold
<1> QED
  BY <1>1, <1>2

LEMMA SqrStartIn ==
  ASSUME NEW a \in Row, NEW i \in Nat, NEW st \in SqrState
  PROVE  SqrStart(a, st, i) \in SqrState
<1> DEFINE t == IF 2 * i < Size THEN st.d[2 * i] + a[i] * a[i] ELSE st.t
<1>1. st.d \in Row /\ st.t \in Int /\ Base \in Nat \ {0} /\ Size \in Nat /\ 2 * i \in Nat
  BY FewPowers DEF SqrState
<1>2. t \in Int
  <2>1. CASE 2 * i < Size
    <3>1. 2 * i \in 0 .. Size - 1 /\ i \in 0 .. Size - 1
      BY <1>1, <2>1
    <3> DEFINE c == st.d[2 * i]
               e == a[i]
    <3>2. c \in Int /\ e \in Int
      BY <1>1, <3>1 DEF Row
    <3>3. t = c + e * e
      BY <2>1
    <3> HIDE DEF c, e, t
    <3>4. e * e \in Int
      BY <3>2, SMT
    <3> QED
      BY <3>2, <3>3, <3>4
  <2>2. CASE ~(2 * i < Size)
    BY <1>1, <2>2
  <2> QED
    BY <2>1, <2>2
<1>3. SqrStart(a, st, i) = [d |-> SqrPut(st.d, 2 * i, t), t |-> t]
  BY Zenon DEF SqrStart
<1> HIDE DEF t
<1>4. SqrPut(st.d, 2 * i, t) \in Row
  BY <1>1, <1>2, SqrPutIn
<1> QED
  BY <1>2, <1>3, <1>4 DEF SqrState

LEMMA SqrRowIn ==
  ASSUME NEW a \in Row, NEW n \in 0 .. Size, NEW i \in 0 .. n, NEW st \in SqrState
  PROVE  SqrRow(a, n, st, i) \in SqrState
<1> DEFINE out == SqrLoop(a, n, SqrStart(a, st, i), i)
           s == out.t
           c == s \div Base
<1>1. i \in Nat /\ i + n + 1 \in Nat /\ Base \in Nat \ {0}
  BY FewPowers
<1>2. SqrStart(a, st, i) \in SqrState
  BY <1>1, SqrStartIn
<1>3. out \in SqrState
  BY <1>2, SqrLoopIn
<1>4. SqrRow(a, n, st, i) = [d |-> SqrPut(out.d, i + n + 1, c), t |-> s]
  BY Zenon DEF SqrRow
<1> HIDE DEF out
<1>5. out.d \in Row /\ s \in Int
  BY <1>3 DEF SqrState
<1> HIDE DEF s
<1>6. c \in Int
  BY <1>1, <1>5, FloorOf
<1> HIDE DEF c
<1>7. SqrPut(out.d, i + n + 1, c) \in Row
  BY <1>1, <1>5, <1>6, SqrPutIn
<1> QED
  BY <1>4, <1>5, <1>7 DEF SqrState

(* The rows.                                                               *)
SqrPlaces(n) == [k \in 1 .. n + 1 |-> k - 1]

LEMMA SqrPlacesIn ==
  ASSUME NEW n \in 0 .. Size
  PROVE  /\ DOMAIN SqrPlaces(n) = 1 .. n + 1 /\ n + 1 \in Nat
         /\ \A k \in 1 .. n + 1 : SqrPlaces(n)[k] = k - 1 /\ k - 1 \in 0 .. n
BY FewPowers DEF SqrPlaces

SqrRows(a, m, h) ==
  /\ [d |-> W!Zero, t |-> 0] \in h[0]
  /\ \A k \in 1 .. m + 1 : \A st \in h[k - 1] : SqrRow(a, m, st, k - 1) \in h[k]

SqrOf(a, n) ==
  LET RowStep(st, i) == SqrRow(a, n, st, i)
  IN W!FoldLeft(RowStep, [d |-> W!Zero, t |-> 0], SqrPlaces(n)).d

LEMMA SqrIs ==
  ASSUME NEW a
  PROVE  W!Sqr(a) = SqrOf(a, W!Hexp(a) + 1)
BY Zenon DEF W!Sqr, SqrOf, SqrRow, SqrStart, SqrLoop, SqrStep, SqrPut, Above, SqrPlaces

LEMMA SqrFold ==
  ASSUME NEW a \in Row, NEW m \in 0 .. Size, NEW h, SqrRows(a, m, h)
  PROVE  \E st \in h[m + 1] : SqrOf(a, m) = st.d
<1> USE DEF SqrRows
<1> DEFINE n == m + 1
           b == [d |-> W!Zero, t |-> 0]
           Is(f) == f = [t \in SUBSET DOMAIN SqrPlaces(m) |->
                           IF t = {} THEN b
                           ELSE SqrRow(a, m, f[t \ {W!Max(t)}], SqrPlaces(m)[W!Max(t)])]
<1>1. ASSUME NEW st \in SqrState, NEW k \in 1 .. n
      PROVE  SqrRow(a, m, st, SqrPlaces(m)[k]) \in SqrState
  BY SqrRowIn, SqrPlacesIn
<1>2. \E f : Is(f)
  <2> DEFINE g == [x \in SqrState \X (1 .. n) |-> SqrRow(a, m, x[1], SqrPlaces(m)[x[2]])]
  <2>1. n \in Nat /\ DOMAIN SqrPlaces(m) = 1 .. n
    BY SqrPlacesIn
  <2>2. b \in SqrState
    BY FewPowers DEF SqrState, Row, W!Zero, W!Places
  <2>3. g \in [SqrState \X (1 .. n) -> SqrState]
    BY <1>1
  <2>4. PICK f : /\ f = [t \in SUBSET (1 .. n) |->
                           IF t = {} THEN b ELSE g[<<f[t \ {W!Max(t)}], W!Max(t)>>]]
                 /\ \A t \in SUBSET (1 .. n) : f[t] \in SqrState
    <3> HIDE DEF g, b, n
    <3>1. \E f : IsFold(f, n, SqrState, b, g)
      BY Zenon, <2>1, <2>2, <2>3, FoldExists
    <3> QED
      BY <3>1, Zenon DEF IsFold
  <2>5. ASSUME NEW t \in SUBSET (1 .. n), t # {}
        PROVE  g[<<f[t \ {W!Max(t)}], W!Max(t)>>]
                 = SqrRow(a, m, f[t \ {W!Max(t)}], SqrPlaces(m)[W!Max(t)])
    <3>1. W!Max(t) \in t
      BY Zenon, <2>1, <2>5, MaxOf
    <3>2. W!Max(t) \in 1 .. n /\ f[t \ {W!Max(t)}] \in SqrState
      BY Zenon, <2>4, <3>1
    <3> QED
      BY <3>2
  <2>6. Is(f)
    <3> HIDE DEF g, b, n
    <3> QED
      BY Zenon, <2>1, <2>4, <2>5
  <2> QED
    <3> HIDE DEF Is
    <3> QED
      BY <2>6
<1>3. PICK f : Is(f) /\ SqrOf(a, m) = f[DOMAIN SqrPlaces(m)].d
  <2>1. Is(CHOOSE f : Is(f))
    <3> HIDE DEF Is
    <3> QED
      BY <1>2
  <2> QED
    BY <2>1, Zenon DEF SqrOf, W!FoldLeft, W!MapThenFoldSet
<1>4. f[{}] \in h[0]
  BY <1>3
<1>5. ASSUME NEW k \in 1 .. n, f[1 .. k - 1] \in h[k - 1] PROVE f[1 .. k] \in h[k]
  <2>1. /\ n \in Nat /\ DOMAIN SqrPlaces(m) = 1 .. n
        /\ 1 .. k \in SUBSET (1 .. n) /\ 1 .. k # {} /\ W!Max(1 .. k) = k
        /\ (1 .. k) \ {k} = 1 .. k - 1 /\ SqrPlaces(m)[k] = k - 1
    BY Zenon, SqrPlacesIn, Beginnings
  <2>2. f[1 .. k] = SqrRow(a, m, f[1 .. k - 1], k - 1)
    <3> DEFINE t == 1 .. k
    <3>1. t \in SUBSET DOMAIN SqrPlaces(m) /\ t # {}
      BY <2>1
    <3>2. f[t] = SqrRow(a, m, f[t \ {W!Max(t)}], SqrPlaces(m)[W!Max(t)])
      <4> HIDE DEF t, b
      <4> QED
        BY Zenon, <1>3, <3>1
    <3> QED
      BY Zenon, <2>1, <3>2
  <2> QED
    BY <1>5, <2>2 DEF n
<1>6. f[1 .. n] \in h[n]
  <2>1. n \in Nat
    BY SqrPlacesIn
  <2> HIDE DEF n, Is
  <2> QED
    BY Zenon, <1>4, <1>5, <2>1, FoldKeeps
<1> QED
  BY Zenon, <1>3, <1>6, SqrPlacesIn

(* A digit less of the old row.                                            *)
LEMMA MixDigit ==
  ASSUME NEW t \in Int, NEW x \in Int, NEW p \in 0 .. Size - 1
  PROVE  /\ Mix(t, x, p)[p] = DigitOf(x, p)
         /\ [Mix(t, x, p) EXCEPT ![p] = DigitOf(t, p)] = Mix(t, x, p + 1)
<1>1. p \in Int /\ ~(p < p) /\ Size \in Nat
  BY FewPowers
<1>2. Mix(t, x, p)[p] = DigitOf(x, p)
  BY <1>1 DEF Mix
<1>3. [Mix(t, x, p) EXCEPT ![p] = DigitOf(t, p)] = Mix(t, x, p + 1)
  <2>1. \A i \in 0 .. Size - 1 : i < p + 1 <=> (i < p \/ i = p)
    BY <1>1
  <2> QED
    BY Zenon, <1>1, <2>1 DEF Mix
<1> QED
  BY <1>2, <1>3

LEMMA StoredShift ==
  ASSUME NEW x \in Int, NEW v \in Int
  PROVE  x + v * Full \in Int /\ W!Stored(x + v * Full) = W!Stored(x)
<1>1. Full \in Nat \ {0}
  BY FullHalves
<1>2. x + v * Full \in Int /\ (x + v * Full) % Full = x % Full
  BY Zenon, <1>1, FloorShift
<1> QED
  BY <1>2 DEF W!Stored, Full

(* Nothing is above the digits of a small number.                          *)
LEMMA NothingFrom ==
  ASSUME NEW x \in Nat, NEW e \in 0 .. Size, NEW p \in 0 .. Size, e <= p, x < Base ^ e
  PROVE  Part(x, p) = 0
<1>1. e \in 0 .. Size + 1 /\ p \in 0 .. Size + 1 /\ e \in Nat /\ p \in Nat
  BY FewPowers
<1>2. Base ^ e \in Nat \ {0} /\ Base ^ p \in Nat \ {0} /\ Base ^ e <= Base ^ p
  BY <1>1, Powers
<1> DEFINE b == Base ^ p
           c == Base ^ e
<1> HIDE DEF b, c
<1>3. 0 * b + x = x /\ x \in 0 .. b - 1 /\ 0 \in Int /\ x \in Int /\ b \in Nat \ {0}
  BY <1>2 DEF b, c
<1>4. x \div b = 0
  BY <1>3, Floor
<1> QED
  BY <1>4 DEF Part, b

(* bch_hexp finds the highest digit that is not 0.                         *)
LEMMA HexpRight ==
  ASSUME NEW x \in Nat, x < Full
  PROVE  /\ W!Hexp(W!Stored(x)) + 1 \in 0 .. Size
         /\ Part(x, W!Hexp(W!Stored(x)) + 1) = 0
<1> DEFINE d == W!Stored(x)
           e == W!Hexp(d)
<1>1. x \in Int /\ 0 \in Int /\ Size \in Nat /\ d = [i \in 0 .. Size - 1 |-> DigitOf(x, i)]
      /\ W!Zero = [i \in 0 .. Size - 1 |-> 0]
  BY StoredIs, FewPowers DEF W!Zero, W!Places
<1>2. Part(x, Size) = 0 /\ Part(0, Size) = 0
  <2>1. 0 < Full
    BY FullHalves
  <2> QED
    BY <2>1, NothingAbove
<1>3. \A i \in 0 .. Size - 1 : DigitOf(0, i) = 0
  <2>1. W!Stored(0) = [i \in 0 .. Size - 1 |-> DigitOf(0, i)]
    BY StoredIs
  <2>2. W!Stored(0) = [i \in 0 .. Size - 1 |-> 0]
    BY <1>1, ZeroStored
  <2> HIDE DEF d
  <2> QED
    BY <2>1, <2>2
<1>4. ASSUME NEW m \in 0 .. Size, \A i \in 0 .. Size - 1 : i >= m => DigitOf(x, i) = 0
      PROVE  Part(x, m) = 0
  <2>1. \A p \in 0 .. Size - 1 : p >= m => DigitOf(x, p) = DigitOf(0, p)
    BY <1>3, <1>4
  <2>2. Part(x, m) = Part(0, m)
    BY <1>1, <1>2, <2>1, SameAbove
  <2>3. 0 < Base ^ 0 /\ 0 \in Nat /\ 0 \in 0 .. Size /\ 0 <= m
    BY FewPowers
  <2>4. Part(0, m) = 0
    BY <2>3, NothingFrom
  <2> QED
    BY <2>2, <2>4
<1>5. CASE d = W!Zero
  <2>1. e = -1
    BY <1>5, Zenon DEF W!Hexp
  <2>2. e + 1 = 0 /\ 0 \in 0 .. Size
    <3> HIDE DEF e
    <3> QED
      BY <1>1, <2>1
  <2>3. \A i \in 0 .. Size - 1 : DigitOf(x, i) = 0
    <3> HIDE DEF d
    <3> QED
      BY <1>1, <1>5
  <2>4. Part(x, 0) = 0
    BY <1>4, <2>2, <2>3
  <2> HIDE DEF e
  <2> QED
    BY <2>2, <2>4 DEF e
<1>6. CASE d # W!Zero
  <2> DEFINE Tops(m) == d[m] # 0 /\ \A i \in W!Places : i > m => d[i] = 0
             T == {i \in 0 .. Size - 1 : d[i] # 0}
  <2>1. T # {}
    <3> HIDE DEF d
    <3>1. d \in [0 .. Size - 1 -> Int]
      <4>1. d \in Row
        BY StoredIs DEF d
      <4> QED
        BY <1>1, <4>1, FewPowers DEF Row
    <3> QED
      BY Zenon, <1>1, <1>6, <3>1
  <2>2. PICK g \in T : \A m \in T : m <= g
    <3>1. T \subseteq 0 .. Size
      BY <1>1
    <3> HIDE DEF T
    <3> QED
      BY Zenon, <1>1, <2>1, <3>1, Greatest
  <2>3. g \in W!Places /\ Tops(g)
    <3> HIDE DEF d
    <3> QED
      BY <1>1, <2>2 DEF W!Places
  <2>4. e = CHOOSE m \in W!Places : Tops(m)
    BY <1>6, Zenon DEF W!Hexp
  <2>5. e \in W!Places /\ Tops(e)
    <3> HIDE DEF Tops, e
    <3> QED
      BY <2>3, <2>4
  <2> HIDE DEF e
  <2>6. e \in 0 .. Size - 1 /\ e + 1 \in 0 .. Size /\ \A i \in 0 .. Size - 1 : i > e => d[i] = 0
    <3> HIDE DEF d
    <3> QED
      BY <1>1, <2>5 DEF W!Places
  <2>7. \A i \in 0 .. Size - 1 : i >= e + 1 => DigitOf(x, i) = 0
    <3>1. \A i \in 0 .. Size - 1 : d[i] = DigitOf(x, i) /\ (i >= e + 1 => i > e)
      BY <1>1, <2>6
    <3> HIDE DEF d
    <3> QED
      BY <2>6, <3>1
  <2>8. Part(x, e + 1) = 0
    BY <1>4, <2>6, <2>7
  <2> QED
    BY <2>6, <2>8 DEF e
<1> QED
  BY <1>5, <1>6

(* What is left of x above i digits, what the rows of those digits add up, *)
(* and what the row of a digit adds at twice its place.                    *)
Rest(x, i) == Part(x, i) * Base ^ i
SqrSum(x, i) == x * x - Rest(x, i) * Rest(x, i)
SqrAdded(x, i) == DigitOf(x, i) * (DigitOf(x, i) + 2 * (Part(x, i + 1) * Base))

LEMMA SqrSums ==
  ASSUME NEW x \in Int, NEW i \in 0 .. Size - 1
  PROVE  /\ SqrSum(x, i) \in Int /\ SqrSum(x, i + 1) \in Int /\ SqrAdded(x, i) \in Int
         /\ SqrSum(x, i + 1) = SqrSum(x, i) + (SqrAdded(x, i) * Base ^ i) * Base ^ i
<1> DEFINE b == Base ^ i
           p == Part(x, i)
           q == Part(x, i + 1)
           a == DigitOf(x, i)
           k == Base
<1>1. /\ p \in Int /\ q \in Int /\ a \in Int /\ p = q * k + a
      /\ k \in Nat \ {0} /\ b \in Nat \ {0} /\ Base ^ (i + 1) = b * k
  <2>1. /\ i \in 0 .. Size + 1 /\ i + 1 \in 0 .. Size + 1 /\ 1 \in 0 .. Size + 1
        /\ i \in 0 .. Size /\ i + 1 \in 0 .. Size /\ k \in Nat \ {0} /\ Base ^ 1 = Base
    BY FewPowers
  <2>2. Base ^ (i + 1) = b * k /\ b \in Nat \ {0}
    BY <2>1, PowerSum
  <2>3. p = q * k + a /\ a \in 0 .. Base - 1
    BY PartSteps
  <2>4. p \in Int /\ q \in Int
    BY Zenon, <2>1, PartSteps
  <2>5. a \in Int
    BY <2>1, <2>3
  <2> QED
    BY <2>1, <2>2, <2>3, <2>4, <2>5
<1>2. SqrAdded(x, i) = a * (a + 2 * (q * k))
  BY Zenon DEF SqrAdded
<1> HIDE DEF b, p, q, a, k
<1> DEFINE u == q * (b * k)
           v == a * b
           f == a * (a + 2 * (q * k))
           g == (f * b) * b
           r == u + v
<1>3. Rest(x, i) = p * b /\ Rest(x, i + 1) = u
  BY <1>1, Zenon DEF Rest, p, b, q
<1>4. u \in Int /\ v \in Int /\ f \in Int /\ g \in Int
  <2>1. u \in Int /\ v \in Int
    BY <1>1, SMT
  <2>2. q * k \in Int
    BY <1>1, SMT
  <2> DEFINE c == q * k
  <2> HIDE DEF c
  <2>3. f \in Int
    BY <1>1, <2>2, SMT DEF c
  <2> HIDE DEF f
  <2>4. g \in Int
    BY <1>1, <2>3, SMT
  <2> QED
    BY <2>1, <2>3, <2>4
<1>5. p * b = r
  <2>1. (q * k + a) * b = q * (b * k) + a * b
    BY <1>1, SMT
  <2> QED
    BY <1>1, <2>1
<1>6. v * (v + 2 * u) = g
  <2>1. v + 2 * u = (a + 2 * (q * k)) * b
    BY <1>1, SMT
  <2> DEFINE c == a + 2 * (q * k)
  <2>2. c \in Int
    BY <1>1, SMT
  <2> HIDE DEF c
  <2>3. (a * b) * (c * b) = ((a * c) * b) * b
    BY <1>1, <2>2, SMT
  <2> QED
    BY <2>1, <2>3, Zenon DEF c
<1> HIDE DEF u, v, f
<1>7. r * r = u * u + v * (v + 2 * u) /\ u * u \in Int /\ x * x \in Int
  BY <1>4, SMT
<1> HIDE DEF g, r
<1> DEFINE c == x * x
           d == u * u
           e == r * r
<1>8. SqrSum(x, i) = c - e /\ SqrSum(x, i + 1) = c - d
  BY <1>3, <1>5, Zenon DEF SqrSum
<1>9. e = d + g /\ d \in Int /\ c \in Int /\ g \in Int
  BY <1>4, <1>6, <1>7
<1> HIDE DEF c, d, e
<1>10. c - e \in Int /\ c - d \in Int /\ c - d = (c - e) + g
  BY <1>9
<1> QED
  BY <1>2, <1>4, <1>8, <1>10 DEF g, f, b

LEMMA SqrBound ==
  ASSUME NEW x \in Nat, NEW n \in 0 .. Size, Part(x, n) = 0, NEW i \in 0 .. n,
         i + n + 1 <= Size
  PROVE  /\ x < Base ^ n
         /\ SqrSum(x, i) \in Nat /\ SqrSum(x, i) < Base ^ (i + n + 1)
<1> DEFINE b == Base ^ i
           c == Base ^ n
           h == Base ^ (n + 1)
           k == Base
           p == Part(x, i)
           R == p * b
           L == x % b
<1>1. /\ b \in Nat \ {0} /\ c \in Nat \ {0} /\ h \in Nat \ {0} /\ k \in Nat /\ k >= 2
      /\ h = c * k /\ Base ^ (i + n + 1) = b * h
  <2>1. /\ i \in 0 .. Size + 1 /\ n \in 0 .. Size + 1 /\ n + 1 \in 0 .. Size + 1
        /\ 1 \in 0 .. Size + 1 /\ i + n + 1 \in 0 .. Size + 1 /\ i + (n + 1) = i + n + 1
        /\ k \in Nat /\ k >= 2 /\ Base ^ 1 = k
    BY FewPowers
  <2>2. b \in Nat \ {0} /\ c \in Nat \ {0} /\ h \in Nat \ {0}
    BY <2>1, Powers
  <2>3. h = c * Base ^ 1
    BY <2>1, PowerSum
  <2>4. Base ^ (i + n + 1) = b * h
    BY <2>1, PowerSum
  <2> QED
    BY <2>1, <2>2, <2>3, <2>4
<1>2. x \in Int /\ x = R + L /\ L \in 0 .. b - 1 /\ p \in Int
  <2>1. x \in Int /\ b \in Nat \ {0}
    BY <1>1
  <2>2. x \div b \in Int /\ x = (x \div b) * b + (x % b) /\ x % b \in 0 .. b - 1
    <3> HIDE DEF b
    <3> QED
      BY <2>1, FloorOf
  <2>3. p = x \div b
    BY DEF Part
  <2> HIDE DEF b
  <2> QED
    BY <2>1, <2>2, <2>3
<1>3. x < c
  <2>1. x \div c \in Int /\ x % c \in 0 .. c - 1 /\ x = (x \div c) * c + (x % c) /\ x \div c = 0
    <3>1. x \div c = 0
      BY DEF Part
    <3> HIDE DEF c
    <3> QED
      BY Zenon, <1>1, <1>2, <3>1, FloorOf
  <2>2. 0 * c = 0
    BY <1>1
  <2> DEFINE y == x % c
             z == x \div c
  <2>3. y \in 0 .. c - 1 /\ x = z * c + y /\ z = 0
    BY <2>1
  <2> HIDE DEF c, y, z
  <2>4. x = y
    BY <2>2, <2>3
  <2> QED
    BY <1>1, <2>3, <2>4
<1>4. p \in Nat
  BY <1>1, Div DEF Part
<1>5. SqrSum(x, i) = x * x - R * R
  BY Zenon DEF SqrSum, Rest
<1> HIDE DEF b, c, h, k, p, L
<1>6. R \in Nat
  BY <1>1, <1>4, Times
<1> HIDE DEF R
<1> DEFINE s == x + R
<1>7. s \in Nat /\ L \in Nat /\ L <= b /\ s < c + c
  BY <1>1, <1>2, <1>3, <1>6
<1>8. x * x - R * R = L * s
  <2>1. (R + L) * (R + L) - R * R = L * ((R + L) + R)
    BY <1>6, <1>7, SMT
  <2> QED
    BY <1>2, <2>1
<1> HIDE DEF s
<1>9. c + c <= h
  <2>1. 2 * c <= k * c /\ k * c = c * k
    BY <1>1, Times
  <2> QED
    BY <1>1, <2>1
<1>10. L * s <= b * s /\ L * s \in Nat /\ s * b + b <= h * b /\ b * s = s * b /\ h * b = b * h
  <2>1. s < h
    BY <1>1, <1>7, <1>9
  <2>2. L * s <= b * s /\ L * s \in Nat
    BY <1>1, <1>7, Times
  <2>3. s * b + b <= h * b /\ b * s = s * b /\ h * b = b * h
    BY <1>1, <1>7, <2>1, Times
  <2> QED
    BY <2>2, <2>3
<1>11. L * s < b * h
  <2> DEFINE e == L * s
             f == b * s
             g == b * h
  <2>1. e \in Nat /\ e <= f /\ f + b <= g
    BY <1>10
  <2>2. f \in Int /\ g \in Int
    BY <1>1, <1>7, SMT
  <2> HIDE DEF e, f, g
  <2>3. e < g
    BY <1>1, <2>1, <2>2
  <2> QED
    BY <2>3 DEF e, g
<1> QED
  BY <1>1, <1>3, <1>5, <1>8, <1>10, <1>11 DEF c

(* Row i after k of its steps, on the way from D to z.                     *)
SqrStates(x, D, z, i, k) ==
  {st \in SqrState :
     /\ 2 * i + k + 1 <= Size =>
          /\ st.d = Mix(z, D, 2 * i + k + 1)
          /\ st.t \div Base = Part(z, 2 * i + k + 1) - Part(D, 2 * i + k + 1)
                              - (2 * DigitOf(x, i)) * Part(x, i + k + 1)
     /\ 2 * i + k + 1 >= Size => st.d = W!Stored(z)}

(* A digit of z, and what is carried on: D1 and X1 are what is above the   *)
(* digits c and e.                                                         *)
SqrCarries(w, D1, X1, c, e, m, s) ==
  LET T == s + (D1 * w + c) + m * (X1 * w + e)
      t == c + m * e + s
  IN t \in Int /\ t % w = T % w /\ t \div w = (T \div w) - D1 - m * X1

LEMMA SqrCarry ==
  ASSUME NEW w \in Nat \ {0}, NEW D1 \in Int, NEW X1 \in Int, NEW c \in Int,
         NEW e \in Int, NEW m \in Int, NEW s \in Int
  PROVE  SqrCarries(w, D1, X1, c, e, m, s)
<1> DEFINE T == s + (D1 * w + c) + m * (X1 * w + e)
           t == c + m * e + s
           y == m * X1
           h == D1 + y
<1>1. y \in Int /\ m * e \in Int /\ m * (X1 * w + e) = y * w + m * e /\ y * w \in Int
      /\ D1 * w \in Int
  BY SMT
<1>2. t \in Int
  BY <1>1
<1>3. T = t + h * w /\ h \in Int
  <2>1. (D1 + y) * w = D1 * w + y * w
    BY <1>1, SMT
  <2> DEFINE b == m * e
             f == y * w
             g == D1 * w
             z == m * (X1 * w + e)
             l == (D1 + y) * w
  <2>2. z = f + b /\ b \in Int /\ f \in Int /\ g \in Int /\ l = g + f
    BY <1>1, <2>1
  <2> HIDE DEF b, f, g, z, l
  <2>3. s + (g + c) + z = (c + b + s) + l
    BY <2>2
  <2>4. h \in Int
    BY <1>1
  <2> QED
    BY <2>3, <2>4 DEF b, f, g, z, l
<1> HIDE DEF t, h, T
<1>4. t % w = T % w /\ T \div w = (t \div w) + h /\ t \div w \in Int
  <2>1. (t + h * w) % w = t % w /\ (t + h * w) \div w = (t \div w) + h
    BY Zenon, <1>2, <1>3, FloorShift
  <2>2. t \div w \in Int
    BY <1>2, FloorOf
  <2> QED
    BY <1>3, <2>1, <2>2
<1>5. h = D1 + y
  BY DEF h
<1> HIDE DEF y
<1> DEFINE u == t \div w
           v == T \div w
<1>6. u = v - D1 - y
  <2>1. u \in Int /\ v = u + h
    BY <1>4
  <2> HIDE DEF u, v
  <2> QED
    BY <1>1, <1>5, <2>1
<1> QED
  BY <1>2, <1>4, <1>6, Zenon DEF SqrCarries, t, T, y

LEMMA SqrStepOn ==
  ASSUME NEW x \in Int, NEW D \in Int, NEW z \in Int, NEW n \in 0 .. Size,
         NEW i \in 0 .. n - 1, NEW k \in 1 .. n - i, NEW st \in SqrStates(x, D, z, i, k - 1)
  PROVE  SqrStep(W!Stored(x), i, st, i + k) \in SqrStates(x, D, z, i, k)
<1> DEFINE a == W!Stored(x)
           p == 2 * i + k
           j == i + k
           m == 2 * DigitOf(x, i)
           s == st.t \div Base
           out == SqrStep(a, i, st, j)
<1>1. /\ i \in Nat /\ j \in Nat /\ p \in Nat /\ i + j = p /\ 2 * i + (k - 1) + 1 = p
      /\ i + (k - 1) + 1 = j /\ 2 * i + k + 1 = p + 1 /\ i + k + 1 = j + 1 /\ i \in 0 .. Size - 1
      /\ Base \in Nat \ {0} /\ Size \in Nat /\ j <= p
  BY FewPowers
<1>2. /\ st \in SqrState /\ st.t \in Int
      /\ p <= Size => /\ st.d = Mix(z, D, p)
                      /\ s = Part(z, p) - Part(D, p) - m * Part(x, j)
      /\ p >= Size => st.d = W!Stored(z)
  BY <1>1, Zenon DEF SqrStates, SqrState
<1>3. a \in Row /\ out \in SqrState
  <2>1. a \in Row
    BY StoredIs
  <2> QED
    BY <1>1, <1>2, <2>1, SqrStepIn
<1> HIDE DEF p, j
<1>4. CASE p < Size
  <2> DEFINE c == DigitOf(D, p)
             e == DigitOf(x, j)
             D1 == Part(D, p + 1)
             X1 == Part(x, j + 1)
             T == Part(z, p)
             f == DigitOf(x, i)
             t == c + m * e + s
             w == Base
  <2>1. p \in 0 .. Size - 1 /\ j \in 0 .. Size - 1 /\ p \in 0 .. Size /\ p + 1 \in 0 .. Size
        /\ j + 1 \in 0 .. Size /\ j \in 0 .. Size /\ p <= Size
    BY <1>1, <1>4
  <2>2. st.d = Mix(z, D, p) /\ s = T - Part(D, p) - m * Part(x, j) /\ T \in Int
    <3>1. T \in Int
      BY <2>1, PartSteps
    <3> QED
      BY <1>2, <2>1, <3>1
  <2>3. c \in Int /\ D1 \in Int /\ Part(D, p) = D1 * w + c
    <3>1. c \in 0 .. Base - 1 /\ D1 \in Int /\ Part(D, p) = D1 * w + c
      BY <2>1, PartSteps
    <3> QED
      BY <1>1, <3>1
  <2>4. e \in Int /\ X1 \in Int /\ Part(x, j) = X1 * w + e
    <3>1. e \in 0 .. Base - 1 /\ X1 \in Int /\ Part(x, j) = X1 * w + e
      BY <2>1, PartSteps
    <3> QED
      BY <1>1, <3>1
  <2>5. f \in Int /\ m \in Int /\ s \in Int
    <3>1. f \in 0 .. Base - 1
      BY <1>1, PartSteps
    <3>2. f \in Int
      BY <1>1, <3>1
    <3> DEFINE y == st.t
    <3>3. s \in Int
      <4> HIDE DEF y
      <4>1. y \in Int
        BY <1>2 DEF y
      <4>2. y \div Base \in Int
        BY <1>1, <4>1, FloorOf
      <4> QED
        BY <4>2 DEF y
    <3> QED
      BY <3>2, <3>3
  <2>6. Part(z, p + 1) = T \div w /\ DigitOf(z, p) = T % w
    <3>1. Part(z, p + 1) = T \div w
      BY <2>1, PartSteps
    <3> QED
      BY <3>1 DEF DigitOf
  <2>7. a[i] = f /\ a[j] = e /\ st.d[p] = c
    <3>1. a = [l \in 0 .. Size - 1 |-> DigitOf(x, l)]
      BY StoredIs
    <3>2. st.d[p] = c
      <4>1. Mix(z, D, p)[p] = c
        BY Zenon, <2>1, MixDigit
      <4> HIDE DEF c
      <4> QED
        BY <2>2, <4>1, Zenon
    <3> HIDE DEF a
    <3> QED
      BY <1>1, <2>1, <3>1, <3>2
  <2>8. out = [d |-> SqrPut(st.d, p, t), t |-> t]
    <3>1. i + j < Size /\ i + j = p
      BY <1>1, <1>4
    <3>2. st.d[i + j] + 2 * a[i] * a[j] + (st.t \div Base) = t
      BY <2>7, <3>1, Zenon
    <3> HIDE DEF t
    <3> QED
      BY <3>1, <3>2, Zenon DEF SqrStep
  <2>9. t \in Int /\ t % w = T % w /\ t \div w = (T \div w) - D1 - m * X1
    <3>1. SqrCarries(w, D1, X1, c, e, m, s)
      <4> HIDE DEF w, D1, X1, c, e, m, s
      <4>1. w \in Nat \ {0}
        BY <1>1 DEF w
      <4> QED
        BY Zenon, <2>3, <2>4, <2>5, <4>1, SqrCarry
    <3>2. s + (D1 * w + c) + m * (X1 * w + e) = T
      <4> DEFINE g == D1 * w + c
                 h == m * (X1 * w + e)
      <4>1. g \in Int /\ h \in Int
        <5> HIDE DEF w, D1, X1, c, e, m
        <5>1. w \in Int
          BY <1>1 DEF w
        <5> QED
          BY <2>3, <2>4, <2>5, <5>1, SMT
      <4>2. s = T - g - h
        BY <2>2, <2>3, <2>4, Zenon
      <4> HIDE DEF g, h, s, T
      <4>3. s + g + h = T
        BY <2>2, <2>5, <4>1, <4>2
      <4> QED
        BY <4>3, Zenon DEF g, h
    <3> HIDE DEF s, T
    <3> QED
      BY <3>1, <3>2, Zenon DEF SqrCarries
  <2>10. SqrPut(st.d, p, t) = Mix(z, D, p + 1)
    <3>1. SqrPut(st.d, p, t) = [Mix(z, D, p) EXCEPT ![p] = DigitOf(z, p)]
      <4> HIDE DEF t, T, w
      <4> QED
        BY <1>4, <2>2, <2>6, <2>9, Zenon DEF SqrPut, w
    <3> QED
      BY Zenon, <2>1, <3>1, MixDigit
  <2> HIDE DEF t
  <2>11. out.d = Mix(z, D, p + 1) /\ out.t = t
    <3> HIDE DEF out
    <3> QED
      BY <2>8, <2>10
  <2>12. out.t \div Base = Part(z, p + 1) - Part(D, p + 1) - m * Part(x, j + 1)
    BY <2>6, <2>9, <2>11, Zenon
  <2>13. p + 1 >= Size => out.d = W!Stored(z)
    <3>1. p + 1 >= Size => p + 1 = Size
      BY <1>1, <1>4
    <3>2. Mix(z, D, Size) = W!Stored(z)
      BY MixEnds
    <3> HIDE DEF out
    <3> QED
      BY <2>11, <3>1, <3>2
  <2> HIDE DEF out
  <2>14. out \in SqrStates(x, D, z, i, k)
    BY <1>1, <1>3, <2>11, <2>12, <2>13, Zenon DEF SqrStates
  <2> QED
    BY <2>14 DEF out, a, j
<1>5. CASE ~(p < Size)
  <2>1. p >= Size /\ ~(p + 1 <= Size) /\ ~(i + j < Size)
    BY <1>1, <1>5
  <2>2. out = [d |-> st.d, t |-> st.t]
    BY <2>1, Zenon DEF SqrStep, SqrPut
  <2>3. out.d = W!Stored(z)
    BY <1>2, <2>1, <2>2
  <2> HIDE DEF out
  <2>4. out \in SqrStates(x, D, z, i, k)
    BY <1>1, <1>3, <2>1, <2>3, Zenon DEF SqrStates
  <2> QED
    BY <2>4 DEF out, a, j
<1> QED
  BY <1>4, <1>5

LEMMA SqrStartOn ==
  ASSUME NEW x \in Int, NEW i \in 0 .. Size - 1, NEW st \in SqrState,
         st.d = W!Stored(SqrSum(x, i))
  PROVE  SqrStart(W!Stored(x), st, i)
           \in SqrStates(x, SqrSum(x, i), SqrSum(x, i + 1), i, 0)
<1> DEFINE a == W!Stored(x)
           p == 2 * i
           D == SqrSum(x, i)
           z == SqrSum(x, i + 1)
           y == SqrAdded(x, i)
           b == Base ^ i
           m == 2 * DigitOf(x, i)
           out == SqrStart(a, st, i)
<1>1. /\ i \in Nat /\ p \in Nat /\ 2 * i + 0 + 1 = p + 1 /\ i + 0 + 1 = i + 1
      /\ Base \in Nat \ {0} /\ Size \in Nat /\ i + i = p /\ i \in 0 .. Size + 1
  BY FewPowers
<1>2. D \in Int /\ z \in Int /\ y \in Int /\ z = D + (y * b) * b /\ b \in Nat \ {0}
  <2>1. D \in Int /\ z \in Int /\ y \in Int /\ z = D + (y * b) * b
    BY Zenon, SqrSums
  <2>2. b \in Nat \ {0}
    BY <1>1, Powers
  <2> QED
    BY <2>1, <2>2
<1>3. a \in Row /\ out \in SqrState
  <2>1. a \in Row
    BY StoredIs
  <2> QED
    BY <1>1, <2>1, SqrStartIn
<1>4. (y * b) * b = y * (b * b) /\ b * b \in Nat
  <2> HIDE DEF y, b
  <2> QED
    BY <1>2, SMT
<1> HIDE DEF p
<1>5. CASE p < Size
  <2> DEFINE c == DigitOf(D, p)
             D1 == Part(D, p + 1)
             X1 == Part(x, i + 1)
             T == Part(z, p)
             f == DigitOf(x, i)
             t == c + f * f
             w == Base
  <2>1. p \in 0 .. Size - 1 /\ p \in 0 .. Size /\ p \in 0 .. Size + 1 /\ i + 1 \in 0 .. Size
        /\ p + 1 \in 0 .. Size
    BY <1>1, <1>5
  <2>2. b * b = Base ^ p
    BY <1>1, <2>1, PowerSum
  <2>3. z = D + y * Base ^ p
    BY <1>2, <1>4, <2>2, Zenon
  <2>4. /\ T = Part(D, p) + y
        /\ \A l \in 0 .. Size - 1 : l < p => DigitOf(z, l) = DigitOf(D, l)
    <3> HIDE DEF D, y, z
    <3> DEFINE g == D + y * Base ^ p
    <3>1. /\ Part(g, p) = Part(D, p) + y
          /\ \A l \in 0 .. Size - 1 : l < p => DigitOf(g, l) = DigitOf(D, l)
      BY <1>2, <2>1, SameBelow
    <3>2. z = g
      BY <2>3
    <3> HIDE DEF g
    <3> QED
      BY <3>1, <3>2
  <2>5. W!Stored(D) = Mix(z, D, p)
    <3>1. W!Stored(D) = [l \in 0 .. Size - 1 |-> DigitOf(D, l)]
      BY <1>2, StoredIs
    <3> HIDE DEF D, z
    <3> QED
      BY <2>4, <3>1 DEF Mix
  <2>6. c \in Int /\ D1 \in Int /\ Part(D, p) = D1 * w + c
    <3> HIDE DEF D
    <3>1. c \in 0 .. Base - 1 /\ D1 \in Int /\ Part(D, p) = D1 * w + c
      BY <1>2, <2>1, PartSteps
    <3> QED
      BY <1>1, <3>1
  <2>7. f \in Int /\ X1 \in Int
    <3>1. f \in 0 .. Base - 1 /\ X1 \in Int
      BY Zenon, <2>1, PartSteps
    <3> QED
      BY <1>1, <3>1
  <2>8. a[i] = f /\ st.d[p] = c
    <3>1. a = [l \in 0 .. Size - 1 |-> DigitOf(x, l)]
      BY StoredIs
    <3>2. a[i] = f
      <4> HIDE DEF a
      <4> QED
        BY <3>1
    <3>3. W!Stored(D) = [l \in 0 .. Size - 1 |-> DigitOf(D, l)]
      BY <1>2, StoredIs
    <3>4. st.d[p] = c
      <4> HIDE DEF D
      <4>1. st.d = W!Stored(D)
        BY DEF D
      <4> QED
        BY <2>1, <3>3, <4>1
    <3> QED
      BY <3>2, <3>4
  <2>9. out = [d |-> SqrPut(st.d, p, t), t |-> t]
    <3>1. 2 * i < Size /\ 2 * i = p
      BY <1>5 DEF p
    <3>2. st.d[2 * i] + a[i] * a[i] = t
      BY <2>8, <3>1, Zenon
    <3> HIDE DEF t
    <3> QED
      BY <3>1, <3>2, Zenon DEF SqrStart
  <2>10. y = f * (f + 2 * (X1 * w))
    BY Zenon DEF SqrAdded
  <2>11. Part(z, p + 1) = T \div w /\ DigitOf(z, p) = T % w
    <3>1. Part(z, p + 1) = T \div w
      <4> HIDE DEF z
      <4> QED
        BY <1>2, <2>1, PartSteps
    <3> QED
      BY <3>1 DEF DigitOf
  <2>12. t \in Int /\ t % w = T % w /\ t \div w = (T \div w) - D1 - m * X1
    <3> DEFINE g == f * f
               h == D1 * w + c
               l == m * (X1 * w + 0)
    <3>1. m \in Int /\ g \in Int /\ 0 \in Int
      BY <2>7, SMT
    <3>2. SqrCarries(w, D1, X1, c, 0, m, g)
      <4> HIDE DEF w, D1, X1, c, m, g
      <4>1. w \in Nat \ {0}
        BY <1>1 DEF w
      <4> QED
        BY Zenon, <2>6, <2>7, <3>1, <4>1, SqrCarry
    <3>3. c + m * 0 + g = t
      <4>1. m * 0 = 0
        BY <3>1
      <4> HIDE DEF m, g, c
      <4> QED
        BY <2>6, <3>1, <4>1 DEF g
    <3>4. g + h + l = T
      <4>1. y = g + l /\ l \in Int /\ h \in Int
        <5> HIDE DEF y, w, D1, X1, c, f
        <5>1. w \in Int
          BY <1>1 DEF w
        <5>2. f * (f + 2 * (X1 * w)) = f * f + (2 * f) * (X1 * w + 0)
              /\ (2 * f) * (X1 * w + 0) \in Int /\ D1 * w + c \in Int
          BY <2>6, <2>7, <5>1, SMT
        <5> QED
          BY <2>10, <5>2 DEF f
      <4>2. T = h + y
        BY <2>4, <2>6, Zenon
      <4> HIDE DEF y, g, h, l, T
      <4> QED
        BY <1>2, <3>1, <4>1, <4>2
    <3> HIDE DEF g, t, T
    <3> QED
      BY <3>2, <3>3, <3>4, Zenon DEF SqrCarries, h, l
  <2>13. SqrPut(st.d, p, t) = Mix(z, D, p + 1)
    <3>1. SqrPut(st.d, p, t) = [Mix(z, D, p) EXCEPT ![p] = DigitOf(z, p)]
      <4>1. st.d = Mix(z, D, p)
        BY <2>5
      <4> HIDE DEF t, T, w, D, z
      <4> QED
        BY <1>5, <2>11, <2>12, <4>1, Zenon DEF SqrPut, w
    <3>2. [Mix(z, D, p) EXCEPT ![p] = DigitOf(z, p)] = Mix(z, D, p + 1)
      <4> HIDE DEF D, z
      <4> QED
        BY Zenon, <1>2, <2>1, MixDigit
    <3> HIDE DEF D, z, t
    <3> QED
      BY <3>1, <3>2, Zenon
  <2> HIDE DEF t
  <2>14. out.d = Mix(z, D, p + 1) /\ out.t = t
    <3> HIDE DEF out, D, z
    <3> QED
      BY <2>9, <2>13
  <2>15. out.t \div Base = Part(z, p + 1) - Part(D, p + 1) - m * Part(x, i + 1)
    BY <2>11, <2>12, <2>14, Zenon
  <2>16. p + 1 >= Size => out.d = W!Stored(z)
    <3>1. p + 1 >= Size => p + 1 = Size
      BY <1>1, <1>5
    <3> HIDE DEF out, D, z
    <3>2. Mix(z, D, Size) = W!Stored(z)
      BY <1>2, MixEnds
    <3> QED
      BY <2>14, <3>1, <3>2
  <2> HIDE DEF out, D, z
  <2>17. out \in SqrStates(x, D, z, i, 0)
    BY <1>1, <1>3, <2>14, <2>15, <2>16, Zenon DEF SqrStates
  <2> QED
    BY <2>17 DEF out, a, D, z
<1>6. CASE ~(p < Size)
  <2> DEFINE c == Base ^ (Size - i)
             e == Base ^ (p - Size)
             v == y * e
  <2>1. p >= Size /\ ~(p + 1 <= Size) /\ p + 1 >= Size /\ ~(2 * i < Size)
    BY <1>1, <1>6 DEF p
  <2>2. /\ Size - i \in 0 .. Size + 1 /\ p - Size \in 0 .. Size + 1 /\ Size \in 0 .. Size + 1
        /\ i + (Size - i) = Size /\ (Size - i) + (p - Size) = i
    BY <1>1, <2>1
  <2>3. Full = b * c /\ b = c * e /\ c \in Nat \ {0} /\ e \in Nat \ {0}
    <3>1. Base ^ Size = b * c
      BY <1>1, <2>2, PowerSum
    <3>2. b = c * e
      BY <1>1, <2>2, PowerSum
    <3>3. c \in Nat \ {0} /\ e \in Nat \ {0}
      BY <2>2, Powers
    <3> QED
      BY <3>1, <3>2, <3>3 DEF Full
  <2> HIDE DEF b, c, e, y, D, z
  <2>4. (y * b) * (c * e) = (y * e) * (b * c) /\ v \in Int
    BY <1>2, <2>3, SMT
  <2>5. z = D + v * Full
    <3>1. (y * b) * b = v * Full
      BY <2>3, <2>4, Zenon
    <3> HIDE DEF v
    <3> QED
      BY <1>2, <3>1, Zenon
  <2>6. W!Stored(z) = W!Stored(D)
    <3> HIDE DEF v
    <3> QED
      BY ZenonT(60), <1>2, <2>4, <2>5, StoredShift
  <2>7. out = [d |-> st.d, t |-> st.t]
    BY <2>1, Zenon DEF SqrStart, SqrPut
  <2>8. out.d = W!Stored(z)
    <3>1. st.d = W!Stored(D)
      BY DEF D
    <3> HIDE DEF out
    <3> QED
      BY <2>6, <2>7, <3>1
  <2> HIDE DEF out
  <2>9. out \in SqrStates(x, D, z, i, 0)
    BY <1>1, <1>3, <2>1, <2>8, Zenon DEF SqrStates
  <2> QED
    BY <2>9 DEF out, a, D, z
<1> QED
  BY <1>5, <1>6

(* A row of a digit of x adds what the digit and those above it make.      *)
LEMMA SqrRowOn ==
  ASSUME NEW x \in Nat, NEW n \in 0 .. Size, Part(x, n) = 0, NEW i \in 0 .. n - 1,
         NEW st \in SqrState, st.d = W!Stored(SqrSum(x, i))
  PROVE  SqrRow(W!Stored(x), n, st, i).d = W!Stored(SqrSum(x, i + 1))
<1> DEFINE a == W!Stored(x)
           D == SqrSum(x, i)
           z == SqrSum(x, i + 1)
           start == SqrStart(a, st, i)
           h == [k \in 0 .. n - i |-> SqrStates(x, D, z, i, k)]
           q == i + n + 1
           m == 2 * DigitOf(x, i)
           out == SqrLoop(a, n, start, i)
<1>1. /\ i \in Nat /\ i \in 0 .. Size - 1 /\ i \in 0 .. n /\ n - i \in Nat /\ n \in Nat /\ x \in Int
      /\ 2 * i + (n - i) + 1 = q /\ i + (n - i) + 1 = n + 1 /\ q \in Nat /\ i + 1 \in 0 .. n
      /\ (i + 1) + n + 1 = q + 1 /\ n + 1 <= q /\ Size \in Nat /\ Base \in Nat \ {0}
  BY FewPowers
<1>2. D \in Int /\ z \in Int /\ a \in Row
  BY Zenon, <1>1, SqrSums, StoredIs
<1>3. start \in SqrStates(x, D, z, i, 0)
  <2>1. SqrStart(W!Stored(x), st, i) \in SqrStates(x, SqrSum(x, i), SqrSum(x, i + 1), i, 0)
    BY <1>1, SqrStartOn
  <2> QED
    BY <2>1
<1>4. start \in SqrState
  BY <1>3 DEF SqrStates
<1> HIDE DEF start, D, z
<1>5. ASSUME NEW k \in 1 .. n - i, NEW in \in SqrStates(x, D, z, i, k - 1)
      PROVE  SqrStep(a, i, in, i + k) \in SqrStates(x, D, z, i, k)
  BY Zenon, <1>1, <1>2, SqrStepOn
<1>6. SqrSteps(a, n, start, i, h) /\ h[n - i] = SqrStates(x, D, z, i, n - i)
  <2>1. /\ h[0] = SqrStates(x, D, z, i, 0) /\ h[n - i] = SqrStates(x, D, z, i, n - i)
        /\ \A k \in 1 .. n - i : /\ h[k - 1] = SqrStates(x, D, z, i, k - 1)
                                /\ h[k] = SqrStates(x, D, z, i, k)
    BY <1>1
  <2> HIDE DEF h, a
  <2> QED
    BY <1>3, <1>5, <2>1 DEF SqrSteps
<1>7. out \in SqrStates(x, D, z, i, n - i)
  <2> HIDE DEF h, a
  <2>1. \E in \in h[n - i] : SqrLoop(a, n, start, i) = in
    BY <1>1, <1>2, <1>4, <1>6, SqrLoopFold
  <2> QED
    BY <1>6, <2>1
<1> HIDE DEF out
<1>8. /\ q <= Size => /\ out.d = Mix(z, D, q)
                      /\ out.t \div Base = Part(z, q) - Part(D, q) - m * Part(x, n + 1)
      /\ q >= Size => out.d = W!Stored(z)
  BY <1>1, <1>7, Zenon DEF SqrStates
<1>9. SqrRow(a, n, st, i).d = SqrPut(out.d, q, out.t \div Base)
  <2>1. SqrRow(a, n, st, i) = [d |-> SqrPut(out.d, q, out.t \div Base), t |-> out.t]
    BY Zenon DEF SqrRow, out, start
  <2> HIDE DEF a
  <2> QED
    BY <2>1
<1> HIDE DEF q
<1>10. CASE q < Size
  <2>1. /\ q \in 0 .. Size - 1 /\ q \in 0 .. Size /\ q + 1 \in 0 .. Size /\ q <= Size
        /\ n + 1 \in 0 .. Size /\ i + n + 1 <= Size /\ (i + 1) + n + 1 <= Size
        /\ i + n + 1 = q
    BY <1>1, <1>10 DEF q
  <2>2. x < Base ^ n /\ D \in Nat /\ D < Base ^ q
    <3>1. x < Base ^ n /\ SqrSum(x, i) \in Nat /\ SqrSum(x, i) < Base ^ (i + n + 1)
      BY <1>1, <2>1, SqrBound
    <3> QED
      BY <2>1, <3>1 DEF D
  <2>3. z \in Nat /\ z < Base ^ (q + 1)
    <3>1. SqrSum(x, i + 1) \in Nat /\ SqrSum(x, i + 1) < Base ^ ((i + 1) + n + 1)
      BY <1>1, <2>1, SqrBound
    <3> QED
      BY <1>1, <2>1, <3>1 DEF z
  <2>4. Part(x, n + 1) = 0 /\ Part(D, q) = 0
    <3>1. n <= n + 1 /\ q <= q
      BY <1>1, <2>1
    <3>2. Part(x, n + 1) = 0
      BY <2>1, <2>2, <3>1, NothingFrom
    <3> QED
      BY <2>1, <2>2, <3>1, <3>2, NothingFrom
  <2>5. out.t \div Base = Part(z, q)
    <3> DEFINE T == Part(z, q)
               f == DigitOf(x, i)
    <3>1. T \in Int
      BY <1>2, <2>1, PartSteps
    <3>2. f \in 0 .. Base - 1
      BY Zenon, <1>1, PartSteps
    <3>3. m \in Int
      BY <1>1, <3>2
    <3>4. out.t \div Base = T - 0 - m * 0
      BY <1>8, <2>1, <2>4, Zenon
    <3> HIDE DEF T, m
    <3> QED
      BY <3>1, <3>3, <3>4 DEF T
  <2>6. SqrPut(out.d, q, out.t \div Base) = Mix(z, D, q + 1)
    <3>1. SqrPut(out.d, q, out.t \div Base) = [Mix(z, D, q) EXCEPT ![q] = DigitOf(z, q)]
      BY <1>8, <1>10, <2>1, <2>5, Zenon DEF SqrPut, DigitOf
    <3>2. [Mix(z, D, q) EXCEPT ![q] = DigitOf(z, q)] = Mix(z, D, q + 1)
      BY <1>2, <2>1, MixDigit
    <3> QED
      BY <3>1, <3>2, Zenon
  <2>7. ASSUME NEW p \in 0 .. Size - 1, ~(p < q + 1) PROVE DigitOf(D, p) = DigitOf(z, p)
    <3>1. p \in 0 .. Size /\ q + 1 <= p /\ q <= p
      <4>1. q \in Nat /\ Size \in Nat
        BY <1>1
      <4>2. p \in Int /\ 0 <= p /\ p <= Size - 1
        BY <4>1
      <4> QED
        BY <2>7, <4>1, <4>2
    <3>2. Part(D, p) = 0
      BY <2>1, <2>2, <3>1, NothingFrom
    <3>3. Part(z, p) = 0
      BY <2>1, <2>3, <3>1, NothingFrom
    <3> QED
      BY <3>2, <3>3 DEF DigitOf
  <2>8. Mix(z, D, q + 1) = W!Stored(z)
    <3>1. W!Stored(z) = [p \in 0 .. Size - 1 |-> DigitOf(z, p)]
      BY <1>2, StoredIs
    <3> QED
      BY <2>7, <3>1 DEF Mix
  <2> QED
    BY <1>9, <2>6, <2>8, Zenon DEF z, a
<1>11. CASE ~(q < Size)
  <2>1. q >= Size
    BY <1>1, <1>11 DEF q
  <2>2. SqrPut(out.d, q, out.t \div Base) = out.d
    BY <1>11, Zenon DEF SqrPut
  <2> QED
    BY <1>8, <1>9, <2>1, <2>2, Zenon DEF z, a
<1> QED
  BY <1>10, <1>11

(* The row above the highest digit changes nothing.                        *)
LEMMA SqrPutNothing ==
  ASSUME NEW y \in Int, NEW p \in Nat, NEW v, v % Base = 0,
         p < Size => DigitOf(y, p) = 0
  PROVE  SqrPut(W!Stored(y), p, v) = W!Stored(y)
<1>1. CASE p < Size
  <2>1. W!Stored(y) = [i \in 0 .. Size - 1 |-> DigitOf(y, i)]
    BY StoredIs
  <2>2. p \in 0 .. Size - 1
    BY <1>1, FewPowers
  <2>3. W!Stored(y)[p] = 0
    BY <1>1, <2>1, <2>2
  <2>4. SqrPut(W!Stored(y), p, v) = [W!Stored(y) EXCEPT ![p] = 0]
    BY <1>1, Zenon DEF SqrPut
  <2> DEFINE d == W!Stored(y)
  <2>5. d = [i \in DOMAIN d |-> d[i]]
    BY <2>1
  <2> HIDE DEF d
  <2>6. [d EXCEPT ![p] = 0] = d
    BY <2>3, <2>5 DEF d
  <2> QED
    BY <2>4, <2>6 DEF d
<1>2. CASE ~(p < Size)
  BY <1>2, Zenon DEF SqrPut
<1> QED
  BY <1>1, <1>2

LEMMA SqrLastRow ==
  ASSUME NEW x \in Nat, NEW n \in 0 .. Size, Part(x, n) = 0,
         NEW st \in SqrState, st.d = W!Stored(x * x)
  PROVE  SqrRow(W!Stored(x), n, st, n).d = W!Stored(x * x)
<1> DEFINE a == W!Stored(x)
           y == x * x
           t == IF 2 * n < Size THEN st.d[2 * n] + a[n] * a[n] ELSE st.t
           start == SqrStart(a, st, n)
           out == SqrLoop(a, n, start, n)
<1>1. /\ n \in Nat /\ x \in Int /\ Size \in Nat /\ Base \in Nat \ {0} /\ 2 * n \in Nat
      /\ n + n + 1 = 2 * n + 1 /\ 2 * n + 1 \in Nat /\ n + n = 2 * n /\ n - n = 0
      /\ n \in 0 .. Size + 1 /\ n \in 0 .. n /\ y \in Nat /\ y \in Int
  <2>1. y \in Nat
    BY Times
  <2> HIDE DEF y
  <2> QED
    BY <2>1, FewPowers
<1>2. a \in Row
  BY <1>1, StoredIs
<1>3. ASSUME NEW p \in 0 .. Size - 1, 2 * n <= p PROVE DigitOf(y, p) = 0
  <2> DEFINE b == Base ^ n
  <2>1. 2 * n \in 0 .. Size /\ 2 * n \in 0 .. Size + 1 /\ p \in 0 .. Size
    BY <1>1, <1>3
  <2>2. Base ^ (2 * n) = b * b /\ b \in Nat \ {0}
    BY <1>1, <2>1, PowerSum
  <2>3. x < b
    <3> HIDE DEF b
    <3>1. x \div b = 0
      BY DEF Part, b
    <3>2. x < (x \div b) * b + b
      BY <2>2, Div
    <3>3. 0 * b + b = b
      BY <2>2
    <3> QED
      BY <3>1, <3>2, <3>3, Zenon
  <2>4. y < b * b
    <3> HIDE DEF b
    <3>1. x * x <= b * x /\ x * b + b <= b * b /\ b * x = x * b
      BY <2>2, <2>3, Times
    <3> DEFINE e == x * b
               f == b * b
    <3>2. e \in Int /\ f \in Int
      BY <2>2, SMT
    <3> HIDE DEF e, f, y
    <3>3. y <= e /\ e + b <= f
      BY <3>1 DEF y, e, f
    <3>4. y < f
      BY <1>1, <2>2, <3>2, <3>3
    <3> QED
      BY <3>4 DEF f
  <2> HIDE DEF y, b
  <2>5. Part(y, p) = 0
    <3>1. y < Base ^ (2 * n)
      BY <2>2, <2>4
    <3> QED
      BY <1>1, <1>3, <2>1, <3>1, NothingFrom
  <2>6. 0 % Base = 0
    BY <1>1, Mod
  <2> QED
    BY <2>5, <2>6 DEF DigitOf
<1> HIDE DEF y
<1>4. 2 * n < Size => t = 0
  <2> SUFFICES ASSUME 2 * n < Size PROVE t = 0
    OBVIOUS
  <2>1. 2 * n \in 0 .. Size - 1 /\ n \in 0 .. Size - 1 /\ 2 * n <= 2 * n
    BY <1>1
  <2>2. W!Stored(y) = [i \in 0 .. Size - 1 |-> DigitOf(y, i)]
    BY Zenon, <1>1, StoredIs
  <2>3. st.d[2 * n] = 0
    <3>1. DigitOf(y, 2 * n) = 0
      BY <1>3, <2>1
    <3>2. st.d = W!Stored(y)
      BY DEF y
    <3> QED
      BY Zenon, <2>1, <2>2, <3>1, <3>2
  <2>4. a[n] = 0
    <3>1. a = [i \in 0 .. Size - 1 |-> DigitOf(x, i)]
      BY <1>1, StoredIs
    <3>2. 0 % Base = 0
      BY <1>1, Mod
    <3>3. DigitOf(x, n) = 0
      BY <3>2 DEF DigitOf
    <3> HIDE DEF a
    <3> QED
      BY <2>1, <3>1, <3>3
  <2>5. t = 0 + 0 * 0
    BY <2>3, <2>4, Zenon
  <2> HIDE DEF t
  <2> QED
    BY <2>5
<1>5. start.d = W!Stored(y) /\ start.t = t /\ start \in SqrState
  <2>1. start = [d |-> SqrPut(st.d, 2 * n, t), t |-> t]
    BY Zenon DEF SqrStart
  <2>2. start \in SqrState
    BY <1>1, <1>2, SqrStartIn
  <2>3. st.d = W!Stored(y)
    BY DEF y
  <2> HIDE DEF t, start, a
  <2>4. SqrPut(W!Stored(y), 2 * n, t) = W!Stored(y)
    <3>1. CASE 2 * n < Size
      <4>1. t % Base = 0
        <5>1. 0 % Base = 0
          BY <1>1, Mod
        <5> QED
          BY <1>4, <3>1, <5>1
      <4>2. DigitOf(y, 2 * n) = 0
        <5>1. 2 * n \in 0 .. Size - 1 /\ 2 * n <= 2 * n
          BY <1>1, <3>1
        <5> QED
          BY <1>3, <5>1
      <4> QED
        BY <1>1, <4>1, <4>2, SqrPutNothing
    <3>2. CASE ~(2 * n < Size)
      BY <3>2, Zenon DEF SqrPut
    <3> QED
      BY <3>1, <3>2
  <2> QED
    BY <2>1, <2>2, <2>3, <2>4
<1>6. out = start
  <2> DEFINE h == [k \in 0 .. n - n |-> {start}]
  <2>1. h[n - n] = {start} /\ SqrSteps(a, n, start, n, h)
    <3>1. h[0] = {start} /\ h[n - n] = {start} /\ 1 .. n - n = {}
      BY <1>1
    <3> HIDE DEF h, start, a
    <3> QED
      BY <3>1, Zenon DEF SqrSteps
  <2> HIDE DEF h, start, a
  <2>2. \E in \in h[n - n] : SqrLoop(a, n, start, n) = in
    BY <1>1, <1>2, <1>5, <2>1, SqrLoopFold
  <2> QED
    BY <2>1, <2>2
<1> HIDE DEF start, t
<1>7. SqrRow(a, n, st, n).d = SqrPut(start.d, n + n + 1, start.t \div Base)
  <2>1. SqrRow(a, n, st, n) = [d |-> SqrPut(start.d, n + n + 1, start.t \div Base), t |-> start.t]
    BY <1>6, Zenon DEF SqrRow, out, start
  <2> HIDE DEF a
  <2> QED
    BY <2>1
<1>8. SqrPut(W!Stored(y), 2 * n + 1, t \div Base) = W!Stored(y)
  <2>1. CASE 2 * n + 1 < Size
    <3>1. 2 * n < Size /\ 2 * n + 1 \in 0 .. Size - 1 /\ 2 * n <= 2 * n + 1
      BY <1>1, <2>1
    <3>2. (0 \div Base) % Base = 0
      <4>1. 0 * Base + 0 = 0 /\ 0 \in Int /\ 0 \in 0 .. Base - 1
        BY <1>1
      <4>2. 0 \div Base = 0 /\ 0 % Base = 0
        BY <1>1, <4>1, Floor
      <4> QED
        BY <4>2, Zenon
    <3>3. (t \div Base) % Base = 0
      BY <1>4, <3>1, <3>2, Zenon
    <3>4. DigitOf(y, 2 * n + 1) = 0
      BY <1>3, <3>1
    <3> DEFINE v == t \div Base
               p == 2 * n + 1
    <3>5. p \in Nat /\ v % Base = 0 /\ DigitOf(y, p) = 0
      BY <1>1, <3>3, <3>4
    <3> HIDE DEF v, p
    <3>6. SqrPut(W!Stored(y), p, v) = W!Stored(y)
      BY <1>1, <3>5, SqrPutNothing
    <3> QED
      BY <3>6 DEF v, p
  <2>2. CASE ~(2 * n + 1 < Size)
    BY <2>2, Zenon DEF SqrPut
  <2> QED
    BY <2>1, <2>2
<1> QED
  BY <1>1, <1>5, <1>7, <1>8, Zenon DEF y, a

(* bch_sqr.                                                                *)
SqrRowStates(y) == {st \in SqrState : st.d = W!Stored(y)}

LEMMA SqrRight ==
  ASSUME NEW x \in Nat, x < Full
  PROVE  W!Sqr(W!Stored(x)) = W!Stored(x * x)
<1> DEFINE a == W!Stored(x)
           n == W!Hexp(a) + 1
           F(k) == IF k <= n THEN SqrSum(x, k) ELSE x * x
           h == [k \in 0 .. n + 1 |-> SqrRowStates(F(k))]
<1>1. n \in 0 .. Size /\ Part(x, n) = 0
  BY HexpRight
<1>2. W!Sqr(a) = SqrOf(a, n)
  BY SqrIs
<1> HIDE DEF n
<1>3. n \in Nat /\ x \in Int /\ Size \in Nat /\ a \in Row /\ ~(n + 1 <= n)
  BY <1>1, FewPowers, StoredIs
<1>4. SqrSum(x, 0) = 0 /\ SqrSum(x, n) = x * x
  <2>1. Rest(x, 0) = x
    <3>1. Part(x, 0) = x /\ Base ^ 0 = 1
      BY <1>3, PartSteps, FewPowers
    <3>2. x * 1 = x
      BY <1>3
    <3> QED
      BY <3>1, <3>2, Zenon DEF Rest
  <2>2. Rest(x, n) = 0
    <3>1. n \in 0 .. Size + 1
      BY <1>1, <1>3
    <3>2. Base ^ n \in Nat
      BY <3>1, Powers
    <3> DEFINE b == Base ^ n
    <3> HIDE DEF b
    <3>3. 0 * b = 0
      BY <3>2 DEF b
    <3> QED
      BY <1>1, <3>3, Zenon DEF Rest, b
  <2>3. x * x \in Nat
    BY Times
  <2> DEFINE y == x * x
  <2>4. SqrSum(x, 0) = y - y
    BY <2>1, Zenon DEF SqrSum
  <2>5. SqrSum(x, n) = y - 0 * 0
    BY <2>2, Zenon DEF SqrSum
  <2> HIDE DEF y
  <2>6. y \in Nat
    BY <2>3 DEF y
  <2>7. y - y = 0 /\ y - 0 * 0 = y
    BY <2>6
  <2> QED
    BY <2>4, <2>5, <2>7 DEF y
<1>5. [d |-> W!Zero, t |-> 0] \in SqrRowStates(F(0))
  <2>1. W!Zero = W!Stored(0) /\ W!Zero \in Row
    BY ZeroStored, StoredIs
  <2>2. F(0) = 0
    <3>1. 0 <= n
      BY <1>3
    <3> QED
      BY <1>4, <3>1, Zenon
  <2> HIDE DEF F
  <2>3. [d |-> W!Zero, t |-> 0] \in SqrState
    BY <2>1 DEF SqrState
  <2> QED
    BY <2>1, <2>2, <2>3 DEF SqrRowStates
<1>6. ASSUME NEW k \in 1 .. n + 1, NEW st \in SqrRowStates(F(k - 1))
      PROVE  SqrRow(a, n, st, k - 1) \in SqrRowStates(F(k))
  <2> DEFINE i == k - 1
             out == SqrRow(a, n, st, i)
  <2>1. i \in 0 .. n /\ i \in Nat /\ i <= n /\ i + 1 = k
    BY <1>3
  <2>2. st \in SqrState /\ st.d = W!Stored(SqrSum(x, i))
    <3>1. F(i) = SqrSum(x, i)
      BY <2>1
    <3> HIDE DEF F, i
    <3>2. st \in SqrRowStates(SqrSum(x, i))
      BY <1>6, <3>1 DEF i
    <3> QED
      BY <3>2 DEF SqrRowStates
  <2> HIDE DEF i
  <2>3. out \in SqrState
    <3> HIDE DEF a
    <3> QED
      BY <1>1, <1>3, <2>1, <2>2, SqrRowIn
  <2>4. CASE i < n
    <3>1. i \in 0 .. n - 1 /\ k <= n
      BY <1>3, <2>1, <2>4
    <3>2. SqrRow(W!Stored(x), n, st, i).d = W!Stored(SqrSum(x, i + 1))
      BY <1>1, <2>2, <3>1, SqrRowOn
    <3>3. F(k) = SqrSum(x, i + 1)
      BY <2>1, <3>1
    <3> HIDE DEF F, out
    <3>4. out.d = W!Stored(F(k))
      BY <3>2, <3>3, Zenon DEF out
    <3> QED
      BY <2>3, <3>4 DEF SqrRowStates, i, out
  <2>5. CASE i = n
    <3>1. ~(k <= n)
      BY <1>3, <2>1, <2>5
    <3>2. st.d = W!Stored(x * x)
      BY <1>4, <2>2, <2>5, Zenon
    <3>3. SqrRow(W!Stored(x), n, st, n).d = W!Stored(x * x)
      BY <1>1, <2>2, <3>2, SqrLastRow
    <3>4. F(k) = x * x
      BY <3>1
    <3> HIDE DEF F, out
    <3>5. out.d = W!Stored(F(k))
      BY <2>5, <3>3, <3>4, Zenon DEF out
    <3> QED
      BY <2>3, <3>5 DEF SqrRowStates, i, out
  <2> HIDE DEF out, F
  <2> QED
    BY <1>3, <2>1, <2>4, <2>5
<1>7. SqrRows(a, n, h) /\ h[n + 1] = SqrRowStates(x * x)
  <2>1. /\ h[0] = SqrRowStates(F(0)) /\ h[n + 1] = SqrRowStates(F(n + 1))
        /\ \A k \in 1 .. n + 1 : /\ h[k - 1] = SqrRowStates(F(k - 1))
                                /\ h[k] = SqrRowStates(F(k))
    <3> HIDE DEF F
    <3> QED
      BY <1>3
  <2>2. F(n + 1) = x * x
    BY <1>3
  <2> HIDE DEF h, F, a
  <2> QED
    BY <1>5, <1>6, <2>1, <2>2 DEF SqrRows
<1> HIDE DEF h, a
<1>8. PICK st \in h[n + 1] : SqrOf(a, n) = st.d
  BY <1>1, <1>3, <1>7, SqrFold
<1> QED
  BY <1>2, <1>7, <1>8 DEF SqrRowStates, a

-----------------------------------------------------------------------------
(* The steps in words.                                                     *)

(* What the loops over words need to know of the gcd beside that: its      *)
(* numbers only fall, and the coefficients that grow stay within the size. *)
Reach(g, x) ==
  /\ g.u <= x /\ g.v <= Q
  /\ Abs(g.A) <= 2 * ((x * Q) * Q) + 1
  /\ Fits((x * Q) * x + x)

Within == pc = "gcd" => Reach(gcd, X)

LEMMA NonceFits ==
  ASSUME NEW x \in 0 .. Q
  PROVE  Fits((x * Q) * x + x)
<1>1. x \in Nat /\ x <= Q /\ Q \in Nat \ {0} /\ Q * Q \in Nat /\ Fits((Q * Q) * Q + Q)
  BY Keys
<1>2. x * Q <= Q * Q /\ x * Q \in Nat
  BY <1>1, Times
<1>3. x * (x * Q) <= Q * (x * Q) /\ (x * Q) * x = x * (x * Q) /\ (x * Q) * Q = Q * (x * Q)
      /\ (x * Q) * x \in Nat /\ (x * Q) * Q \in Nat
  BY <1>1, <1>2, Times
<1>4. (x * Q) * Q <= (Q * Q) * Q /\ (Q * Q) * Q \in Nat
  BY <1>1, <1>2, Times
<1> DEFINE a == (x * Q) * x
           b == (Q * Q) * Q
<1>5. a <= b /\ a \in Nat /\ b \in Nat
  BY <1>3, <1>4
<1> HIDE DEF a, b
<1>6. a + x \in Int /\ b + Q \in Int /\ Abs(a + x) <= Abs(b + Q)
  BY <1>1, <1>5 DEF Abs
<1> QED
  BY <1>1, <1>6, Smaller DEF a, b

LEMMA ReachBegins ==
  ASSUME NEW x \in Nat, Fits((x * Q) * x + x)
  PROVE  Reach(GcdOf(x), x)
<1>1. /\ Q \in Nat /\ GcdOf(x).u = x /\ GcdOf(x).v = Q /\ GcdOf(x).A = 1
      /\ Abs(1) = 1
  BY Keys DEF GcdOf, Abs
<1>2. x * Q \in Nat /\ (x * Q) * Q \in Nat
  BY <1>1, Times
<1> QED
  BY <1>1, <1>2 DEF Reach

(* A number of the gcd that is not 0 leaves a coefficient this much room.  *)
LEMMA EvenBound ==
  ASSUME NEW n \in Nat \ {0}, NEW o \in Nat \ {0}, NEW a \in Int, NEW x \in Nat,
         NEW K \in Nat \ {0}, (n * o) * K <= x * Q, Abs(a) <= 2 * (K * Q)
  PROVE  Abs(a) <= 2 * ((x * Q) * Q)
<1> DEFINE T == x * Q
<1>1. Q \in Nat /\ T \in Nat
  BY Keys, Times
<1> HIDE DEF T
<1>2. n * o \in Nat /\ n * o > 0
  BY SMT
<1>3. K <= K * (n * o) /\ K * (n * o) = (n * o) * K /\ (n * o) * K \in Nat
  BY <1>2, Times
<1>4. K <= T
  BY <1>1, <1>3 DEF T
<1>5. K * Q <= T * Q /\ K * Q \in Nat /\ T * Q \in Nat /\ Abs(a) \in Nat
  BY <1>1, <1>4, Times DEF Abs
<1> QED
  BY <1>5 DEF T

LEMMA HalveReaches ==
  ASSUME Good, Good', Reach(gcd, X), HalveU \/ HalveV
  PROVE  Reach(gcd', X')
<1>1. /\ pc = "gcd" /\ pc' = "gcd" /\ gcd.u # 0
      /\ UNCHANGED <<div, phase, args, reg, call, loop>>
  BY DEF HalveU, HalveV
<1>2. X' = X /\ X \in Nat /\ Q \in Nat
  BY <1>1, InvertedFits, Keys DEF Good, Types, X
<1>3. /\ gcd \in [u : Nat, v : Nat \ {0}, A : Int, B : Int, C : Int, D : Int]
      /\ gcd' \in [u : Nat, v : Nat \ {0}, A : Int, B : Int, C : Int, D : Int]
  BY <1>1 DEF Good, Coefficients
<1>4. /\ gcd'.u \in Nat \ {0} /\ gcd'.u <= gcd.u
      /\ gcd'.v \in Nat \ {0} /\ gcd'.v <= gcd.v
  <2>1. CASE HalveU
    <3> DEFINE ab == Halve(gcd.A, gcd.B)
    <3>1. ~Odd(gcd.u) /\ gcd' = [gcd EXCEPT !.u = Halved(gcd.u), !.A = ab[1], !.B = ab[2]]
      BY <2>1 DEF HalveU
    <3> HIDE DEF ab
    <3>2. gcd'.u = Halved(gcd.u) /\ gcd'.v = gcd.v
      BY <1>3, <3>1, Zenon
    <3> QED
      BY <1>1, <1>3, <3>1, <3>2 DEF Halved, Odd
  <2>2. CASE HalveV
    <3> DEFINE cd == Halve(gcd.C, gcd.D)
    <3>1. gcd' = [gcd EXCEPT !.v = Halved(gcd.v), !.C = cd[1], !.D = cd[2]]
      BY <2>2 DEF HalveV
    <3> HIDE DEF cd
    <3>2. gcd'.u = gcd.u /\ gcd'.v = Halved(gcd.v)
      BY <1>3, <3>1, Zenon
    <3> QED
      BY <1>1, <1>3, <3>2 DEF Halved
  <2> QED
    BY <2>1, <2>2
<1>5. PICK K \in Nat \ {0} :
        (gcd'.u * gcd'.v) * K <= X * Q /\ Abs(gcd'.A) <= 2 * (K * Q)
  BY <1>1, <1>2 DEF Good, Growth, Bounded, Kept
<1>6. gcd'.A \in Int
  BY <1>3
<1>7. Abs(gcd'.A) <= 2 * ((X * Q) * Q)
  BY <1>2, <1>4, <1>5, <1>6, EvenBound
<1>8. (X * Q) * Q \in Nat /\ Abs(gcd'.A) \in Int
  BY <1>1, <1>6, InvertedFits DEF Good, Types, Abs
<1> QED
  BY <1>2, <1>3, <1>4, <1>7, <1>8 DEF Reach

LEMMA SubtractReaches ==
  ASSUME Good, Good', Reach(gcd, X), Subtract
  PROVE  Reach(gcd', X')
<1>1. /\ pc = "gcd" /\ Odd(gcd.u) /\ Odd(gcd.v)
      /\ UNCHANGED <<div, phase, args, reg, call, loop>>
      /\ gcd' = IF TakesV
                THEN [gcd EXCEPT !.u = gcd.u - gcd.v, !.A = gcd.A - gcd.C, !.B = gcd.B - gcd.D]
                ELSE [gcd EXCEPT !.v = gcd.v - gcd.u, !.C = gcd.C - gcd.A, !.D = gcd.D - gcd.B]
  BY DEF Subtract
<1>2. X' = X /\ X \in Nat /\ Q \in Nat /\ (X * Q) * Q \in Nat
  BY <1>1, InvertedFits, Keys DEF Good, Types, X
<1>3. gcd \in [u : Nat, v : Nat \ {0}, A : Int, B : Int, C : Int, D : Int]
  BY <1>1 DEF Good, Coefficients
<1>4. gcd.u \in Nat \ {0} /\ gcd.v \in Nat \ {0} /\ gcd.A \in Int /\ gcd.C \in Int
  BY <1>1, <1>3 DEF Odd
<1>5. PICK K \in Nat \ {0} : Bounded(K)
  BY <1>1 DEF Good, Growth
<1>6. Abs(gcd.A) <= (X * Q) * Q /\ Abs(gcd.C) <= (X * Q) * Q
  BY <1>1, <1>2, <1>4, <1>5, LastBound DEF Bounded
<1> DEFINE T == (X * Q) * Q
<1>7. Abs(gcd.A) <= 2 * T + 1 /\ Abs(gcd.A - gcd.C) <= 2 * T + 1
  <2>1. T \in Nat /\ Abs(gcd.A) <= T /\ Abs(gcd.C) <= T
    BY <1>2, <1>6
  <2> HIDE DEF T
  <2> QED
    BY <1>4, <2>1 DEF Abs
<1>8. gcd.u <= X /\ gcd.v <= Q /\ Fits((X * Q) * X + X)
  BY DEF Reach
<1> HIDE DEF T
<1>9. CASE TakesV
  <2>1. gcd'.u = gcd.u - gcd.v /\ gcd'.v = gcd.v /\ gcd'.A = gcd.A - gcd.C
    BY <1>1, <1>3, <1>9
  <2>2. gcd'.u <= X /\ gcd'.v <= Q /\ Abs(gcd'.A) <= 2 * T + 1
    BY <1>2, <1>4, <1>7, <1>8, <2>1
  <2> QED
    BY Zenon, <1>2, <1>8, <2>2 DEF Reach, T
<1>10. CASE ~TakesV
  <2>1. gcd'.u = gcd.u /\ gcd'.v = gcd.v - gcd.u /\ gcd'.A = gcd.A
    BY <1>1, <1>3, <1>10
  <2>2. gcd'.u <= X /\ gcd'.v <= Q /\ Abs(gcd'.A) <= 2 * T + 1
    BY <1>2, <1>4, <1>7, <1>8, <2>1
  <2> QED
    BY Zenon, <1>2, <1>8, <2>2 DEF Reach, T
<1> QED
  BY <1>9, <1>10

LEMMA WithinKeeps ==
  ASSUME Good, Good', Within, [Next]_vars
  PROVE  Within'
<1> SUFFICES ASSUME pc' = "gcd" PROVE Reach(gcd', X')
  BY Zenon DEF Within
<1>1. CASE Random
  <2>1. PICK k \in Nonces : reg' = [reg EXCEPT !.k = k] /\ gcd' = GcdOf(k)
    BY <1>1 DEF Random
  <2>2. phase' = "sign" /\ reg \in [Regs -> Int] /\ reg'.k \in 0 .. Q - 1
    BY <1>1 DEF Random, Good, Types, Registers
  <2>3. reg'.k = k
    BY Zenon, <2>1, <2>2 DEF Regs
  <2>4. X' = k /\ k \in 0 .. Q - 1
    BY <2>2, <2>3 DEF X
  <2>5. k \in 0 .. Q /\ k \in Nat
    BY <2>4, Keys
  <2> QED
    BY <2>1, <2>4, <2>5, NonceFits, ReachBegins
<1>2. CASE HalveU \/ HalveV
  <2>1. Reach(gcd, X)
    BY <1>2, Zenon DEF HalveU, HalveV, Within
  <2> QED
    BY <1>2, <2>1, HalveReaches, Zenon
<1>3. CASE Subtract
  <2>1. Reach(gcd, X)
    BY <1>3, Zenon DEF Subtract, Within
  <2> QED
    BY <1>3, <2>1, SubtractReaches, Zenon
<1>4. CASE Sign
  <2>1. phase = "sign" /\ phase' = "signed" /\ gcd' = GcdOf(reg.s) /\ reg' = reg
    BY <1>4 DEF Sign
  <2>2. X' = reg.s /\ reg.s \in 0 .. Q - 1
    BY <2>1 DEF X, Good, Registers
  <2>3. reg.s \in 0 .. Q /\ reg.s \in Nat
    BY <2>2, Keys
  <2> QED
    BY <2>1, <2>2, <2>3, NonceFits, ReachBegins
<1>5. CASE DigitDone \/ UNCHANGED vars
  <2>1. /\ pc' = pc /\ UNCHANGED <<phase, gcd, reg>>
    BY <1>5 DEF DigitDone, vars
  <2>2. X' = X
    BY <2>1 DEF X
  <2>3. Reach(gcd, X)
    BY <2>1, Zenon DEF Within
  <2> QED
    BY Zenon, <2>1, <2>2, <2>3 DEF Reach
<1>6. ~Begin
  <2> SUFFICES ASSUME Begin PROVE FALSE
    OBVIOUS
  <2>1. Call.op \in {"mul", "pow", "mod"}
    BY Modulo DEF Begin, Legal
  <2>2. CASE Call.op = "mul"
    BY <2>2 DEF Begin
  <2>3. CASE Call.op = "pow"
    BY <2>3 DEF Begin
  <2>4. CASE Call.op = "mod"
    BY <2>4 DEF Begin
  <2> QED
    BY <2>1, <2>2, <2>3, <2>4
<1>7. ~(Inverted \/ OperandReduced \/ SetBit \/ Accumulated \/ ClearBit)
  BY DEF Inverted, OperandReduced, SetBit, Accumulated, ClearBit, Grow
<1>8. ~(BaseReduced \/ Return \/ ModReturn \/ Compare)
  BY DEF BaseReduced, Return, ModReturn, Returns, Compare
<1> QED
  BY Zenon, <1>1, <1>2, <1>3, <1>4, <1>5, <1>6, <1>7, <1>8 DEF Next

WInv == IInv /\ (~slipped => Within)

LEMMA InitWithin == Init => WInv
<1> SUFFICES ASSUME Init, pc = "gcd" PROVE Reach(gcd, X)
  BY InitGood, Zenon DEF WInv, Within
<1>1. PICK s \in Ss : X = s /\ gcd = GcdOf(s)
  <2>1. PICK r \in Rs, s \in Ss :
          /\ reg = [x \in {"k", "k_inv", "r", "s", "w", "u1", "u2", "t0", "t1", "v"} |->
                     IF x = "r" THEN r ELSE IF x = "s" THEN s ELSE 0]
          /\ gcd = GcdOf(s)
          /\ \/ phase = "check" /\ pc = "gcd"
             \/ phase = "sign" /\ pc = "random" /\ r = 0 /\ s = 0
    BY DEF Init
  <2>2. phase = "check" /\ reg.s = s
    BY <2>1
  <2>3. X = s
    BY <2>2 DEF X
  <2> QED
    BY <2>1, <2>3
<1>2. s \in Nat /\ Fits((s * Q) * s + s)
  BY DsaAssumption, SizeAssumption
<1> QED
  BY <1>1, <1>2, ReachBegins

LEMMA NextWithin == WInv /\ [Next]_vars => WInv'
<1> SUFFICES ASSUME WInv, [Next]_vars PROVE WInv'
  OBVIOUS
<1>1. IInv'
  BY NextGood, Zenon DEF WInv
<1>2. slipped' = slipped \/ slipped' = (slipped \/ (Takes /\ Slips))
  BY Zenon DEF Next, vars, Random, HalveU, HalveV, Subtract, Inverted, Begin, OperandReduced,
         SetBit, Accumulated, ClearBit, BaseReduced, Return, ModReturn, Returns, Sign,
         Compare, DigitDone, Digit
<1>3. ASSUME ~slipped' PROVE Within'
  <2>1. ~slipped /\ Good /\ Good' /\ Within
    BY <1>1, <1>2, <1>3, Zenon DEF WInv, IInv
  <2> QED
    BY <2>1, WithinKeeps, Zenon
<1> QED
  BY <1>1, <1>3, Zenon DEF WInv

(* What fits can be halved, negated and compared.                          *)
LEMMA Roomy ==
  ASSUME NEW x \in Int, Fits(x)
  PROVE  - Half <= x /\ x < Half /\ Half \in Nat /\ Full \in Nat /\ Half <= Full
         /\ 2 * Abs(x) < Half
<1>1. /\ Half \in Nat /\ Full \in Nat /\ Half * 2 <= Full /\ Abs(x) \in Nat
      /\ Base * Abs(x) + Base <= Half /\ Base \in Nat /\ Base >= 2
  BY Room, FewPowers
<1> DEFINE a == Abs(x)
<1>2. 2 * a <= Base * a /\ Base * a \in Nat
  BY <1>1, Times
<1>3. x <= a /\ - x <= a
  BY DEF Abs
<1> HIDE DEF a
<1>4. a \in Nat /\ 2 * a < Half
  BY <1>1, <1>2 DEF a
<1> QED
  BY <1>1, <1>3, <1>4 DEF a

(* The coefficient of Q, from which that of x follows.                     *)
Spans(a, b, u, x) ==
  /\ a * x + b * Q = u /\ u <= x /\ Abs(a) <= 2 * ((x * Q) * Q) + 1
  /\ Fits((x * Q) * x + x)

LEMMA OtherBound ==
  ASSUME NEW a \in Int, NEW b \in Int, NEW u \in Nat, NEW x \in Nat, Spans(a, b, u, x)
  PROVE  - Half <= b - x /\ b - x < Half
<1> USE DEF Spans
<1> DEFINE z == (x * Q) * x
           T == (x * Q) * Q
           c == Abs(a)
           e == Abs(b)
<1>1. Q \in Nat /\ Q > 1 /\ z \in Nat /\ T \in Nat /\ x * Q \in Nat
      /\ c \in Nat /\ e \in Nat
  BY Keys, Times DEF Abs
<1>2. T * x = z * Q
  BY <1>1, SMT
<1>3. c * x <= 2 * (z * Q) + x /\ c * x \in Nat /\ z * Q \in Nat
  <2>1. c * x <= (2 * T + 1) * x /\ c * x \in Nat /\ z * Q \in Nat
    <3>1. 2 * T + 1 \in Nat /\ c <= 2 * T + 1
      BY <1>1
    <3> HIDE DEF c, T, z
    <3> QED
      BY <1>1, <3>1, Times
  <2>2. (2 * T + 1) * x = 2 * (T * x) + x /\ T * x \in Nat
    BY <1>1, SMT
  <2> QED
    BY <1>2, <2>1, <2>2
<1>4. e * Q <= c * x + x /\ e * Q \in Nat
  <2>1. e * Q = Abs(b * Q) /\ c * x = Abs(a * x) /\ b * Q \in Int /\ a * x \in Int
    BY <1>1, SMT DEF Abs
  <2>2. Abs(b * Q) <= Abs(a * x) + x /\ Abs(b * Q) \in Nat
    <3> DEFINE p == a * x
               q == b * Q
    <3>1. p \in Int /\ q \in Int /\ p + q = u
      BY <2>1
    <3> HIDE DEF p, q
    <3>2. Abs(q) <= Abs(p) + x /\ Abs(q) \in Nat
      BY <3>1 DEF Abs
    <3> QED
      BY <3>2 DEF p, q
  <2> QED
    BY <2>1, <2>2
<1>5. e * Q <= (2 * z + x) * Q
  <2>1. 2 * x <= x * Q /\ (2 * z + x) * Q = 2 * (z * Q) + x * Q
    <3>1. x * 2 <= x * Q
      BY <1>1, Times
    <3>2. (2 * z + x) * Q = 2 * (z * Q) + x * Q
      BY <1>1, SMT
    <3> QED
      BY <3>1, <3>2
  <2> HIDE DEF z, e, c
  <2> QED
    BY <1>1, <1>3, <1>4, <2>1
<1>6. e <= 2 * z + x
  <2>1. 2 * z + x \in Nat
    BY <1>1
  <2> DEFINE y == 2 * z + x
  <2>2. y \in Nat /\ e * Q <= y * Q
    BY <1>5, <2>1
  <2> HIDE DEF y, e
  <2>3. e <= y
    <3>1. CASE e > y
      <4>1. y + 1 <= e /\ y + 1 \in Nat
        BY <1>1, <2>2, <3>1
      <4>2. (y + 1) * Q <= e * Q
        BY <1>1, <4>1, Times
      <4>3. (y + 1) * Q = y * Q + Q /\ y * Q \in Nat
        BY <1>1, <2>2, SMT
      <4> QED
        BY <1>1, <1>4, <2>2, <4>2, <4>3
    <3> QED
      BY <1>1, <2>2, <3>1
  <2> QED
    BY <2>3 DEF y
<1>7. 2 * (z + x) < Half /\ Half \in Nat
  <2>1. z + x \in Int /\ Fits(z + x)
    BY <1>1
  <2> HIDE DEF z
  <2>2. 2 * Abs(z + x) < Half /\ Half \in Nat
    BY <2>1, Roomy
  <2>3. Abs(z + x) = z + x
    BY <1>1 DEF Abs
  <2> QED
    BY <2>2, <2>3
<1>8. b <= e /\ - b <= e
  BY DEF Abs
<1> HIDE DEF e, z
<1> QED
  BY <1>1, <1>6, <1>7, <1>8

(* The gcd in words.                                                       *)
LEMMA GcdInWords ==
  ASSUME Good, Within, pc = "gcd"
  PROVE  /\ W!Cmp(St(gcd.u), St(gcd.v)) = Cmp(gcd.u, gcd.v)
         /\ W!Sub(St(gcd.A), St(gcd.C)) = St(gcd.A - gcd.C)
         /\ W!BitShr(St(gcd.u)) = St(Halved(gcd.u))
         /\ W!KeepSignShiftRight(W!Sub(St(gcd.B), St(X))) = St(Halved(gcd.B - X))
<1>1. /\ gcd.u \in Nat /\ gcd.v \in Nat /\ gcd.A \in Int /\ gcd.B \in Int
      /\ gcd.C \in Int /\ gcd.A * X + gcd.B * Q = gcd.u
  BY DEF Good, Coefficients
<1>2. /\ gcd.u <= X /\ gcd.v <= Q /\ Abs(gcd.A) <= 2 * ((X * Q) * Q) + 1
      /\ Fits((X * Q) * X + X)
  BY DEF Within, Reach
<1>3. X \in Nat /\ Fits(X) /\ Q \in Nat /\ Fits(Q)
  <2>1. Registers /\ Types
    BY DEF Good
  <2>2. X \in Nat
    BY <2>1, InvertedFits DEF Types
  <2>3. Fits(X)
    BY <2>1 DEF Registers, Regs, X
  <2> QED
    BY <2>2, <2>3, Keys
<1>4. X < Half /\ Q < Half /\ Half \in Nat /\ Full \in Nat /\ Half <= Full
  BY <1>3, Roomy
<1>5. gcd.u < Half /\ gcd.v < Half /\ gcd.u < Full
  BY <1>1, <1>2, <1>3, <1>4
<1>6. - Half <= gcd.B - X /\ gcd.B - X < Half /\ gcd.B - X \in Int /\ X \in Int
  <2>1. Spans(gcd.A, gcd.B, gcd.u, X)
    BY Zenon, <1>1, <1>2 DEF Spans
  <2>2. - Half <= gcd.B - X /\ gcd.B - X < Half
    BY Zenon, <1>1, <1>3, <2>1, OtherBound
  <2> QED
    BY <1>1, <1>3, <2>2
<1>7. W!Cmp(W!Stored(gcd.u), W!Stored(gcd.v)) = Cmp(gcd.u, gcd.v)
  BY <1>1, <1>5, CmpRight
<1>8. W!Sub(W!Stored(gcd.A), W!Stored(gcd.C)) = W!Stored(gcd.A - gcd.C)
  BY <1>1, SubRight
<1>9. W!BitShr(W!Stored(gcd.u)) = W!Stored(Halved(gcd.u))
  BY <1>1, <1>5, BitShrRight
<1>10. W!KeepSignShiftRight(W!Stored(gcd.B - X)) = W!Stored(Halved(gcd.B - X))
  BY <1>6, KeepSignRight
<1>11. W!Sub(W!Stored(gcd.B), W!Stored(X)) = W!Stored(gcd.B - X)
  BY <1>1, <1>6, SubRight
<1> QED
  BY Zenon, <1>7, <1>8, <1>9, <1>10, <1>11 DEF St

(* A digit in words.                                                       *)
LEMMA TakenInWords ==
  ASSUME Shape, Dividing, Takes
  PROVE  LET m == W!SubMulS(St(div.m), St(div.shifted), Estimate)
         IN St(Reduced) = IF W!IsNegative(m) THEN W!Add(m, St(div.shifted)) ELSE m
<1> DEFINE z == div.m - Estimate * div.shifted
           m == W!SubMulS(St(div.m), St(div.shifted), Estimate)
<1>1. /\ div.m \in Nat /\ div.shifted \in Nat /\ div.of \in Int /\ Fits(div.of)
      /\ div.m <= Abs(div.of)
  BY DEF Shape
<1>2. Estimate \in Nat /\ Estimate * div.shifted <= div.m + div.shifted
      /\ Estimate * div.shifted \in Nat
  BY <1>1, EstimateRight, Times
<1>3. div.shifted <= div.m
  BY <1>1 DEF Takes, Cmp
<1>4. Abs(div.of) \in Nat /\ 2 * Abs(div.of) < Half /\ Half \in Nat
  BY <1>1, Roomy DEF Abs
<1>5. z \in Int /\ - Half <= z /\ z < Half
  BY <1>1, <1>2, <1>3, <1>4
<1>6. m = W!Stored(z)
  <2>1. div.m \in Int /\ div.shifted \in Int /\ Estimate \in Int
    BY <1>1, <1>2
  <2>2. m = W!Stored(div.m - div.shifted * Estimate)
    BY Zenon, <2>1, SubMulRight DEF St
  <2>3. div.shifted * Estimate = Estimate * div.shifted
    BY <2>1
  <2> QED
    BY Zenon, <2>2, <2>3
<1>7. Reduced = IF z < 0 THEN z + div.shifted ELSE z
  BY DEF Reduced
<1> HIDE DEF z
<1>8. W!IsNegative(W!Stored(z)) <=> z < 0
  BY <1>5, SignRight
<1>9. W!Add(W!Stored(z), W!Stored(div.shifted)) = W!Stored(z + div.shifted)
  <2>1. div.shifted \in Int
    BY <1>1
  <2> QED
    BY <1>5, <2>1, AddRight
<1> QED
  BY Zenon, <1>6, <1>7, <1>8, <1>9 DEF St

LEMMA ShiftedInWords ==
  ASSUME Shape, Dividing
  PROVE  /\ W!AbsOf(St(div.of)) = St(Abs(div.of))
         /\ W!ByteShr(St(div.shifted), 1) = St(ByteShr(div.shifted, 1))
<1>1. /\ div.of \in Int /\ Fits(div.of) /\ div.by \in Nat \ {0} /\ div.left \in 0 .. Size
      /\ Fits(div.by) /\ div.left > 0 /\ div.shifted \in Nat
      /\ Hexp(div.by) + div.left <= Size
      /\ div.shifted = div.by * Base ^ (div.left - 1)
  BY DEF Shape, Dividing
<1>2. - Half <= div.of /\ div.of < Half
  BY <1>1, Roomy
<1>3. W!AbsOf(W!Stored(div.of)) = W!Stored(Abs(div.of))
  BY <1>1, <1>2, AbsRight
<1>4. div.shifted < Full
  <2>1. div.by < Base ^ (Size + 1)
    <3>1. div.by \in Int /\ Abs(div.by) = div.by
      BY <1>1 DEF Abs
    <3> QED
      BY <1>1, <3>1, Room
  <2> DEFINE n == Hexp(div.by)
             l == div.left - 1
             k == n + 1
             t == k + l
  <2>2. n \in 0 .. Size /\ div.by < Base ^ k
    BY <1>1, <2>1, HexpOf
  <2>3. /\ k \in 0 .. Size + 1 /\ l \in 0 .. Size + 1 /\ t \in 0 .. Size + 1
        /\ Size \in 0 .. Size + 1 /\ t <= Size /\ k + l = t
    BY <1>1, <2>2, FewPowers
  <2> HIDE DEF n, l, k, t
  <2>4. Base ^ t = Base ^ k * Base ^ l /\ Base ^ t <= Base ^ Size
    BY <2>3, PowerSum, Powers
  <2>5. Base ^ k \in Nat \ {0} /\ Base ^ l \in Nat \ {0} /\ Base ^ Size \in Nat
    BY <2>3, Powers
  <2>6. div.shifted = div.by * Base ^ l
    BY Zenon, <1>1 DEF l
  <2> DEFINE a == div.by
             b == Base ^ k
             c == Base ^ l
  <2>7. a \in Nat /\ b \in Nat /\ c \in Nat \ {0} /\ a < b
    BY <1>1, <2>2, <2>5
  <2> HIDE DEF a, b, c
  <2>8. a * c < b * c /\ a * c \in Nat /\ b * c \in Nat
    BY <2>7, SMT
  <2> QED
    BY <2>4, <2>5, <2>6, <2>8 DEF a, b, c, Full
<1>5. W!ByteShr(W!Stored(div.shifted), 1) = W!Stored(ByteShr(div.shifted, 1))
  BY <1>1, <1>4, ByteShrRight
<1> QED
  BY Zenon, <1>3, <1>5 DEF St

(* A bit in words.                                                         *)
LEMMA BitInWords ==
  ASSUME Good, pc = "bit"
  PROVE  LET b == St(loop.base)
         IN /\ St(Combined) = IF IsMul THEN W!Add(St(loop.acc), b)
                                       ELSE W!Mul(St(loop.acc), b)
            /\ St(Grown) = IF IsMul THEN W!BitShl(b) ELSE W!Sqr(b)
<1> DEFINE x == loop.acc
           y == loop.base
<1>1. x \in 0 .. P - 1 /\ y \in 0 .. P - 1
  <2>1. call <= Len(Calls)
    BY DEF Good, Types, InCall
  <2>2. x \in 0 .. Call.mod - 1 /\ y \in 0 .. Call.mod - 1
    BY DEF Good, Loops, InCall
  <2> QED
    BY <2>1, <2>2, Modulo, Zenon
<1> HIDE DEF x, y
<1>2. x \in Nat /\ y \in Nat /\ Fits(x) /\ Fits(y)
  <2>1. Fits(x) /\ Fits(y)
    BY <1>1, Keys, Zenon
  <2> QED
    BY <1>1, <2>1
<1>3. /\ x \in Int /\ y \in Int /\ - Half <= x /\ x < Half /\ - Half <= y /\ y < Half
      /\ y < Full
  BY <1>2, Roomy
<1>4. x * y \in Int /\ x + y \in Int /\ y * y \in Int /\ 2 * y \in Int
  BY <1>3, SMT
<1>5. W!Add(St(x), St(y)) = St(x + y) /\ W!Mul(St(x), St(y)) = St(x * y)
  <2>1. W!Add(W!Stored(x), W!Stored(y)) = W!Stored(x + y)
    BY <1>3, AddRight
  <2>2. W!Mul(W!Stored(x), W!Stored(y)) = W!Stored(x * y)
    BY <1>3, MulRight
  <2> QED
    BY Zenon, <2>1, <2>2 DEF St
<1>6. W!BitShl(St(y)) = St(2 * y) /\ W!Sqr(St(y)) = St(y * y)
  <2>1. W!BitShl(W!Stored(y)) = W!Stored(2 * y)
    BY <1>3, ShlRight
  <2>2. W!Sqr(W!Stored(y)) = W!Stored(y * y)
    BY <1>2, <1>3, SqrRight
  <2> QED
    BY Zenon, <2>1, <2>2 DEF St
<1>7. \A z \in Int : St(Wrap(z)) = St(z)
  BY WrapStored, Zenon DEF St
<1>8. St(Combined) = IF IsMul THEN St(x + y) ELSE St(x * y)
  <2>1. St(Wrap(x + y)) = St(x + y) /\ St(Wrap(x * y)) = St(x * y)
    BY Zenon, <1>4, <1>7
  <2> QED
    BY Zenon, <2>1 DEF Combined, Product, x, y
<1>9. St(Grown) = IF IsMul THEN St(2 * y) ELSE St(y * y)
  <2>1. St(Wrap(2 * y)) = St(2 * y) /\ St(Wrap(y * y)) = St(y * y)
    BY Zenon, <1>4, <1>7
  <2> QED
    BY Zenon, <2>1 DEF Grown, Doubled, Squared, y
<1> QED
  BY Zenon, <1>5, <1>6, <1>8, <1>9 DEF x, y

(* bch.c's loops over words and longs, with their carries, borrows and     *)
(* shifts, make of what is stored what arithmetic makes of the numbers, in *)
(* every size of number and digit, until an estimate slips.                *)
THEOREM WordsMakeTheNumbers == Spec => [](~slipped => WordsAgree)
<1>1. WInv => (~slipped => WordsAgree)
  <2> SUFFICES ASSUME WInv, ~slipped PROVE WordsAgree
    OBVIOUS
  <2>1. Good /\ Within /\ Shape
    BY Zenon DEF WInv, IInv, Good
  <2>2. Dividing => pc \in Divides
    BY <2>1 DEF Good, Loops
  <2>3. CASE pc = "gcd"
    <3>1. ~Dividing
      BY <2>2, <2>3 DEF Divides
    <3> QED
      BY <2>1, <2>3, <3>1, GcdInWords DEF WordsAgree
  <2>4. CASE Dividing
    <3>1. pc # "gcd" /\ pc # "bit"
      BY <2>2, <2>4 DEF Divides
    <3>2. CASE Takes
      BY <2>1, <2>4, <3>1, <3>2, TakenInWords DEF WordsAgree
    <3>3. CASE ~Takes
      BY <2>1, <2>4, <3>1, <3>3, ShiftedInWords DEF WordsAgree
    <3> QED
      BY <3>2, <3>3
  <2>5. CASE pc = "bit" /\ loop.bits > 0
    <3>1. ~Dividing /\ pc # "gcd"
      BY <2>2, <2>5 DEF Divides
    <3> QED
      BY <2>1, <2>5, <3>1, BitInWords DEF WordsAgree
  <2>6. CASE pc # "gcd" /\ ~Dividing /\ ~(pc = "bit" /\ loop.bits > 0)
    BY <2>6 DEF WordsAgree
  <2> QED
    BY <2>3, <2>4, <2>5, <2>6
<1>2. Spec => []WInv
  BY InitWithin, NextWithin, PTL DEF Spec
<1> QED
  BY <1>1, <1>2, PTL

============================================================================
