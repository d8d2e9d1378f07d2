----------------------------- MODULE Remainders -----------------------------
(***************************************************************************)
(* Facts about \div and % that the counting of chunks and blocks rests on. *)
(***************************************************************************)
EXTENDS Integers, TLAPS

\* A number is divided in one way only.
LEMMA OneDivision ==
  ASSUME NEW c \in Nat \ {0}, NEW p \in Int, NEW q \in Int,
         NEW r \in 0 .. c - 1, NEW s \in 0 .. c - 1, c * p + r = c * q + s
  PROVE  r = s
<1>1. c * (p - q) = s - r
  OBVIOUS
<1>2. CASE p - q >= 1
  <2>1. c * (p - q) >= c
    BY <1>2
  <2> QED
    BY <1>1, <2>1
<1>3. CASE q - p >= 1
  <2>1. c * (q - p) >= c
    BY <1>3
  <2>2. c * (q - p) = r - s
    BY <1>1
  <2> QED
    BY <2>1, <2>2
<1>4. CASE p = q
  BY <1>4
<1> QED
  BY <1>2, <1>3, <1>4

\* Every number is a multiple of c and its remainder.
LEMMA Division ==
  ASSUME NEW c \in Nat \ {0}, NEW a \in Nat
  PROVE  a \div c \in Int /\ a % c \in 0 .. c - 1 /\ a = c * (a \div c) + (a % c)
OBVIOUS

\* The quotient of two numbers is one.
LEMMA QuotientIsNat ==
  ASSUME NEW c \in Nat \ {0}, NEW a \in Nat
  PROVE  a \div c \in Nat
<1> DEFINE q == a \div c
           r == a % c
<1>1. q \in Int /\ r \in 0 .. c - 1 /\ a = c * q + r
  BY Division
<1> HIDE DEF q, r
<1>2. CASE q <= -1
  <2>1. c * q <= -c
    BY <1>1, <1>2
  <2> QED
    BY <1>1, <2>1
<1>3. q \in Nat
  BY <1>1, <1>2
<1> QED
  BY <1>3 DEF q

\* A remainder is known by its quotient.
LEMMA RemainderOf ==
  ASSUME NEW c \in Nat \ {0}, NEW b \in Nat, NEW q \in Int, NEW d \in 0 .. c - 1,
         b = c * q + d
  PROVE  b % c = d
<1>1. /\ b \div c \in Int
      /\ b % c \in 0 .. c - 1
      /\ b = c * (b \div c) + (b % c)
  BY Division
<1> QED
  BY <1>1, OneDivision

\* d bytes into a chunk that begins at a.
LEMMA PlaceInChunk ==
  ASSUME NEW c \in Nat \ {0}, NEW a \in Nat, NEW d \in 0 .. c - 1, a % c = 0
  PROVE  (a + d) % c = d
<1>1. a = c * (a \div c) /\ a \div c \in Int
  BY Division
<1>2. a + d \in Nat /\ a + d = c * (a \div c) + d
  BY <1>1
<1> QED
  BY <1>1, <1>2, RemainderOf

\* Whole chunks apart.
LEMMA ChunksApart ==
  ASSUME NEW c \in Nat \ {0}, NEW a \in Nat, NEW b \in Nat,
         a % c = 0, b % c = 0, a <= b
  PROVE  (b - a) % c = 0
<1>1. a = c * (a \div c) /\ a \div c \in Int /\ b = c * (b \div c) /\ b \div c \in Int
  BY Division
<1>2. b - a \in Nat /\ b - a = c * ((b \div c) - (a \div c)) + 0
  BY <1>1
<1>3. (b \div c) - (a \div c) \in Int /\ 0 \in 0 .. c - 1
  BY <1>1
<1> DEFINE d == b - a
           q == (b \div c) - (a \div c)
<1>4. d \in Nat /\ q \in Int /\ d = c * q + 0
  BY <1>2, <1>3
<1> HIDE DEF d, q
<1>5. d % c = 0
  BY <1>3, <1>4, RemainderOf
<1> QED
  BY <1>5 DEF d

\* The chunk after one that begins on a boundary begins on a boundary.
LEMMA NextChunk ==
  ASSUME NEW c \in Nat \ {0}, NEW a \in Nat, a % c = 0
  PROVE  (a + c) % c = 0
<1>1. a = c * (a \div c) /\ a \div c \in Int
  BY Division
<1>2. a + c \in Nat /\ a + c = c * ((a \div c) + 1) + 0
  BY <1>1
<1> DEFINE d == a + c
           q == (a \div c) + 1
<1>3. d \in Nat /\ q \in Int /\ 0 \in 0 .. c - 1 /\ d = c * q + 0
  BY <1>1, <1>2
<1> HIDE DEF d, q
<1>4. d % c = 0
  BY <1>3, RemainderOf
<1> QED
  BY <1>4 DEF d

\* A quotient is known by its remainder.
LEMMA QuotientOf ==
  ASSUME NEW c \in Nat \ {0}, NEW b \in Nat, NEW q \in Int, NEW d \in 0 .. c - 1,
         b = c * q + d
  PROVE  b \div c = q
<1>1. /\ b \div c \in Int
      /\ b % c \in 0 .. c - 1
      /\ b = c * (b \div c) + (b % c)
  BY Division
<1>2. b % c = d
  BY RemainderOf
<1> DEFINE k == b \div c
<1>3. k \in Int /\ c * (k - q) = 0
  BY <1>1, <1>2
<1> HIDE DEF k
<1>4. CASE k - q >= 1
  <2>1. c * (k - q) >= c
    BY <1>3, <1>4
  <2> QED
    BY <1>3, <2>1
<1>5. CASE q - k >= 1
  <2>1. c * (q - k) >= c
    BY <1>3, <1>5
  <2>2. c * (q - k) = 0
    BY <1>3
  <2> QED
    BY <2>1, <2>2
<1>6. k = q
  BY <1>3, <1>4, <1>5
<1> QED
  BY <1>6 DEF k

\* A multiple of m, where m is a multiple of c, does not change a remainder by c.
LEMMA RemainderOfRemainder ==
  ASSUME NEW c \in Nat \ {0}, NEW m \in Nat \ {0}, NEW a \in Nat, m % c = 0
  PROVE  (a % m) % c = a % c
<1> DEFINE k == m \div c
           p == a \div m
           r == a % m
           q == r \div c
           d == r % c
<1>1. k \in Int /\ m = c * k
  BY Division
<1>2. p \in Int /\ r \in Nat /\ a = m * p + r
  BY Division
<1>3. q \in Int /\ d \in 0 .. c - 1 /\ r = c * q + d
  BY <1>2, Division
<1> HIDE DEF k, p, r, q, d
<1>4. m * p = c * (k * p)
  BY <1>1, <1>2
<1>5. a = c * (k * p + q) + d /\ k * p + q \in Int
  BY <1>1, <1>2, <1>3, <1>4
<1>6. a % c = d
  BY <1>3, <1>5, RemainderOf
<1> QED
  BY <1>6 DEF d, r

\* Of a sum, the remainder of a part is enough.
LEMMA SumRemainder ==
  ASSUME NEW c \in Nat \ {0}, NEW a \in Nat, NEW b \in Nat
  PROVE  ((a % c) + b) % c = (a + b) % c
<1> DEFINE q == a \div c
           r == a % c
           s == r + b
           k == s \div c
           d == s % c
<1>1. q \in Int /\ r \in Nat /\ a = c * q + r
  BY Division
<1>2. s \in Nat
  BY <1>1
<1>3. k \in Int /\ d \in 0 .. c - 1 /\ s = c * k + d
  BY <1>2, Division
<1>4. s = r + b
  OBVIOUS
<1> HIDE DEF q, r, s, k, d
<1>5. a + b \in Nat /\ q + k \in Int /\ a + b = c * (q + k) + d
  BY <1>1, <1>3, <1>4
<1>6. (a + b) % c = d
  BY <1>3, <1>5, RemainderOf
<1> QED
  BY <1>6 DEF d, s, r

\* The quotient of a sum, when the remainders together do not reach c ...
LEMMA SumQuotient ==
  ASSUME NEW c \in Nat \ {0}, NEW a \in Nat, NEW b \in Nat,
         (a % c) + (b % c) < c
  PROVE  /\ (a + b) \div c = (a \div c) + (b \div c)
         /\ (a + b) % c = (a % c) + (b % c)
<1> DEFINE q == a \div c
           r == a % c
           k == b \div c
           d == b % c
<1>1. q \in Int /\ r \in Nat /\ a = c * q + r
  BY Division
<1>2. k \in Int /\ d \in Nat /\ b = c * k + d
  BY Division
<1>3. r + d < c
  OBVIOUS
<1> HIDE DEF q, r, k, d
<1>4. a + b \in Nat /\ q + k \in Int /\ a + b = c * (q + k) + (r + d)
  BY <1>1, <1>2
<1>5. r + d \in 0 .. c - 1
  BY <1>1, <1>2, <1>3
<1>6. (a + b) \div c = q + k /\ (a + b) % c = r + d
  BY <1>4, <1>5, RemainderOf, QuotientOf
<1> QED
  BY <1>6 DEF q, r, k, d

\* ... and when they do.
LEMMA SumQuotientCarry ==
  ASSUME NEW c \in Nat \ {0}, NEW a \in Nat, NEW b \in Nat,
         (a % c) + (b % c) >= c
  PROVE  /\ (a + b) \div c = (a \div c) + (b \div c) + 1
         /\ (a + b) % c = (a % c) + (b % c) - c
<1> DEFINE q == a \div c
           r == a % c
           k == b \div c
           d == b % c
<1>1. q \in Int /\ r \in 0 .. c - 1 /\ a = c * q + r
  BY Division
<1>2. k \in Int /\ d \in 0 .. c - 1 /\ b = c * k + d
  BY Division
<1>3. r + d >= c
  OBVIOUS
<1> HIDE DEF q, r, k, d
<1>4. a + b \in Nat /\ q + k + 1 \in Int /\ a + b = c * (q + k + 1) + (r + d - c)
  BY <1>1, <1>2
<1>5. r + d - c \in 0 .. c - 1
  BY <1>1, <1>2, <1>3
<1>6. (a + b) \div c = q + k + 1 /\ (a + b) % c = r + d - c
  BY <1>4, <1>5, RemainderOf, QuotientOf
<1> QED
  BY <1>6 DEF q, r, k, d
=============================================================================
