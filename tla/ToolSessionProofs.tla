-------------------------- MODULE ToolSessionProofs --------------------------
(***************************************************************************)
(* A session, for every command, pool and machine.                         *)
(*                                                                         *)
(* The translations of the pool come first, then numbers as words, the     *)
(* addresses of the pool as lines of the memory, and the inductive         *)
(* invariant of a session; with it, what the pairs that are measured       *)
(* satisfy, where the streams lie, and that a decomposition is right if    *)
(* the oracles tell pairs.                                                 *)
(*                                                                         *)
(* Then the numbers: the bits of a configuration; sums, averages, sorting  *)
(* and the median; the rows of a loop and the refreshes they meet, for one *)
(* rank and for two; the intervals between them; and with those, that      *)
(* statistics and oracles do tell pairs on every memory whose timings suit *)
(* the loops and the thresholds.                                           *)
(***************************************************************************)
EXTENDS ToolSession, AddressBitsProofs, SequenceTheorems

(* Division with remainder.                                                *)
LEMMA DivMod ==
  ASSUME NEW a \in Nat, NEW b \in Nat \ {0}
  PROVE  /\ a \div b \in Nat /\ a % b \in 0 .. b - 1
         /\ a = (a \div b) * b + (a % b)
OBVIOUS

(* The quotient and the remainder are the only ones.                       *)
LEMMA DivUnique ==
  ASSUME NEW q \in Nat, NEW b \in Nat \ {0}, NEW r \in 0 .. b - 1
  PROVE  (q * b + r) \div b = q /\ (q * b + r) % b = r
OBVIOUS

(* Products of sums of numbers of frames and lines.                        *)
LEMMA Distribute ==
  ASSUME NEW a \in Nat, NEW b \in Nat, NEW c \in Nat
  PROVE  (a + b) * c = a * c + b * c
OBVIOUS

(* Lines in a frame, frames in a page.                                     *)
LEMMA Associate ==
  ASSUME NEW a \in Nat, NEW b \in Nat, NEW c \in Nat
  PROVE  (a * b) * c = a * (b * c)
OBVIOUS

(* Frames compare as the addresses they begin at.                          *)
LEMMA Cancel ==
  ASSUME NEW p \in Nat, NEW n \in Nat, NEW b \in Nat \ {0}, p * b < n * b
  PROVE  p < n
OBVIOUS

-----------------------------------------------------------------------------
(* A set of n + 1 elements has the subsets of n of them, and those with    *)
(* the last one added.                                                     *)
LEMMA TwoPower ==
  ASSUME NEW n \in Nat
  PROVE  2^n \in Nat \ {0} /\ 2^(n + 1) = 2 * 2^n
<1>. DEFINE A == 1 .. n
            B == 1 .. n + 1
            with == [s \in SUBSET A |-> s \cup {n + 1}]
            image == {s \in SUBSET B : n + 1 \in s}
<1>1. \A m \in Nat : IsFiniteSet(1 .. m) /\ Cardinality(1 .. m) = m
  <2>. TAKE m \in Nat
  <2>1. m \in Int /\ 1 \in Int
    OBVIOUS
  <2>2. IsFiniteSet(1 .. m) /\ Cardinality(1 .. m) = IF 1 > m THEN 0 ELSE m - 1 + 1
    BY <2>1, FS_Interval
  <2>. QED
    BY <2>2
<1>2. IsFiniteSet(A) /\ Cardinality(A) = n /\ IsFiniteSet(B) /\ Cardinality(B) = n + 1
  <2>1. n + 1 \in Nat
    OBVIOUS
  <2>. QED
    BY <1>1, <2>1
<1>3. /\ IsFiniteSet(SUBSET A) /\ Cardinality(SUBSET A) = 2^n
      /\ IsFiniteSet(SUBSET B) /\ Cardinality(SUBSET B) = 2^(n + 1)
  <2>. HIDE DEF A, B
  <2>. QED
    BY <1>2, FS_SUBSET
<1>4. Cardinality(SUBSET A) \in Nat /\ Cardinality(SUBSET A) # 0
  <2>. HIDE DEF A
  <2>1. SUBSET A # {}
    OBVIOUS
  <2>. QED
    BY <1>3, <2>1, FS_CardinalityType, FS_EmptySet, Zenon
<1>5. n + 1 \notin A /\ A \subseteq B /\ B = A \cup {n + 1} /\ n + 1 \in B
  OBVIOUS
<1>. HIDE DEF A, B
<1>6. with \in Bijection(SUBSET A, image)
  <2>1. with \in [SUBSET A -> image]
    BY <1>5
  <2>2. \A s, t \in SUBSET A : with[s] = with[t] => s = t
    BY <1>5
  <2>3. \A s \in image : \E t \in SUBSET A : with[t] = s
    <3>. TAKE s \in image
    <3>1. s \ {n + 1} \in SUBSET A /\ with[s \ {n + 1}] = s
      BY <1>5
    <3>. QED
      BY <3>1, Zenon
  <2>. HIDE DEF with, image
  <2>. QED
    BY <2>1, <2>2, <2>3 DEF Bijection, Injection, IsInjective, Surjection
<1>7. IsFiniteSet(image) /\ Cardinality(image) = Cardinality(SUBSET A)
  <2>. HIDE DEF with, image
  <2>. QED
    BY <1>3, <1>6, FS_Bijection DEF ExistsBijection
<1>8. SUBSET B = (SUBSET A) \cup image /\ (SUBSET A) \cap image = {}
  BY <1>5
<1>9. Cardinality(SUBSET B) = Cardinality(SUBSET A) + Cardinality(image) - 0
  <2>. DEFINE S == SUBSET A
              T == SUBSET B
  <2>1. IsFiniteSet(S) /\ IsFiniteSet(image) /\ T = S \cup image /\ S \cap image = {}
    BY <1>3, <1>7, <1>8
  <2>. HIDE DEF image, S, T
  <2>2. Cardinality(S \cup image)
          = Cardinality(S) + Cardinality(image) - Cardinality(S \cap image)
    BY <2>1, FS_Union
  <2>3. Cardinality({}) = 0
    BY FS_EmptySet
  <2>4. Cardinality(T) = Cardinality(S) + Cardinality(image) - 0
    BY <2>1, <2>2, <2>3
  <2>. QED
    BY <2>4 DEF S, T
<1>. QED
  <2>. DEFINE a == 2^n
              b == 2^(n + 1)
  <2>1. a \in Nat /\ a # 0
    BY <1>3, <1>4
  <2>2. b = a + a - 0
    BY <1>3, <1>7, <1>9
  <2>. HIDE DEF a, b
  <2>3. a \in Nat \ {0} /\ b = 2 * a
    BY <2>1, <2>2
  <2>. QED
    BY <2>3 DEF a, b

(* Powers of sums.                                                         *)
LEMMA PowerSum ==
  ASSUME NEW a \in Nat, NEW b \in Nat
  PROVE  2^(a + b) = 2^a * 2^b
<1>. DEFINE S == {k \in Nat : 2^(a + k) = 2^a * 2^k}
<1>1. 0 \in S
  <2>1. 2^0 = 1 /\ a + 0 = a /\ 2^a \in Nat
    BY TwoPower
  <2>. QED
    BY <2>1
<1>2. ASSUME NEW k \in S PROVE k + 1 \in S
  <2>1. k \in Nat /\ a + k \in Nat /\ a + (k + 1) = (a + k) + 1
    OBVIOUS
  <2>2. /\ 2^(a + (k + 1)) = 2 * 2^(a + k) /\ 2^(k + 1) = 2 * 2^k
        /\ 2^a \in Nat /\ 2^k \in Nat
    BY <2>1, TwoPower
  <2>3. 2^(a + k) = 2^a * 2^k
    OBVIOUS
  <2>4. \A x, y \in Nat : 2 * (x * y) = x * (2 * y)
    OBVIOUS
  <2>. QED
    BY <2>1, <2>2, <2>3, <2>4
<1>. HIDE DEF S
<1>3. S = Nat
  <2>1. S \in SUBSET Nat
    BY DEF S
  <2>. QED
    BY <1>1, <1>2, <2>1, Induction
<1>. QED
  BY <1>3, Zenon DEF S

(* One digit more of a number.                                             *)
Digit(n, b) == (n \div 2^b) % 2

(* The remainder of one more digit.                                        *)
LEMMA OneDigitMore ==
  ASSUME NEW n \in Nat, NEW k \in Nat
  PROVE  n % 2^(k + 1) = Digit(n, k) * 2^k + (n % 2^k)
<1>. DEFINE p == 2^k
            q == n \div p
            r == n % p
            h == q \div 2
            d == q % 2
<1>1. p \in Nat \ {0} /\ 2^(k + 1) = 2 * p
  BY TwoPower
<1>. HIDE DEF p
<1>2. q \in Nat /\ r \in 0 .. p - 1 /\ n = q * p + r
  BY <1>1, DivMod, Zenon
<1>. HIDE DEF q, r
<1>3. h \in Nat /\ d \in 0 .. 1 /\ q = h * 2 + d
  BY <1>2
<1>. HIDE DEF h, d
<1>4. n = h * (2 * p) + (d * p + r)
  <2>1. \A x, y, z \in Nat : (x * 2 + y) * z = x * (2 * z) + y * z
    OBVIOUS
  <2>2. q * p = h * (2 * p) + d * p
    BY <1>1, <1>3, <2>1
  <2>3. h * (2 * p) \in Nat /\ d * p \in Nat
    BY <1>1, <1>3
  <2>. QED
    BY <1>2, <2>2, <2>3
<1>5. d * p + r \in 0 .. 2 * p - 1
  <2>1. d = 0 \/ d = 1
    BY <1>3
  <2>2. 0 * p = 0 /\ 1 * p = p
    BY <1>1
  <2>. QED
    BY <1>1, <1>2, <2>1, <2>2
<1>6. n % (2 * p) = d * p + r
  <2>. DEFINE P == 2 * p
              R == d * p + r
  <2>1. P \in Nat \ {0} /\ h \in Nat /\ R \in 0 .. P - 1 /\ n = h * P + R
    BY <1>1, <1>3, <1>4, <1>5
  <2>. HIDE DEF P, R
  <2>2. n % P = R
    BY <2>1, DivUnique
  <2>. QED
    BY <2>2 DEF P, R
<1>. QED
  BY <1>1, <1>6 DEF Digit, d, q, r, p

(* Digits below a place determine the remainder.                           *)
LEMMA DigitsDecide ==
  ASSUME NEW n \in Nat, NEW m \in Nat, NEW k \in Nat,
         \A b \in 0 .. k - 1 : Digit(n, b) = Digit(m, b)
  PROVE  n % 2^k = m % 2^k
<1>. DEFINE S == {j \in 0 .. k : n % 2^j = m % 2^j}
<1>1. 0 \in S
  <2>1. 2^0 = 1
    OBVIOUS
  <2>2. n % 1 = 0 /\ m % 1 = 0
    OBVIOUS
  <2>. QED
    BY <2>1, <2>2
<1>2. ASSUME NEW j \in 0 .. k - 1, j \in S PROVE j + 1 \in S
  <2>1. j \in Nat /\ j + 1 \in 0 .. k
    OBVIOUS
  <2>2. Digit(n, j) = Digit(m, j)
    OBVIOUS
  <2>3. n % 2^j = m % 2^j
    BY <1>2
  <2>4. n % 2^(j + 1) = m % 2^(j + 1)
    <3>1. /\ n % 2^(j + 1) = Digit(n, j) * 2^j + (n % 2^j)
          /\ m % 2^(j + 1) = Digit(m, j) * 2^j + (m % 2^j)
      BY <2>1, OneDigitMore
    <3>. QED
      BY <2>2, <2>3, <3>1
  <2>. QED
    BY <2>1, <2>4
<1>. HIDE DEF S
<1>3. 0 .. k \subseteq S
  BY <1>1, <1>2, InductionTo
<1>4. k \in 0 .. k
  OBVIOUS
<1>. QED
  BY <1>3, <1>4 DEF S

-----------------------------------------------------------------------------
(* Words.                                                                  *)
Words == SUBSET (0 .. WordBits - 1)
Numbers == 0 .. 2^WordBits - 1

(* What the widths are assumed to be.                                      *)
LEMMA Widths ==
  /\ WordBits \in Nat /\ max_bits_ \in Nat /\ CACHELINE_OFFSET \in Nat
  /\ 2^WordBits \in Nat \ {0}
  /\ granularity = 2^CACHELINE_OFFSET
<1>1. /\ WordBits \in Nat /\ max_bits_ \in Nat /\ CACHELINE_OFFSET \in Nat
      /\ granularity = 2^CACHELINE_OFFSET
  BY SessionAssumption
<1>. QED
  BY <1>1, TwoPower

(* The table of the bits of a number.                                      *)
LEMMA BitsAre ==
  /\ Bits \in [Numbers -> Words]
  /\ \A n \in Numbers : Bits[n] = {b \in 0 .. WordBits - 1 : Digit(n, b) = 1}
BY DEF Bits, Numbers, Digit, Words

(* A digit is 0 or 1, and decides whether the number has the bit.          *)
LEMMA BitIsDigit ==
  ASSUME NEW n \in Nat, NEW b \in Nat
  PROVE  Digit(n, b) \in {0, 1}
<1>1. 2^b \in Nat \ {0}
  BY TwoPower
<1>2. n \div 2^b \in Nat
  BY <1>1, DivMod
<1>. QED
  BY <1>2 DEF Digit

(* Numbers that agree in the bits below a place have the same remainder.   *)
LEMMA SameLowBits ==
  ASSUME NEW n \in Numbers, NEW m \in Numbers, NEW k \in 0 .. WordBits,
         \A b \in 0 .. k - 1 : b \in Bits[n] <=> b \in Bits[m]
  PROVE  n % 2^k = m % 2^k
<1>1. n \in Nat /\ m \in Nat /\ k \in Nat /\ 0 .. k - 1 \subseteq 0 .. WordBits - 1
  BY Widths DEF Numbers
<1>2. ASSUME NEW b \in 0 .. k - 1 PROVE Digit(n, b) = Digit(m, b)
  <2>1. b \in 0 .. WordBits - 1 /\ b \in Nat
    BY <1>1
  <2>2. /\ b \in Bits[n] <=> Digit(n, b) = 1
        /\ b \in Bits[m] <=> Digit(m, b) = 1
    BY <2>1, BitsAre
  <2>3. Digit(n, b) \in {0, 1} /\ Digit(m, b) \in {0, 1}
    BY <1>1, <2>1, BitIsDigit
  <2>. QED
    BY <1>2, <2>2, <2>3
<1>. QED
  BY <1>1, <1>2, DigitsDecide

(* Every word is the bits of one number, its Num.                          *)
LEMMA NumIsInverse ==
  /\ \A word \in Words : Num[word] \in Numbers /\ Bits[Num[word]] = word
  /\ \A n \in Numbers : Num[Bits[n]] = n
<1>1. ASSUME NEW n \in Numbers, NEW m \in Numbers, Bits[n] = Bits[m]
      PROVE  n = m
  <2>1. WordBits \in 0 .. WordBits
    BY Widths
  <2>2. n % 2^WordBits = m % 2^WordBits
    BY <1>1, <2>1, SameLowBits
  <2>3. \A P \in Nat \ {0} : \A r \in 0 .. P - 1 : r % P = r
    OBVIOUS
  <2>. QED
    BY <2>2, <2>3, Widths DEF Numbers
<1>2. /\ IsFiniteSet(Numbers) /\ IsFiniteSet(Words)
      /\ Cardinality(Numbers) = Cardinality(Words)
  <2>1. IsFiniteSet(Numbers) /\ Cardinality(Numbers) = 2^WordBits
    <3>. DEFINE P == 2^WordBits
    <3>1. P \in Nat \ {0}
      BY Widths
    <3>. HIDE DEF P
    <3>2. 0 \in Int /\ P - 1 \in Int /\ ~(0 > P - 1) /\ P - 1 - 0 + 1 = P
      BY <3>1
    <3>3. IsFiniteSet(0 .. P - 1) /\ Cardinality(0 .. P - 1) = P
      BY <3>2, FS_Interval
    <3>. QED
      BY <3>3 DEF P, Numbers
  <2>2. IsFiniteSet(0 .. WordBits - 1) /\ Cardinality(0 .. WordBits - 1) = WordBits
    <3>1. 0 \in Int /\ WordBits - 1 \in Int
          /\ (IF 0 > WordBits - 1 THEN 0 ELSE WordBits - 1 - 0 + 1) = WordBits
      BY Widths
    <3>. QED
      BY <3>1, FS_Interval
  <2>. QED
    BY <2>1, <2>2, FS_SUBSET, Zenon DEF Words
<1>3. Bits \in Surjection(Numbers, Words)
  <2>1. Bits \in Injection(Numbers, Words)
    BY <1>1, BitsAre DEF Injection, IsInjective
  <2>. QED
    BY <1>2, <2>1, FS_Injection
<1>4. ASSUME NEW word \in Words
      PROVE  Num[word] \in Numbers /\ Bits[Num[word]] = word
  <2>1. \E n \in Numbers : Bits[n] = word
    BY <1>3 DEF Surjection
  <2>2. Num[word] = CHOOSE n \in Numbers : Bits[n] = word
    BY DEF Num, Words, Numbers
  <2>. QED
    BY <2>1, <2>2
<1>. QED
  BY <1>1, <1>4, BitsAre

(* Remainders, of negative numbers too.                                    *)
LEMMA ModUnique ==
  ASSUME NEW q \in Int, NEW b \in Nat \ {0}, NEW r \in 0 .. b - 1
  PROVE  (q * b + r) \div b = q /\ (q * b + r) % b = r
OBVIOUS

(* And they are there.                                                     *)
LEMMA ModDiv ==
  ASSUME NEW a \in Int, NEW b \in Nat \ {0}
  PROVE  /\ a \div b \in Int /\ a % b \in 0 .. b - 1
         /\ a = (a \div b) * b + (a % b)
OBVIOUS

(* Products of sums and differences.                                       *)
LEMMA Minus ==
  ASSUME NEW a \in Int, NEW b \in Int, NEW c \in Int
  PROVE  (a + b) * c = a * c + b * c /\ (a - b) * c = a * c - b * c
         /\ (a * b) * c = a * (b * c) /\ (-a) * c = -(a * c)
OBVIOUS

(* What is added modulo the word is taken off again.                       *)
LEMMA AddAndTakeOff ==
  ASSUME NEW P \in Nat \ {0}, NEW n \in 0 .. P - 1, NEW o \in Int
  PROVE  (((n + o) % P) - o) % P = n
<1>. DEFINE q == (n + o) \div P
            r == (n + o) % P
<1>1. n + o \in Int
  OBVIOUS
<1>2. q \in Int /\ r \in 0 .. P - 1 /\ n + o = q * P + r
  <2>. DEFINE s == n + o
  <2>. HIDE DEF s
  <2>1. s \in Int => /\ s \div P \in Int /\ s % P \in 0 .. P - 1
                     /\ s = (s \div P) * P + (s % P)
    BY ModDiv
  <2>. QED
    BY <1>1, <2>1 DEF s
<1>. HIDE DEF q, r
<1>3. r - o = (-q) * P + n
  <2>1. (-q) * P = -(q * P) /\ q * P \in Int
    BY <1>2, Minus
  <2>. QED
    BY <1>2, <2>1
<1>4. -q \in Int
  BY <1>2
<1>5. ((-q) * P + n) % P = n
  BY <1>4, ModUnique
<1>. QED
  BY <1>3, <1>5 DEF r

(* A multiple stays one in a word whose size is one.                       *)
LEMMA Multiples ==
  ASSUME NEW g \in Nat \ {0}, NEW a \in Int, NEW b \in Int,
         a % g = 0, b % g = 0
  PROVE  /\ (a + b) % g = 0 /\ (a - b) % g = 0
         /\ b \in Nat \ {0} => (a % b) % g = 0
<1>0. ASSUME NEW n \in Int, n % g = 0
      PROVE  \E k \in Int : n = k * g
  <2>. DEFINE k == n \div g
  <2>1. k \in Int /\ n = k * g + 0
    BY <1>0, ModDiv
  <2>. HIDE DEF k
  <2>2. k * g \in Int
    BY <2>1
  <2>. QED
    BY <2>1, <2>2
<1>1. PICK i \in Int : a = i * g
  BY <1>0
<1>2. PICK j \in Int : b = j * g
  BY <1>0
<1>3. ASSUME NEW k \in Int PROVE (k * g) % g = 0
  <2>1. 0 \in 0 .. g - 1 /\ k * g \in Int
    OBVIOUS
  <2>2. (k * g + 0) % g = 0
    BY <2>1, ModUnique
  <2>. QED
    BY <2>1, <2>2
<1>4. /\ i + j \in Int /\ i - j \in Int
      /\ a + b = (i + j) * g /\ a - b = (i - j) * g
  BY <1>1, <1>2, Minus
<1>5. ASSUME b \in Nat \ {0} PROVE (a % b) % g = 0
  <2>. DEFINE q == a \div b
              r == a % b
  <2>1. q \in Int /\ r \in Int /\ a = q * b + r
    BY <1>5, ModDiv
  <2>. HIDE DEF q, r
  <2>2. q * b = (q * j) * g /\ q * j \in Int
    BY <1>2, <2>1, Minus
  <2>3. i - q * j \in Int /\ (i - q * j) * g = i * g - (q * j) * g
    BY <2>2, Minus
  <2>4. q * b \in Int
    BY <1>5, <2>1
  <2>5. r = a - q * b
    BY <2>1, <2>4
  <2>6. r = (i - q * j) * g
    BY <1>1, <2>2, <2>3, <2>5
  <2>. DEFINE k == i - q * j
  <2>7. k \in Int /\ r = k * g
    BY <2>3, <2>6
  <2>. HIDE DEF k
  <2>8. r % g = 0
    BY <1>3, <2>7
  <2>. QED
    BY <2>8 DEF r
<1>. QED
  BY <1>3, <1>4, <1>5, Zenon

-----------------------------------------------------------------------------
(* What the assumptions say of pages, frames and lines.                    *)
LEMMA Sizes ==
  /\ page_size \in Nat \ {0} /\ granularity \in Nat \ {0}
  /\ OSPageSize \in Nat \ {0} /\ num_pages \in Nat \ {0}
  /\ granularity <= page_size
  /\ page_size = (page_size \div OSPageSize) * OSPageSize
  /\ page_size = (page_size \div granularity) * granularity
<1>1. /\ page_size \in Nat \ {0} /\ granularity \in Nat \ {0}
      /\ OSPageSize \in Nat \ {0} /\ num_pages \in Nat \ {0}
      /\ page_size % granularity = 0 /\ page_size % OSPageSize = 0
  BY PoolAssumption
<1>2. page_size = (page_size \div OSPageSize) * OSPageSize
  BY <1>1, DivMod
<1>3. page_size = (page_size \div granularity) * granularity
  BY <1>1, DivMod
<1>4. granularity <= page_size
  <2>1. SUFFICES ASSUME page_size < granularity PROVE FALSE
    BY <1>1
  <2>2. page_size % granularity = page_size
    BY <1>1, <2>1, DivUnique, 0 * granularity + page_size = page_size
  <2> QED
    BY <1>1, <2>2
<1> QED
  BY <1>1, <1>2, <1>3, <1>4

(* A page starts at a frame, and so many frames follow.                    *)
LEMMA PageStart ==
  ASSUME layout \in Layouts, NEW k \in DOMAIN layout.pages
  PROVE  /\ layout.pages[k] \in Nat \ {0}
         /\ layout.pages[k] = (layout.pages[k] \div page_size) * page_size
         /\ layout.pages[k] = (layout.pages[k] \div OSPageSize) * OSPageSize
<1> DEFINE base == layout.pages[k]
           Q == base \div page_size
           n == page_size \div OSPageSize
<1>1. base \in Nat /\ base > 0 /\ base % page_size = 0
  <2>1. layout.pages \in Seq({v \in Nat : v > 0 /\ v % page_size = 0})
    BY PoolAssumption, Zenon
  <2> QED
    BY <2>1
<1>2. Q \in Nat /\ base = Q * page_size
  <2> HIDE DEF base
  <2> QED
    BY <1>1, DivMod, Sizes
<1>3. n \in Nat /\ page_size = n * OSPageSize
  BY DivMod, Sizes
<1>4. base = (Q * n) * OSPageSize
  <2> HIDE DEF Q, n, base
  <2> QED
    BY <1>2, <1>3, Associate, Sizes
<1>5. base \div OSPageSize = Q * n
  <2>1. Q * n \in Nat
    BY <1>2, <1>3
  <2> HIDE DEF Q, n, base
  <2> QED
    BY <2>1, <1>4, DivUnique, Sizes, (Q * n) * OSPageSize + 0 = base
<1> QED
  BY <1>1, <1>2, <1>4, <1>5
(* The page map is about every byte of the pages of mmap.                  *)
LEMMA InPage ==
  ASSUME layout \in Layouts, NEW k \in DOMAIN layout.pages, NEW d \in 0 .. page_size - 1
  PROVE  /\ layout.pages[k] + d \in Nat
         /\ (layout.pages[k] + d) \div OSPageSize \in DOMAIN layout.frame
<1>1. DOMAIN layout.frame =
        {v \div OSPageSize : v \in
           UNION {layout.pages[l] .. layout.pages[l] + page_size - 1 :
                    l \in DOMAIN layout.pages}}
  BY PoolAssumption, Zenon
<1>2. layout.pages[k] + d \in layout.pages[k] .. layout.pages[k] + page_size - 1
  BY PageStart, Sizes
<1> QED
  BY <1>1, <1>2, PageStart

(* A physical address has the frame and the offset of its page.            *)
LEMMA PhysParts ==
  ASSUME layout \in Layouts, NEW v \in Nat, v \div OSPageSize \in DOMAIN layout.frame
  PROVE  /\ layout.frame[v \div OSPageSize] \in Nat
         /\ VirtToPhys(v) \in Nat
         /\ VirtToPhys(v) \div OSPageSize = layout.frame[v \div OSPageSize]
         /\ VirtToPhys(v) % OSPageSize = v % OSPageSize
<1> DEFINE frame == layout.frame[v \div OSPageSize]
           r == v % OSPageSize
<1>1. frame \in Nat
  <2>1. PICK domain : layout.frame \in [domain -> Nat]
    BY PoolAssumption, Zenon
  <2> QED
    BY <2>1
<1>2. r \in 0 .. OSPageSize - 1
  BY DivMod, Sizes
<1>3. VirtToPhys(v) = frame * OSPageSize + r
  BY DEF VirtToPhys
<1> HIDE DEF frame, r
<1>4. frame * OSPageSize + r \in Nat
  BY <1>1, <1>2, Sizes
<1>5. /\ (frame * OSPageSize + r) \div OSPageSize = frame
      /\ (frame * OSPageSize + r) % OSPageSize = r
  BY <1>1, <1>2, DivUnique, Sizes
<1> QED
  BY <1>1, <1>3, <1>4, <1>5 DEF frame, r

(* No two bytes share a physical address.                                  *)
LEMMA PhysInjective ==
  ASSUME layout \in Layouts, Disjoint(layout),
         NEW v \in Nat, v \div OSPageSize \in DOMAIN layout.frame,
         NEW w \in Nat, w \div OSPageSize \in DOMAIN layout.frame,
         VirtToPhys(v) = VirtToPhys(w)
  PROVE  v = w
<1>1. /\ layout.frame[v \div OSPageSize] = layout.frame[w \div OSPageSize]
      /\ v % OSPageSize = w % OSPageSize
  BY PhysParts
<1>2. v \div OSPageSize = w \div OSPageSize
  BY <1>1 DEF Disjoint
<1> QED
  BY <1>1, <1>2, DivMod, Sizes, Zenon

(* Inside a page both kinds of addresses advance together.                 *)
LEMMA OffsetInPage ==
  ASSUME layout \in Layouts, Contiguous(layout),
         NEW k \in DOMAIN layout.pages, NEW d \in 0 .. page_size - 1
  PROVE  VirtToPhys(layout.pages[k] + d) = VirtToPhys(layout.pages[k]) + d
<1> DEFINE base == layout.pages[k]
           B == base \div OSPageSize
           n == page_size \div OSPageSize
           p == d \div OSPageSize
           r == d % OSPageSize
           F == layout.frame[B]
<1>1. base \in Nat /\ B \in Nat /\ base = B * OSPageSize
  BY PageStart, DivMod, Sizes, Zenon
<1>2. /\ p \in Nat /\ r \in 0 .. OSPageSize - 1
      /\ d = p * OSPageSize + r
  <2>1. d \in Nat
    BY Sizes
  <2> QED
    BY <2>1, DivMod, Sizes, Zenon
<1>3. p < n
  <2>1. n \in Nat /\ page_size = n * OSPageSize
    BY DivMod, Sizes
  <2> HIDE DEF n, p, r
  <2>2. p * OSPageSize < n * OSPageSize
    BY <1>2, <2>1, Sizes
  <2> QED
    BY <1>2, <2>1, <2>2, Cancel, Sizes
<1>4. F \in Nat /\ layout.frame[B + p] = F + p
  <2>1. B \in DOMAIN layout.frame
    <3>1. 0 \in 0 .. page_size - 1
      BY Sizes
    <3>2. (base + 0) \div OSPageSize \in DOMAIN layout.frame
      BY <3>1, InPage
    <3>3. base + 0 = base
      BY <1>1
    <3> QED
      BY <3>2, <3>3
  <2>2. F \in Nat
    BY <1>1, <2>1, PhysParts
  <2>3. CASE p = 0
    BY <1>1, <2>2, <2>3
  <2>4. CASE p # 0
    <3>1. p \in 1 .. n - 1
      BY <1>2, <1>3, <2>4, DivMod, Sizes
    <3> HIDE DEF p
    <3> QED
      BY <2>2, <3>1 DEF Contiguous
  <2> QED
    BY <2>3, <2>4
<1> HIDE DEF B, n, p, r, F, base
<1>5. base + d = (B + p) * OSPageSize + r
  BY <1>1, <1>2, Distribute, Sizes
<1>6. (base + d) \div OSPageSize = B + p /\ (base + d) % OSPageSize = r
  BY <1>1, <1>2, <1>5, DivUnique, Sizes, B + p \in Nat
<1>7. base \div OSPageSize = B /\ base % OSPageSize = 0
  BY <1>1, DivUnique, Sizes, B * OSPageSize + 0 = base, 0 \in 0 .. OSPageSize - 1
<1>8. VirtToPhys(base + d) = (F + p) * OSPageSize + r
  BY <1>4, <1>6 DEF VirtToPhys
<1>9. VirtToPhys(base) = F * OSPageSize + 0
  BY <1>7 DEF VirtToPhys, F
<1>10. (F + p) * OSPageSize + r = F * OSPageSize + 0 + d
  BY <1>2, <1>4, Distribute, Sizes
<1> QED
  BY <1>8, <1>9, <1>10 DEF base

(* The state between InitMemoryPool and FreeMemoryPool.                    *)
SetUp ==
  /\ layout \in Layouts
  /\ Len(layout.pages) >= num_pages
  /\ pages = SubSeq(layout.pages, 1, num_pages)

(* Once it is set up, the pool has the pages that were mapped.             *)
LEMMA PagesOfPool ==
  ASSUME SetUp
  PROVE  /\ DOMAIN pages = 1 .. num_pages
         /\ \A k \in DOMAIN pages :
              k \in DOMAIN layout.pages /\ pages[k] = layout.pages[k]
<1>1. layout.pages \in Seq({v \in Nat : v > 0 /\ v % page_size = 0})
  BY PoolAssumption, Zenon DEF SetUp
<1> HIDE DEF VirtToPhys
<1> QED
  BY <1>1, Sizes DEF SetUp

(* A page that finds a physical address finds it at the address it is of.  *)
LEMMA FoundAtHome ==
  ASSUME SetUp, Contiguous(layout), Disjoint(layout),
         NEW v \in Nat, v \div OSPageSize \in DOMAIN layout.frame,
         NEW k \in DOMAIN pages, Finds(k, VirtToPhys(v))
  PROVE  /\ At(k, VirtToPhys(v)) = v
         /\ v - pages[k] \in 0 .. page_size - 1
<1> DEFINE base == pages[k]
           last == page_size - granularity
           d == VirtToPhys(v) - VirtToPhys(base)
<1>1. /\ layout \in Layouts /\ k \in DOMAIN layout.pages
      /\ base = layout.pages[k] /\ base \in Nat
  BY PagesOfPool, PageStart, Zenon DEF SetUp
<1>2. last \in 0 .. page_size - 1
  BY Sizes
<1>3. LastLine(k) = base + last
  BY <1>1, Sizes DEF LastLine
<1>4. VirtToPhys(base + last) = VirtToPhys(base) + last
  BY <1>1, <1>2, OffsetInPage
<1>5. VirtToPhys(base) \in Nat /\ VirtToPhys(v) \in Nat
  <2>1. 0 \in 0 .. page_size - 1
    BY Sizes
  <2>2. base + 0 = base
    BY <1>1
  <2>3. base \div OSPageSize \in DOMAIN layout.frame
    BY <1>1, <2>1, <2>2, InPage
  <2> QED
    BY <1>1, <2>3, PhysParts
<1>6. Holds(k, VirtToPhys(v)) /\ d \in 0 .. last
  <2> HIDE DEF last
  <2> QED
    BY <1>2, <1>3, <1>4, <1>5 DEF Finds, Holds, HoldsBackwards
<1>7. d \in 0 .. page_size - 1
  <2> HIDE DEF d, last
  <2> QED
    BY <1>2, <1>6, Sizes
<1>8. VirtToPhys(base + d) = VirtToPhys(v)
  <2>1. VirtToPhys(base + d) = VirtToPhys(base) + d
    <3> HIDE DEF d
    <3> QED
      BY <1>1, <1>7, OffsetInPage
  <2> QED
    BY <1>5, <2>1
<1>9. base + d = v
  <2> HIDE DEF d
  <2>1. base + d \in Nat /\ (base + d) \div OSPageSize \in DOMAIN layout.frame
    BY <1>1, <1>7, InPage
  <2> QED
    BY <1>1, <1>8, <2>1, PhysInjective
<1> QED
  BY <1>1, <1>6, <1>7, <1>9 DEF At

(* So one page at most finds it.                                           *)
LEMMA OnePageFinds ==
  ASSUME SetUp, Contiguous(layout), Disjoint(layout),
         NEW v \in Nat, v \div OSPageSize \in DOMAIN layout.frame,
         NEW k \in DOMAIN pages, Finds(k, VirtToPhys(v)),
         NEW l \in DOMAIN pages, Finds(l, VirtToPhys(v))
  PROVE  k = l
<1>1. /\ v - pages[k] \in 0 .. page_size - 1
      /\ v - pages[l] \in 0 .. page_size - 1
  BY FoundAtHome
<1>2. /\ layout \in Layouts
      /\ k \in DOMAIN layout.pages /\ pages[k] = layout.pages[k]
      /\ l \in DOMAIN layout.pages /\ pages[l] = layout.pages[l]
  BY PagesOfPool, Zenon DEF SetUp
<1>3. /\ pages[k] \in Nat /\ pages[k] = (pages[k] \div page_size) * page_size
      /\ pages[l] \in Nat /\ pages[l] = (pages[l] \div page_size) * page_size
  BY <1>2, PageStart
<1>4. /\ pages[k] \div page_size \in Nat
      /\ pages[l] \div page_size \in Nat
  BY <1>3, DivMod, Sizes, Zenon
<1>5. /\ v = (pages[k] \div page_size) * page_size + (v - pages[k])
      /\ v = (pages[l] \div page_size) * page_size + (v - pages[l])
  BY <1>3
<1>6. /\ v \div page_size = pages[k] \div page_size
      /\ v \div page_size = pages[l] \div page_size
  <2>1. ASSUME NEW Q \in Nat, NEW r \in 0 .. page_size - 1, v = Q * page_size + r
        PROVE  v \div page_size = Q
    BY <2>1, DivUnique, Sizes
  <2> QED
    BY <1>1, <1>4, <1>5, <2>1
<1>7. pages[k] = pages[l]
  BY <1>3, <1>6
<1>8. \A m, n \in DOMAIN layout.pages : m # n => layout.pages[m] # layout.pages[n]
  BY <1>2, PoolAssumption, Zenon
<1> QED
  BY <1>2, <1>7, <1>8, Zenon

(* What PhysToVirt answers if a page finds the address, and if none does.  *)
LEMMA Answer ==
  ASSUME SetUp, Contiguous(layout), Disjoint(layout),
         NEW v \in Nat, v \div OSPageSize \in DOMAIN layout.frame
  PROVE  PhysToVirt(VirtToPhys(v)) =
           IF \E k \in DOMAIN pages : Finds(k, VirtToPhys(v)) THEN v ELSE 0
<1> DEFINE p == VirtToPhys(v)
           Answers(vaddr) ==
             \E k \in DOMAIN pages :
               /\ Finds(k, p) /\ vaddr = At(k, p)
               /\ \A l \in 1 .. k - 1 : ~Finds(l, p)
<1>1. CASE \A k \in DOMAIN pages : ~Finds(k, p)
  BY <1>1 DEF PhysToVirt
<1>2. CASE \E k \in DOMAIN pages : Finds(k, p)
  <2>1. PICK k \in DOMAIN pages : Finds(k, p)
    BY <1>2
  <2>2. \A l \in DOMAIN pages : Finds(l, p) => At(l, p) = v
    BY FoundAtHome
  <2>3. \A l \in 1 .. k - 1 : ~Finds(l, p)
    <3>1. SUFFICES ASSUME NEW l \in 1 .. k - 1, Finds(l, p) PROVE FALSE
      OBVIOUS
    <3>2. l \in DOMAIN pages /\ l # k /\ DOMAIN pages = 1 .. num_pages
      BY PagesOfPool, Sizes
    <3>3. l = k
      BY <2>1, <3>1, <3>2, OnePageFinds
    <3> QED
      BY <3>2, <3>3
  <2> HIDE DEF p
  <2>4. v \in {At(l, p) : l \in DOMAIN pages} /\ Answers(v)
    BY <2>1, <2>2, <2>3
  <2>5. \A vaddr : Answers(vaddr) => vaddr = v
    BY <2>2
  <2>6. PhysToVirt(p) = CHOOSE vaddr \in {At(l, p) : l \in DOMAIN pages} : Answers(vaddr)
    BY <1>2 DEF PhysToVirt
  <2> HIDE DEF Answers
  <2>7. PhysToVirt(p) = v
    BY <2>4, <2>5, <2>6
  <2> QED
    BY <1>2, <2>7 DEF p
<1> QED
  BY <1>1, <1>2

(* The page of a line of the pool finds it.                                *)
LEMMA LineIsFound ==
  ASSUME SetUp, Contiguous(layout), NEW v \in PoolLines
  PROVE  /\ v \in Nat /\ v \div OSPageSize \in DOMAIN layout.frame
         /\ \E k \in DOMAIN pages : Finds(k, VirtToPhys(v))
<1> DEFINE lines == page_size \div granularity
           last == page_size - granularity
<1>1. PICK k \in DOMAIN pages, line \in 0 .. lines - 1 :
        v = pages[k] + line * granularity
  BY DEF PoolLines
<1> DEFINE base == pages[k]
           d == line * granularity
<1>2. /\ layout \in Layouts /\ k \in DOMAIN layout.pages
      /\ base = layout.pages[k] /\ base \in Nat
  BY PagesOfPool, PageStart, Zenon DEF SetUp
<1>3. lines \in Nat /\ page_size = lines * granularity
  BY DivMod, Sizes
<1>4. d \in 0 .. last
  <2> HIDE DEF lines
  <2>1. line \in Nat /\ lines - 1 - line \in Nat
    BY <1>3
  <2>2. lines = (line + (lines - 1 - line)) + 1
    BY <1>3, <2>1
  <2>3. page_size = line * granularity + (lines - 1 - line) * granularity + 1 * granularity
    <3>1. line + (lines - 1 - line) \in Nat
      BY <2>1
    <3>2. page_size = (line + (lines - 1 - line)) * granularity + 1 * granularity
      BY <1>3, <2>2, <3>1, Distribute, Sizes
    <3>3. (line + (lines - 1 - line)) * granularity
            = line * granularity + (lines - 1 - line) * granularity
      BY <2>1, Distribute, Sizes
    <3> QED
      BY <3>2, <3>3
  <2>4. line * granularity \in Nat /\ (lines - 1 - line) * granularity \in Nat
    BY <2>1, Sizes
  <2> QED
    BY <2>3, <2>4, Sizes
<1> HIDE DEF d, lines
<1>5. d \in 0 .. page_size - 1 /\ last \in 0 .. page_size - 1
  BY <1>4, Sizes
<1>6. /\ VirtToPhys(base + d) = VirtToPhys(base) + d
      /\ VirtToPhys(base + last) = VirtToPhys(base) + last
  BY <1>2, <1>5, OffsetInPage
<1>7. v = base + d /\ LastLine(k) = base + last
  BY <1>1, <1>2, Sizes DEF LastLine, d
<1>8. v \in Nat /\ v \div OSPageSize \in DOMAIN layout.frame
  BY <1>2, <1>5, <1>7, InPage
<1>9. VirtToPhys(base) \in Nat
  <2>1. 0 \in 0 .. page_size - 1
    BY Sizes
  <2>2. base + 0 = base
    BY <1>2
  <2>3. base \div OSPageSize \in DOMAIN layout.frame
    BY <1>2, <2>1, <2>2, InPage
  <2> QED
    BY <1>2, <2>3, PhysParts
<1>10. Finds(k, VirtToPhys(v))
  <2> HIDE DEF last
  <2> QED
    BY <1>4, <1>5, <1>6, <1>7, <1>9 DEF Finds, Holds
<1> QED
  BY <1>8, <1>10

(* Both directions, in every pool that is set up.                          *)
LEMMA SetUpTranslates ==
  ASSUME SetUp
  PROVE  Translates
<1> SUFFICES ASSUME Contiguous(layout), Disjoint(layout)
    PROVE  /\ \A v \in PoolLines : PhysToVirt(VirtToPhys(v)) = v
           /\ \A part \in DOMAIN layout.frame, byte \in 0 .. OSPageSize - 1 :
                PhysToVirt(VirtToPhys(part * OSPageSize + byte))
                  \in {0, part * OSPageSize + byte}
  BY DEF Translates
<1>1. ASSUME NEW v \in PoolLines PROVE PhysToVirt(VirtToPhys(v)) = v
  BY LineIsFound, Answer
<1>2. ASSUME NEW part \in DOMAIN layout.frame, NEW byte \in 0 .. OSPageSize - 1
      PROVE  PhysToVirt(VirtToPhys(part * OSPageSize + byte))
               \in {0, part * OSPageSize + byte}
  <2>1. part \in Nat
    <3>1. DOMAIN layout.frame =
            {v \div OSPageSize : v \in
               UNION {layout.pages[l] .. layout.pages[l] + page_size - 1 :
                        l \in DOMAIN layout.pages}}
      BY PoolAssumption, Zenon DEF SetUp
    <3>2. PICK l \in DOMAIN layout.pages :
            \E v \in layout.pages[l] .. layout.pages[l] + page_size - 1 :
              part = v \div OSPageSize
      BY <3>1
    <3>3. layout.pages[l] \in Nat
      BY PageStart DEF SetUp
    <3>4. PICK v \in layout.pages[l] .. layout.pages[l] + page_size - 1 :
            part = v \div OSPageSize
      BY <3>2
    <3>5. v \in Nat
      BY <3>3, Sizes
    <3> QED
      BY <3>4, <3>5, DivMod, Sizes, Zenon
  <2> DEFINE v == part * OSPageSize + byte
  <2>2. v \in Nat
    BY <2>1, Sizes
  <2>3. v \div OSPageSize = part
    BY <2>1, DivUnique, Sizes
  <2> HIDE DEF v
  <2>4. PhysToVirt(VirtToPhys(v)) \in {0, v}
    BY <2>2, <2>3, Answer
  <2> QED
    BY <2>4 DEF v
<1> QED
  BY <1>1, <1>2

(* As soon as a pool is set up, every line of it is found again from its   *)
(* physical address, and no byte is taken for another; later steps do not  *)
(* move a page.                                                            *)
LEMMA StepTranslates ==
  ASSUME layout \in Layouts, InitMemoryPool \/ FreeMemoryPool \/ UNCHANGED pages
  PROVE  [pages = <<>> => Translates']_pages
<1> SUFFICES ASSUME pages = <<>>, pages' # pages PROVE Translates'
  OBVIOUS
<1>1. InitMemoryPool
  BY DEF FreeMemoryPool
<1>2. SetUp'
  BY <1>1 DEF InitMemoryPool, SetUp
<1>3. SetUp' => Translates'
  BY SetUpTranslates, PTL
<1> QED
  BY <1>2, <1>3

-----------------------------------------------------------------------------
(* A step sets the pool up, releases it or leaves it alone.                *)
LEMMA PoolSteps ==
  ASSUME [Next]_vars
  PROVE  layout' = layout /\ (InitMemoryPool \/ FreeMemoryPool \/ UNCHANGED pages)
<1>1. CASE UNCHANGED vars
  BY <1>1 DEF vars
<1>2. CASE Initialize
  BY <1>2 DEF Initialize, InitMemoryPool
<1>3. CASE InitializeFails
  BY <1>3 DEF InitializeFails, MapFails
<1>4. CASE UnsupportedMode
  BY <1>4 DEF UnsupportedMode
<1>5. CASE DrawFirst \/ DrawSecond \/ DrawPartner \/ DrawStreams \/ StreamsMissed
  BY <1>5 DEF DrawFirst, DrawSecond, DrawPartner, DrawStreams, StreamsMissed, Round
<1>6. CASE PartnerMissed \/ Terminated
  BY <1>6 DEF PartnerMissed, Terminated, vars
<1>7. CASE LogStatistics \/ ScoreInterval \/ AddLatency
  BY <1>7 DEF LogStatistics, ScoreInterval, AddLatency, Measured, Round
<1>8. CASE EndLog \/ LabelFunction \/ RecordLatency
  BY <1>8 DEF EndLog, LabelFunction, RecordLatency, EndLoop
<1>9. CASE Finalize
  BY <1>9 DEF Finalize, FreeMemoryPool
<1> QED
  BY <1>1, <1>2, <1>3, <1>4, <1>5, <1>6, <1>7, <1>8, <1>9 DEF Next

(* As soon as a session has its pool, every line of it is found again from *)
(* its physical address by PhysToVirt, and no byte is taken for another:   *)
(* whatever the sizes, the number of the pages and the frames they lie on. *)
THEOREM PoolTranslates == Spec => TranslationsInvert
<1>1. Init => layout \in Layouts
  BY DEF Init, InitPool
<1>2. layout \in Layouts /\ [Next]_vars => (layout \in Layouts)'
  BY PoolSteps
<1>3. layout \in Layouts /\ [Next]_vars => [pages = <<>> => Translates']_pages
  BY PoolSteps, StepTranslates
<1> QED
  BY <1>1, <1>2, <1>3, PTL DEF Spec, TranslationsInvert

-----------------------------------------------------------------------------
(* Wider words hold more numbers.                                          *)
LEMMA PowersGrow ==
  ASSUME NEW a \in Nat, NEW b \in Nat, a <= b
  PROVE  2^a <= 2^b /\ 2^b % 2^a = 0
<1>1. b - a \in Nat /\ b = a + (b - a)
  OBVIOUS
<1>2. 2^b = 2^a * 2^(b - a)
  BY <1>1, PowerSum
<1>3. 2^a \in Nat \ {0} /\ 2^(b - a) \in Nat \ {0}
  BY <1>1, TwoPower
<1>4. \A x, y \in Nat \ {0} : x <= x * y
  OBVIOUS
<1>5. \A x, y \in Nat \ {0} : (x * y) % x = 0
  <2>. TAKE x, y \in Nat \ {0}
  <2>1. x * y = y * x + 0 /\ 0 \in 0 .. x - 1
    OBVIOUS
  <2>. QED
    BY <2>1, DivUnique
<1>. QED
  BY <1>2, <1>3, <1>4, <1>5, Zenon

(* The machine of a session: the hole begins and ends with a line, and the *)
(* memory with the hole fits into a word.                                  *)
MachineFits ==
  /\ PCI_OFFSET \in Nat /\ PCI_OFFSET % granularity = 0
  /\ command.PCI_LOWER \in Nat /\ command.PCI_UPPER \in Nat
  /\ command.PCI_UPPER = command.PCI_LOWER + PCI_OFFSET
  /\ command.PCI_LOWER % granularity = 0 /\ command.PCI_UPPER % granularity = 0
  /\ 2^max_bits_ + PCI_OFFSET <= 2^WordBits
  /\ max_bits_ <= WordBits
  /\ 2^WordBits % granularity = 0
  /\ LineBit \subseteq 0 .. WordBits - 1

(* Every command has such a machine.                                       *)
LEMMA MachineOfSession ==
  ASSUME command \in Commands
  PROVE  MachineFits
<1>1. /\ command.PCI_LOWER \in Nat /\ command.PCI_UPPER \in Nat
      /\ command.PCI_LOWER % granularity = 0 /\ command.PCI_UPPER % granularity = 0
      /\ command.PCI_LOWER <= command.PCI_UPPER
      /\ 2^max_bits_ + PCI_OFFSET <= 2^WordBits
      /\ CACHELINE_OFFSET < max_bits_
  BY SessionAssumption, Zenon DEF PCI_OFFSET
<1>2. PCI_OFFSET \in Nat /\ command.PCI_UPPER = command.PCI_LOWER + PCI_OFFSET
  BY <1>1 DEF PCI_OFFSET
<1>3. PCI_OFFSET % granularity = 0
  <2>1. granularity \in Nat \ {0}
    BY Sizes
  <2>2. command.PCI_UPPER \in Int /\ command.PCI_LOWER \in Int
    BY <1>1
  <2>. QED
    BY <1>1, <2>1, <2>2, Multiples, Zenon DEF PCI_OFFSET
<1>4. max_bits_ <= WordBits
  <2>1. SUFFICES ASSUME WordBits + 1 <= max_bits_ PROVE FALSE
    BY Widths
  <2>2. WordBits + 1 \in Nat
    BY Widths
  <2>3. 2^(WordBits + 1) <= 2^max_bits_ /\ 2^(WordBits + 1) = 2 * 2^WordBits
    BY <2>1, <2>2, PowersGrow, TwoPower, Widths
  <2>. DEFINE P == 2^WordBits
              Q == 2^max_bits_
  <2>4. P \in Nat \ {0} /\ Q \in Nat /\ 2 * P <= Q /\ Q + PCI_OFFSET <= P
    BY <1>1, <2>3, TwoPower, Widths
  <2>. HIDE DEF P, Q
  <2>. QED
    BY <1>2, <2>4
<1>5. 2^WordBits % granularity = 0
  BY <1>1, <1>4, PowersGrow, Widths
<1>6. LineBit \subseteq 0 .. WordBits - 1
  BY <1>4, Widths DEF LineBit
<1>. QED
  BY <1>1, <1>2, <1>3, <1>4, <1>5, <1>6 DEF MachineFits

(* The words of lines have no bit of the place in a line.                  *)
LineWords == SUBSET (CACHELINE_OFFSET .. WordBits - 1)

(* The words that are searched are some of them.                           *)
LEMMA LineWordsAreWords ==
  /\ LineWords \subseteq Words
  /\ MachineFits => SUBSET LineBit \subseteq LineWords
<1>1. CACHELINE_OFFSET .. WordBits - 1 \subseteq 0 .. WordBits - 1
  BY Widths
<1>2. MachineFits => LineBit \subseteq CACHELINE_OFFSET .. WordBits - 1
  BY Widths DEF MachineFits, LineBit
<1>. QED
  BY <1>1, <1>2 DEF LineWords, Words

(* Taking the offset off undoes adding it, both ways, and neither leaves a *)
(* word or changes the place in a line.                                    *)
LEMMA OffsetRoundTrip ==
  ASSUME MachineFits
  PROVE  /\ \A word \in Words :
              Physical(word) \in Numbers /\ WithoutOffset(Physical(word)) = word
         /\ \A word \in LineWords : Physical(word) % granularity = 0
         /\ \A paddr \in Numbers : WithoutOffset(paddr) \in Words
<1>. DEFINE P == 2^WordBits
<1>1. P \in Nat \ {0} /\ Numbers = 0 .. P - 1 /\ PCI_OFFSET \in Int
  BY Widths DEF Numbers, MachineFits
<1>. HIDE DEF P
<1>2. ASSUME NEW n \in Int PROVE n % P \in Numbers
  BY <1>1, <1>2, ModDiv
<1>3. ASSUME NEW word \in Words
      PROVE  Physical(word) \in Numbers /\ WithoutOffset(Physical(word)) = word
  <2>1. Num[word] \in Numbers /\ Bits[Num[word]] = word
    BY NumIsInverse
  <2>2. Num[word] + PCI_OFFSET \in Int
    BY <1>1, <2>1
  <2>3. Physical(word) = (Num[word] + PCI_OFFSET) % P
    BY DEF Physical, P
  <2>4. (Physical(word) - PCI_OFFSET) % P = Num[word]
    BY <1>1, <2>1, <2>3, AddAndTakeOff, Zenon
  <2>5. WithoutOffset(Physical(word)) = Bits[(Physical(word) - PCI_OFFSET) % P]
    BY DEF WithoutOffset, P
  <2>. QED
    BY <1>2, <2>1, <2>2, <2>3, <2>4, <2>5
<1>4. ASSUME NEW word \in LineWords PROVE Physical(word) % granularity = 0
  <2>1. word \in Words
    BY LineWordsAreWords
  <2>2. Num[word] \in Numbers /\ Bits[Num[word]] = word
    BY <2>1, NumIsInverse
  <2>3. 0 \in Numbers /\ CACHELINE_OFFSET \in 0 .. WordBits
    BY <1>1, Widths, SessionAssumption DEF MachineFits
  <2>4. ASSUME NEW b \in 0 .. CACHELINE_OFFSET - 1 PROVE b \notin Bits[Num[word]] /\ b \notin Bits[0]
    <3>1. b \notin word
      <4>1. b < CACHELINE_OFFSET
        BY Widths
      <4>2. \A c \in CACHELINE_OFFSET .. WordBits - 1 : CACHELINE_OFFSET <= c
        BY Widths
      <4>. QED
        BY <4>1, <4>2, Widths DEF LineWords
    <3>2. b \in 0 .. WordBits - 1
      BY <2>3, Widths
    <3>3. Digit(0, b) = 0
      <4>1. 2^b \in Nat \ {0}
        BY <3>2, TwoPower
      <4>2. \A x \in Nat \ {0} : 0 \div x = 0
        OBVIOUS
      <4>. QED
        BY <4>1, <4>2 DEF Digit
    <3>4. b \in Bits[0] <=> Digit(0, b) = 1
      BY <2>3, <3>2, BitsAre
    <3>. QED
      BY <2>2, <3>1, <3>3, <3>4
  <2>5. Num[word] % 2^CACHELINE_OFFSET = 0 % 2^CACHELINE_OFFSET
    BY <2>2, <2>3, <2>4, SameLowBits
  <2>6. granularity \in Nat \ {0} /\ 2^CACHELINE_OFFSET = granularity
    BY Sizes, Widths
  <2>7. 0 % granularity = 0
    BY <2>6
  <2>8. Num[word] \in Int /\ Num[word] % granularity = 0
    BY <1>1, <2>2, <2>5, <2>6, <2>7
  <2>9. (Num[word] + PCI_OFFSET) % granularity = 0 /\ Num[word] + PCI_OFFSET \in Int
    <3>1. PCI_OFFSET \in Int /\ PCI_OFFSET % granularity = 0
      BY <1>1 DEF MachineFits
    <3>2. (Num[word] + PCI_OFFSET) % granularity = 0
      BY <2>6, <2>8, <3>1, Multiples
    <3>. QED
      BY <2>8, <3>1, <3>2
  <2>10. P \in Int /\ P % granularity = 0
    BY <1>1 DEF MachineFits, P
  <2>11. ((Num[word] + PCI_OFFSET) % P) % granularity = 0
    BY <1>1, <2>6, <2>9, <2>10, Multiples, Zenon
  <2>. QED
    BY <2>11 DEF Physical, P
<1>5. ASSUME NEW paddr \in Numbers PROVE WithoutOffset(paddr) \in Words
  <2>1. paddr - PCI_OFFSET \in Int
    BY <1>1
  <2>2. (paddr - PCI_OFFSET) % P \in Numbers
    BY <1>2, <2>1
  <2>3. WithoutOffset(paddr) = Bits[(paddr - PCI_OFFSET) % P]
    BY DEF WithoutOffset, P
  <2>. QED
    BY <2>2, <2>3, BitsAre
<1>. QED
  BY <1>3, <1>4, <1>5

-----------------------------------------------------------------------------
(* A page of the pool is one of mmap, with its frames.                     *)
LEMMA PoolPages ==
  ASSUME SetUp, NEW k \in DOMAIN pages
  PROVE  /\ layout \in Layouts /\ k \in DOMAIN layout.pages
         /\ pages[k] = layout.pages[k]
         /\ pages[k] \in Nat /\ pages[k] % granularity = 0
         /\ \A d \in 0 .. page_size - 1 :
              /\ pages[k] + d \in Nat
              /\ (pages[k] + d) \div OSPageSize \in DOMAIN layout.frame
<1>1. /\ layout \in Layouts /\ k \in DOMAIN layout.pages
      /\ pages[k] = layout.pages[k]
  BY PagesOfPool, Zenon DEF SetUp
<1>2. /\ pages[k] \in Nat
      /\ pages[k] = (pages[k] \div page_size) * page_size
  BY <1>1, PageStart
<1>3. pages[k] % granularity = 0
  <2>. DEFINE Q == pages[k] \div page_size
              lines == page_size \div granularity
  <2>1. Q \in Nat /\ pages[k] = Q * page_size
    BY <1>2, DivMod, Sizes
  <2>2. lines \in Nat /\ page_size = lines * granularity
    BY DivMod, Sizes
  <2>. HIDE DEF Q, lines
  <2>3. pages[k] = (Q * lines) * granularity
    BY <2>1, <2>2, Associate, Sizes
  <2>4. Q * lines \in Nat
    BY <2>1, <2>2
  <2>5. \A n \in Nat : (n * granularity) % granularity = 0
    <3>. TAKE n \in Nat
    <3>1. n * granularity + 0 = n * granularity /\ 0 \in 0 .. granularity - 1
      BY Sizes
    <3>. QED
      BY <3>1, DivUnique, Sizes
  <2>. QED
    BY <2>3, <2>4, <2>5
<1>4. ASSUME NEW d \in 0 .. page_size - 1
      PROVE  /\ pages[k] + d \in Nat
             /\ (pages[k] + d) \div OSPageSize \in DOMAIN layout.frame
  BY <1>1, InPage
<1>. QED
  BY <1>1, <1>2, <1>3, <1>4

(* The lines of a page: the multiples of the line size that it holds.      *)
LEMMA LinesOfPage ==
  /\ page_size - granularity \in 0 .. page_size - 1
  /\ \A d \in 0 .. page_size - 1 :
       d \div granularity \in 0 .. (page_size \div granularity) - 1
  /\ \A line \in 0 .. (page_size \div granularity) - 1 :
       line * granularity \in 0 .. page_size - granularity
<1>. DEFINE lines == page_size \div granularity
<1>1. lines \in Nat /\ page_size = lines * granularity
  BY DivMod, Sizes
<1>. HIDE DEF lines
<1>2. ASSUME NEW d \in 0 .. page_size - 1 PROVE d \div granularity \in 0 .. lines - 1
  <2>. DEFINE q == d \div granularity
              r == d % granularity
  <2>1. d \in Nat
    BY Sizes
  <2>2. q \in Nat /\ r \in 0 .. granularity - 1 /\ d = q * granularity + r
    BY <2>1, DivMod, Sizes, Zenon
  <2>. HIDE DEF q, r
  <2>3. q * granularity \in Nat
    BY <2>2, Sizes
  <2>4. q * granularity < lines * granularity
    BY <1>1, <2>2, <2>3, Sizes
  <2>5. q < lines
    BY <1>1, <2>2, <2>4, Cancel, Sizes
  <2>6. q \in 0 .. lines - 1
    BY <1>1, <2>2, <2>5
  <2>. QED
    BY <2>6 DEF q
<1>3. ASSUME NEW line \in 0 .. lines - 1
      PROVE  line * granularity \in 0 .. page_size - granularity
  <2>. DEFINE rest == lines - 1 - line
  <2>1. line \in Nat /\ rest \in Nat /\ lines = (line + rest) + 1 /\ line + rest \in Nat
    BY <1>1
  <2>. HIDE DEF rest
  <2>2. page_size = (line * granularity + rest * granularity) + 1 * granularity
    BY <1>1, <2>1, Distribute, Sizes
  <2>3. line * granularity \in Nat /\ rest * granularity \in Nat
    BY <2>1, Sizes
  <2>. QED
    BY <2>2, <2>3, Sizes
<1>4. page_size - granularity \in 0 .. page_size - 1
  BY Sizes
<1>. QED
  BY <1>2, <1>3, <1>4 DEF lines

(* Random tuples are lines of the pool with their physical addresses.      *)
LEMMA RandomTuplesAreLines ==
  ASSUME NEW tuple \in RandomAddressTuples
  PROVE  IsLine(tuple)
<1>1. PICK k \in DOMAIN pages, offset \in 0 .. page_size - 1 :
        tuple = Tuple(pages[k] + (offset \div granularity) * granularity)
  BY DEF RandomAddressTuples
<1>2. offset \div granularity \in 0 .. (page_size \div granularity) - 1
  BY LinesOfPage
<1>3. pages[k] + (offset \div granularity) * granularity \in PoolLines
  BY <1>2 DEF PoolLines
<1>. QED
  BY <1>1, <1>3 DEF Tuple, IsLine

(* A line has a physical address of the memory, outside of the hole.       *)
InMemory(paddr) ==
  /\ paddr \in Numbers /\ paddr % granularity = 0
  /\ paddr < 2^max_bits_ + PCI_OFFSET
  /\ paddr < command.PCI_LOWER \/ paddr >= command.PCI_UPPER

(* The physical address of every line of the pool is one.                  *)
LEMMA LinesAreInMemory ==
  ASSUME SetUp, Fits, MachineFits, NEW v \in PoolLines
  PROVE  /\ v \in Nat /\ v \div OSPageSize \in DOMAIN layout.frame
         /\ InMemory(VirtToPhys(v))
<1>1. PICK k \in DOMAIN pages, line \in 0 .. (page_size \div granularity) - 1 :
        v = pages[k] + line * granularity
  BY DEF PoolLines
<1>. DEFINE d == line * granularity
<1>2. d \in 0 .. page_size - 1 /\ d \in Nat
  BY LinesOfPage, Sizes
<1>3. v \in Nat /\ v \div OSPageSize \in DOMAIN layout.frame /\ layout \in Layouts
  BY <1>1, <1>2, PoolPages
<1>4. v % granularity = 0
  <2>1. line \in Nat
    BY <1>1, DivMod, Sizes
  <2>2. d % granularity = 0
    <3>1. line * granularity + 0 = line * granularity /\ 0 \in 0 .. granularity - 1
      BY <2>1, Sizes
    <3>. QED
      BY <2>1, <3>1, DivUnique, Sizes
  <2>3. pages[k] \in Int /\ d \in Int /\ pages[k] % granularity = 0
    BY <1>2, PoolPages
  <2>. HIDE DEF d
  <2>4. (pages[k] + d) % granularity = 0
    BY <2>2, <2>3, Multiples, Sizes
  <2>. QED
    BY <1>1, <2>4 DEF d
<1>. DEFINE part == v \div OSPageSize
            p == layout.frame[part] * OSPageSize
            r == v % OSPageSize
<1>5. /\ layout.frame[part] \in Nat /\ r \in 0 .. OSPageSize - 1
      /\ p \in Nat /\ VirtToPhys(v) = p + r
  <2>1. layout.frame[part] \in Nat
    BY <1>3, PhysParts
  <2>2. r \in 0 .. OSPageSize - 1
    BY <1>3, DivMod, Sizes
  <2>3. VirtToPhys(v) = p + r
    BY DEF VirtToPhys
  <2>4. \A n \in Nat : n * OSPageSize \in Nat
    BY Sizes
  <2>. QED
    BY <2>1, <2>2, <2>3, <2>4
<1>6. /\ p + OSPageSize <= command.PCI_LOWER \/ p >= command.PCI_UPPER
      /\ p + OSPageSize <= 2^max_bits_ + PCI_OFFSET
  BY <1>3 DEF Fits
<1>7. r % granularity = 0 /\ p % granularity = 0
  <2>1. OSPageSize % granularity = 0
    BY SessionAssumption
  <2>2. \A n \in Nat : (n * OSPageSize) % granularity = 0
    <3>. TAKE n \in Nat
    <3>. DEFINE s == OSPageSize \div granularity
    <3>1. s \in Nat /\ OSPageSize = s * granularity + 0
      BY <2>1, DivMod, Sizes
    <3>. HIDE DEF s
    <3>2. n * OSPageSize = (n * s) * granularity /\ n * s \in Nat
      BY <3>1, Associate, Sizes
    <3>. DEFINE m == n * s
    <3>3. m \in Nat /\ n * OSPageSize = m * granularity + 0
      BY <3>2, Sizes
    <3>. HIDE DEF m
    <3>4. (m * granularity + 0) % granularity = 0
      BY <3>3, DivUnique, Sizes, 0 \in 0 .. granularity - 1
    <3>. QED
      BY <3>3, <3>4
  <2>3. v = part * OSPageSize + r /\ part \in Nat
    BY <1>3, DivMod, Sizes
  <2>4. p % granularity = 0 /\ (part * OSPageSize) % granularity = 0
    BY <1>5, <2>2, <2>3
  <2>. HIDE DEF r
  <2>5. part * OSPageSize \in Int /\ v \in Int /\ r = v - part * OSPageSize
    BY <1>3, <1>5, <2>3, Sizes
  <2>6. (v - part * OSPageSize) % granularity = 0
    BY <1>4, <2>4, <2>5, Multiples, Sizes, Zenon
  <2>. QED
    BY <2>4, <2>5, <2>6
<1>. HIDE DEF p, r
<1>8. (p + r) % granularity = 0
  BY <1>5, <1>7, Multiples, Sizes
<1>9. /\ p + r < 2^max_bits_ + PCI_OFFSET /\ p + r \in Nat
      /\ p + r < command.PCI_LOWER \/ p + r >= command.PCI_UPPER
  <2>. DEFINE M == 2^max_bits_
  <2>1. M \in Nat
    BY Widths, TwoPower
  <2>. HIDE DEF M
  <2>2. p + OSPageSize <= M + PCI_OFFSET
    BY <1>6 DEF M
  <2>3. p + r < M + PCI_OFFSET
    BY <1>5, <2>1, <2>2, Sizes DEF MachineFits
  <2>. QED
    BY <1>5, <1>6, <2>3, Sizes DEF M, MachineFits
<1>10. p + r \in Numbers
  <2>. DEFINE M == 2^max_bits_
              P == 2^WordBits
  <2>1. M \in Nat /\ P \in Nat /\ M + PCI_OFFSET <= P /\ PCI_OFFSET \in Nat
    BY Widths, TwoPower DEF MachineFits
  <2>2. p + r < M + PCI_OFFSET
    BY <1>9
  <2>. HIDE DEF M, P
  <2>3. p + r \in 0 .. P - 1
    BY <1>9, <2>1, <2>2
  <2>. QED
    BY <2>3 DEF P, Numbers
<1>11. InMemory(p + r)
  BY <1>8, <1>9, <1>10 DEF InMemory
<1>. QED
  BY <1>3, <1>5, <1>11

(* What is found is what some page gives.                                  *)
LEMMA SomePageAnswers ==
  ASSUME SetUp, NEW paddr
  PROVE  \/ /\ \A k \in DOMAIN pages : ~Finds(k, paddr)
            /\ PhysToVirt(paddr) = 0
         \/ \E k \in DOMAIN pages : Finds(k, paddr) /\ PhysToVirt(paddr) = At(k, paddr)
<1>1. CASE \A k \in DOMAIN pages : ~Finds(k, paddr)
  BY <1>1 DEF PhysToVirt
<1>2. ASSUME \E k \in DOMAIN pages : Finds(k, paddr)
      PROVE  \E k \in DOMAIN pages : Finds(k, paddr) /\ PhysToVirt(paddr) = At(k, paddr)
  <2>. DEFINE F == {k \in DOMAIN pages : Finds(k, paddr)}
              Answers(vaddr) ==
                \E k \in DOMAIN pages :
                  /\ Finds(k, paddr) /\ vaddr = At(k, paddr)
                  /\ \A l \in 1 .. k - 1 : ~Finds(l, paddr)
  <2>1. DOMAIN pages = 1 .. num_pages /\ num_pages \in Nat
    BY PagesOfPool, Sizes
  <2>2. F \in SUBSET Nat /\ F # {}
    BY <1>2, <2>1
  <2>3. PICK k \in F : \A l \in F : k <= l
    BY <2>2, LeastNumber, Zenon
  <2>4. Finds(k, paddr) /\ k \in DOMAIN pages /\ \A l \in 1 .. k - 1 : ~Finds(l, paddr)
    <3>1. k \in DOMAIN pages
      OBVIOUS
    <3>2. ASSUME NEW l \in 1 .. k - 1 PROVE ~Finds(l, paddr)
      <4>1. l \in DOMAIN pages /\ ~(k <= l)
        BY <2>1, <3>1
      <4>. QED
        BY <2>3, <4>1
    <3>. QED
      BY <3>1, <3>2
  <2>5. \E vaddr \in {At(l, paddr) : l \in DOMAIN pages} : Answers(vaddr)
    BY <2>4
  <2>6. PhysToVirt(paddr) =
          CHOOSE vaddr \in {At(l, paddr) : l \in DOMAIN pages} : Answers(vaddr)
    BY <1>2 DEF PhysToVirt
  <2>7. Answers(PhysToVirt(paddr))
    <3>. HIDE DEF Answers
    <3>. QED
      BY <2>5, <2>6
  <2>. QED
    BY <2>7
<1>. QED
  BY <1>1, <1>2

(* The address that a page gives for a physical one, whatever its frames.  *)
LEMMA FoundIsAddress ==
  ASSUME SetUp, NEW paddr \in Nat
  PROVE  PhysToVirt(paddr) \in Nat
<1>1. ASSUME NEW k \in DOMAIN pages, Finds(k, paddr) PROVE At(k, paddr) \in Nat
  <2>. DEFINE base == pages[k]
              first_ == VirtToPhys(base)
              last == LastLine(k)
              last_ == VirtToPhys(last)
  <2>1. base \in Nat /\ last \in Nat /\ first_ \in Nat /\ last_ \in Nat
    <3>1. /\ base + 0 = base /\ base \in Nat /\ 0 \in 0 .. page_size - 1
          /\ page_size - granularity \in 0 .. page_size - 1
          /\ last = base + (page_size - granularity)
      BY PoolPages, LinesOfPage, Sizes DEF LastLine
    <3>2. /\ base \div OSPageSize \in DOMAIN layout.frame
          /\ last \in Nat /\ last \div OSPageSize \in DOMAIN layout.frame
          /\ layout \in Layouts
      BY <3>1, PoolPages
    <3>. QED
      BY <3>1, <3>2, PhysParts
  <2>2. At(k, paddr) = IF Holds(k, paddr) THEN base + (paddr - first_)
                                          ELSE last + (paddr - last_)
    BY DEF At
  <2>3. Holds(k, paddr) => first_ <= paddr
    BY DEF Holds
  <2>4. ~Holds(k, paddr) => last_ <= paddr
    BY <1>1 DEF Finds, HoldsBackwards
  <2>. HIDE DEF base, first_, last, last_
  <2>. QED
    BY <2>1, <2>2, <2>3, <2>4
<1>. QED
  BY <1>1, SomePageAnswers

(* In a page of consecutive frames the lines lie in a row, from the first  *)
(* to the last one that is looked for.                                     *)
LEMMA PagesHoldInOrder ==
  ASSUME SetUp, Contiguous(layout), NEW k \in DOMAIN pages
  PROVE  /\ VirtToPhys(pages[k]) \in Nat
         /\ LastLine(k) = pages[k] + (page_size - granularity)
         /\ VirtToPhys(LastLine(k)) = VirtToPhys(pages[k]) + (page_size - granularity)
         /\ \A d \in 0 .. page_size - 1 :
              VirtToPhys(pages[k] + d) = VirtToPhys(pages[k]) + d
<1>1. /\ layout \in Layouts /\ k \in DOMAIN layout.pages
      /\ pages[k] = layout.pages[k] /\ pages[k] \in Nat
  BY PoolPages
<1>2. \A d \in 0 .. page_size - 1 :
        VirtToPhys(pages[k] + d) = VirtToPhys(pages[k]) + d
  BY <1>1, OffsetInPage
<1>3. LastLine(k) = pages[k] + (page_size - granularity)
  BY <1>1, Sizes DEF LastLine
<1>4. VirtToPhys(pages[k]) \in Nat
  <2>1. pages[k] + 0 = pages[k] /\ 0 \in 0 .. page_size - 1
    BY <1>1, Sizes
  <2>2. pages[k] \div OSPageSize \in DOMAIN layout.frame
    BY <2>1, PoolPages
  <2>. QED
    BY <1>1, <2>2, PhysParts
<1>. QED
  BY <1>2, <1>3, <1>4, LinesOfPage

(* What is found for the address of a line is a line of the pool, and has  *)
(* that address.                                                           *)
LEMMA FoundIsLine ==
  ASSUME SetUp, Contiguous(layout), NEW paddr \in Nat,
         paddr % granularity = 0, PhysToVirt(paddr) # 0,
         \A k \in DOMAIN pages : VirtToPhys(pages[k]) % granularity = 0
  PROVE  PhysToVirt(paddr) \in PoolLines /\ VirtToPhys(PhysToVirt(paddr)) = paddr
<1>1. PICK k \in DOMAIN pages : Finds(k, paddr) /\ PhysToVirt(paddr) = At(k, paddr)
  BY SomePageAnswers
<1>. DEFINE base == pages[k]
            first_ == VirtToPhys(base)
            last == page_size - granularity
            d == paddr - first_
            line == d \div granularity
<1>2. /\ base \in Nat /\ first_ \in Nat /\ last \in 0 .. page_size - 1
      /\ VirtToPhys(LastLine(k)) = first_ + last
  BY PagesHoldInOrder, PoolPages, LinesOfPage
<1>3. Holds(k, paddr) /\ d \in 0 .. last
  <2>1. \/ first_ <= paddr /\ paddr <= first_ + last
        \/ first_ + last <= paddr /\ paddr <= first_
    <3>. DEFINE last_ == VirtToPhys(LastLine(k))
    <3>1. \/ first_ <= paddr /\ paddr <= last_
          \/ last_ <= paddr /\ paddr <= first_
      BY <1>1 DEF Finds, Holds, HoldsBackwards
    <3>2. last_ = first_ + last
      BY <1>2
    <3>. HIDE DEF first_, last, last_
    <3>. QED
      BY <3>1, <3>2
  <2>. HIDE DEF first_, last
  <2>2. first_ <= paddr /\ paddr <= first_ + last
    BY <1>2, <2>1
  <2>3. Holds(k, paddr)
    BY <1>2, <2>2 DEF Holds, first_
  <2>. QED
    BY <1>2, <2>2, <2>3
<1>4. PhysToVirt(paddr) = base + d
  BY <1>1, <1>3 DEF At
<1>5. d \in 0 .. page_size - 1 /\ d \in Nat
  <2>. HIDE DEF d, last
  <2>. QED
    BY <1>2, <1>3, Sizes
<1>6. VirtToPhys(base + d) = paddr
  <2>1. VirtToPhys(base + d) = first_ + d
    <3>. HIDE DEF d
    <3>. QED
      BY <1>5, PagesHoldInOrder
  <2>. HIDE DEF first_
  <2>. QED
    BY <1>2, <2>1
<1>7. d % granularity = 0
  <2>1. paddr \in Int /\ first_ \in Int /\ first_ % granularity = 0
    BY <1>2
  <2>. HIDE DEF first_
  <2>. QED
    BY <2>1, Multiples, Sizes, Zenon
<1>8. d = line * granularity /\ line \in 0 .. (page_size \div granularity) - 1
  <2>. HIDE DEF d
  <2>1. line \in Nat /\ d = line * granularity + (d % granularity)
    BY <1>5, DivMod, Sizes, Zenon
  <2>2. line * granularity \in Nat
    BY <2>1, Sizes
  <2>. QED
    BY <1>5, <1>7, <2>1, <2>2, LinesOfPage
<1>9. base + d \in PoolLines
  <2>. HIDE DEF d, line
  <2>. QED
    BY <1>8 DEF PoolLines
<1>. QED
  BY <1>4, <1>6, <1>9

-----------------------------------------------------------------------------
(* The loops of a session.                                                 *)
LEMMA UnderFields ==
  ASSUME NEW same, NEW diff, NEW oracle, NEW length, NEW rounds
  PROVE  LET l == Under(same, diff, oracle, length, rounds)
         IN  /\ l.draw = "partner" /\ l.same = same /\ l.diff = diff
             /\ l.oracle = oracle /\ l.length = length /\ l.rounds = rounds
BY DEF Under, Loop

(* Loops without constraints have these fields.                            *)
LEMMA LoopFields ==
  ASSUME NEW draw, NEW oracle, NEW length, NEW rounds
  PROVE  LET l == Loop(draw, oracle, length, rounds)
         IN  l.draw = draw /\ l.oracle = oracle /\ l.rounds = rounds
BY DEF Loop

(* One sequence after another.                                             *)
LEMMA OneAfterAnother ==
  ASSUME NEW S, NEW T, NEW s \in Seq(S), NEW t \in Seq(T)
  PROVE  /\ Len(s \o t) = Len(s) + Len(t)
         /\ DOMAIN (s \o t) = 1 .. Len(s) + Len(t)
         /\ \A k \in 1 .. Len(s) : (s \o t)[k] = s[k]
         /\ \A k \in Len(s) + 1 .. Len(s) + Len(t) : (s \o t)[k] = t[k - Len(s)]
<1>1. s \in Seq(S \cup T) /\ t \in Seq(S \cup T)
  BY SequenceWithin
<1>2. s \o t \in Seq(S \cup T) /\ Len(s \o t) = Len(s) + Len(t)
  BY <1>1
<1>3. DOMAIN (s \o t) = 1 .. Len(s) + Len(t)
  BY <1>2
<1>4. \A k \in 1 .. Len(s) : (s \o t)[k] = s[k]
  BY <1>1
<1>5. \A k \in Len(s) + 1 .. Len(s) + Len(t) : (s \o t)[k] = t[k - Len(s)]
  BY <1>1
<1>. QED
  BY <1>2, <1>3, <1>4, <1>5

(* A loop of a testing tool.                                               *)
Watches(l) ==
  l.draw \in {"one", "two", "partner"} /\ l.oracle = "log" /\ l.rounds \in Nat

(* A loop of the decomposition: the first half of them watch refreshes.    *)
Half == Len(command.functions)
Decomposed(k) == command.functions[IF k <= Half THEN k ELSE k - Half]

DecomposesWith(l, k) ==
  /\ l.draw = "partner"
  /\ l.same = Masks(command.functions) \ {Decomposed(k)}
  /\ l.diff = <<Decomposed(k)>>
  /\ l.oracle = IF k <= Half THEN "refresh" ELSE "rdrd"
  /\ l.length = IF k <= Half THEN 0 ELSE CONSECUTIVE_LENGTH
  /\ l.rounds = SUDOKU_NUM_EFFECTIVE_TRIAL

Known ==
  /\ Len(calls) \in Nat /\ DOMAIN calls = 1 .. Len(calls)
  /\ ~Decomposes => \A k \in 1 .. Len(calls) : Watches(calls[k])
  /\ Decomposes =>
       /\ Half \in Nat /\ Len(calls) = Half + Half
       /\ \A k \in 1 .. Len(calls) : DecomposesWith(calls[k], k)

(* Every command has loops of one of the two kinds.                        *)
LEMMA CallsAreKnown ==
  ASSUME command \in Commands, calls = Loops
  PROVE  Known
<1>1. CASE Decomposes
  <2>. DEFINE F == command.functions
              one == DecomposeUsingRefreshes(F)
              other == DecomposeUsingConsecutiveAccesses(F)
  <2>1. F \in Seq(SUBSET LineBit) /\ Half \in Nat /\ DOMAIN F = 1 .. Half /\ Half = Len(F)
    BY SessionAssumption DEF Half
  <2>2. calls = one \o other
    <3>1. calls = decompose_functions(command)
      BY <1>1 DEF Loops, Decomposes
    <3>. QED
      BY <3>1 DEF decompose_functions
  <2>3. /\ DOMAIN one = 1 .. Half
        /\ \A k \in 1 .. Half :
             one[k] = Under(Masks(F) \ {F[k]}, <<F[k]>>, "refresh", 0,
                            SUDOKU_NUM_EFFECTIVE_TRIAL)
    BY <2>1 DEF DecomposeUsingRefreshes, other_functions
  <2>4. /\ DOMAIN other = 1 .. Half
        /\ \A k \in 1 .. Half :
             other[k] = Under(Masks(F) \ {F[k]}, <<F[k]>>, "rdrd", CONSECUTIVE_LENGTH,
                              SUDOKU_NUM_EFFECTIVE_TRIAL)
    BY <2>1 DEF DecomposeUsingConsecutiveAccesses, other_functions
  <2>5. one \in Seq(Masks(one)) /\ other \in Seq(Masks(other))
        /\ Len(one) = Half /\ Len(other) = Half
    <3>. HIDE DEF one, other
    <3>1. ASSUME NEW s, DOMAIN s = 1 .. Half, s = [k \in 1 .. Half |-> s[k]]
          PROVE  s \in Seq(Masks(s)) /\ Len(s) = Half
      BY <2>1, <3>1 DEF Masks
    <3>2. one = [k \in 1 .. Half |-> one[k]] /\ other = [k \in 1 .. Half |-> other[k]]
      BY <2>1 DEF one, other, DecomposeUsingRefreshes, DecomposeUsingConsecutiveAccesses
    <3>3. DOMAIN one = 1 .. Half /\ DOMAIN other = 1 .. Half
      BY <2>3, <2>4
    <3>4. one \in Seq(Masks(one)) /\ Len(one) = Half
      BY <3>1, <3>2, <3>3, Zenon
    <3>5. other \in Seq(Masks(other)) /\ Len(other) = Half
      BY <3>1, <3>2, <3>3, Zenon
    <3>. QED
      BY <3>4, <3>5
  <2>. HIDE DEF one, other
  <2>6. /\ Len(calls) = Half + Half /\ DOMAIN calls = 1 .. Len(calls)
        /\ \A k \in 1 .. Half : calls[k] = one[k]
        /\ \A k \in Half + 1 .. Half + Half : calls[k] = other[k - Half]
    <3>1. /\ Len(one \o other) = Half + Half
          /\ DOMAIN (one \o other) = 1 .. Half + Half
      BY <2>5, OneAfterAnother
    <3>2. \A k \in 1 .. Half : (one \o other)[k] = one[k]
      BY <2>5, OneAfterAnother
    <3>3. \A k \in Half + 1 .. Half + Half : (one \o other)[k] = other[k - Half]
      BY <2>5, OneAfterAnother
    <3>. QED
      BY <2>2, <3>1, <3>2, <3>3, Zenon
  <2>7. ASSUME NEW k \in 1 .. Len(calls) PROVE DecomposesWith(calls[k], k)
    <3>1. CASE k <= Half
      <4>1. k \in 1 .. Half /\ Decomposed(k) = F[k]
        BY <2>1, <2>6, <3>1 DEF Decomposed
      <4>2. calls[k] = Under(Masks(F) \ {F[k]}, <<F[k]>>, "refresh", 0,
                             SUDOKU_NUM_EFFECTIVE_TRIAL)
        BY <2>3, <2>6, <4>1
      <4>. QED
        BY <3>1, <4>1, <4>2, UnderFields DEF DecomposesWith
    <3>2. CASE ~(k <= Half)
      <4>1. /\ k \in Half + 1 .. Half + Half /\ k - Half \in 1 .. Half
            /\ Decomposed(k) = F[k - Half]
        BY <2>1, <2>6, <3>2 DEF Decomposed
      <4>2. calls[k] = Under(Masks(F) \ {F[k - Half]}, <<F[k - Half]>>, "rdrd",
                             CONSECUTIVE_LENGTH, SUDOKU_NUM_EFFECTIVE_TRIAL)
        BY <2>4, <2>6, <4>1
      <4>. QED
        BY <3>2, <4>1, <4>2, UnderFields DEF DecomposesWith
    <3>. QED
      BY <3>1, <3>2
  <2>. QED
    BY <1>1, <2>1, <2>6, <2>7 DEF Known
<1>2. ASSUME ~Decomposes PROVE Known
  <2>1. /\ SUDOKU_TEST_NUM_ITERATION \in Nat /\ SUDOKU_NUM_EFFECTIVE_TRIAL \in Nat
        /\ 1 \in Nat
    BY SessionAssumption
  <2>2. ASSUME NEW draw \in {"one", "two"}, NEW length, NEW rounds \in Nat
        PROVE  Watches(Loop(draw, "log", length, rounds))
    BY LoopFields DEF Watches
  <2>3. ASSUME NEW same, NEW diff, NEW length, NEW rounds \in Nat
        PROVE  Watches(Under(same, diff, "log", length, rounds))
    BY UnderFields DEF Watches
  <2>4. \A l : Watches(l) =>
          /\ Len(<<l>>) = 1 /\ DOMAIN <<l>> = 1 .. 1
          /\ \A k \in 1 .. 1 : Watches(<<l>>[k])
    OBVIOUS
  <2>5. CASE calls = <<>>
    BY <1>2, <2>5 DEF Known
  <2>6. ASSUME NEW l, Watches(l), calls = <<l>> PROVE Known
    <3>1. Len(calls) = 1 /\ DOMAIN calls = 1 .. 1 /\ calls[1] = l
      BY <2>6
    <3>. QED
      BY <1>2, <2>6, <3>1 DEF Known
  <2>7. ASSUME NEW l, NEW m, Watches(l), Watches(m), calls = <<l, m>> PROVE Known
    <3>1. Len(calls) = 2 /\ DOMAIN calls = 1 .. 2 /\ calls[1] = l /\ calls[2] = m
      BY <2>7
    <3>. QED
      BY <1>2, <2>7, <3>1 DEF Known
  <2>8. ASSUME NEW l, NEW m, NEW n, Watches(l), Watches(m), Watches(n),
               calls = <<l, m, n>>
        PROVE  Known
    <3>1. /\ Len(calls) = 3 /\ DOMAIN calls = 1 .. 3
          /\ calls[1] = l /\ calls[2] = m /\ calls[3] = n
      BY <2>8
    <3>. QED
      BY <1>2, <2>8, <3>1 DEF Known
  <2>9. CASE command.tool = "watch_conflicts"
    <3>1. calls = watch_conflicts(command)
      BY <1>2, <2>9 DEF Loops
    <3>2. /\ Watches(StatSingleMemoryAccess) /\ Watches(StatPairedMemoryAccess)
          /\ Watches(CheckPairedMemoryAccess(command))
      BY <2>1, <2>2, <2>3
         DEF StatSingleMemoryAccess, StatPairedMemoryAccess, CheckPairedMemoryAccess
    <3>. QED
      BY <2>5, <2>6, <2>7, <3>1, <3>2 DEF watch_conflicts
  <2>10. CASE command.tool = "watch_refreshes"
    <3>1. calls = watch_refreshes(command)
      BY <1>2, <2>10 DEF Loops
    <3>2. /\ Watches(WatchRefreshSingleAccess) /\ Watches(WatchRefreshPairedAccessCoarse)
          /\ Watches(WatchRefreshPairedAccessFine)
          /\ Watches(StatRefIntervalSingleAccess)
          /\ Watches(StatRefIntervalPairedAccessCoarse)
          /\ Watches(StatRefIntervalPairedAccessFine)
          /\ Watches(CheckRefIntervalPairedAccessCoarse(command))
          /\ Watches(CheckRefIntervalPairedAccessFine(command))
      BY <2>1, <2>2, <2>3
         DEF WatchRefreshSingleAccess, WatchRefreshPairedAccessCoarse,
             WatchRefreshPairedAccessFine, StatRefIntervalSingleAccess,
             StatRefIntervalPairedAccessCoarse, StatRefIntervalPairedAccessFine,
             CheckRefIntervalPairedAccessCoarse, CheckRefIntervalPairedAccessFine
    <3>. QED
      BY <2>5, <2>7, <2>8, <3>1, <3>2 DEF watch_refreshes
  <2>11. CASE command.tool \notin {"watch_conflicts", "watch_refreshes"}
    <3>1. calls = watch_consecutive_accesses(command)
      BY <1>2, <2>11 DEF Loops
    <3>2. /\ Watches(StatReadReadAccess(command)) /\ Watches(CheckReadReadAccess(command))
      BY <2>1, <2>2, <2>3 DEF StatReadReadAccess, CheckReadReadAccess
    <3>. QED
      BY <2>5, <2>6, <3>1, <3>2 DEF watch_consecutive_accesses
  <2>. QED
    BY <2>9, <2>10, <2>11
<1>. QED
  BY <1>1, <1>2

-----------------------------------------------------------------------------
(* The inductive invariant of a session: what no step changes, where the   *)
(* session is, what it has counted, which addresses it holds, and what it  *)
(* has found.                                                              *)
Begun ==
  command \in Commands /\ layout \in Layouts /\ Fits /\ calls = Loops

Drawn == pc \in {"two", "partner", "streams", "measure"}

Placed ==
  /\ pc \in {"start", "loop", "two", "partner", "streams", "measure", "done", "exit"}
  /\ loop \in 1 .. Len(calls) + 1
  /\ SetUp \/ pages = <<>>
  /\ Drawn \/ pc = "loop" => SetUp
  /\ Drawn => loop <= Len(calls) /\ trials < current.rounds
  /\ pc \in {"two", "partner"} => current.draw = pc

Counted ==
  /\ IF loop <= Len(calls)
     THEN /\ trials \in 0 .. current.rounds
          /\ current.oracle = "refresh" => sum \in 0 .. trials
          /\ current.oracle = "log" => sum = 0
     ELSE trials = 0
  /\ trials = 0 => sum = 0

Held == {first, second} \subseteq Tuples

Labelled ==
  /\ rank_functions_ \in Seq(Masks(command.functions))
  /\ rdrd_latencies \in Seq(Masks(rdrd_latencies))
  /\ \A k \in DOMAIN rdrd_latencies :
       rdrd_latencies[k].function \in Masks(command.functions)

SessionInv == Begun /\ Placed /\ Counted /\ Held /\ Labelled

(* No step changes the command, the layout or the loops.                   *)
LEMMA StaysBegun ==
  ASSUME Begun, command' = command, layout' = layout, calls' = calls
  PROVE  Begun' /\ (SetUp /\ pages' = pages => SetUp')
<1>1. Fits'
  BY DEF Begun, Fits, PCI_OFFSET
<1>2. calls' = Loops'
  BY DEF Begun, Loops, Decomposes
<1>3. SetUp /\ pages' = pages => SetUp'
  BY DEF SetUp
<1>. QED
  BY <1>1, <1>2, <1>3 DEF Begun

(* The loop that runs.                                                     *)
LEMMA CurrentLoop ==
  ASSUME Begun, NEW k \in 1 .. Len(calls)
  PROVE  /\ Len(calls) \in Nat
         /\ calls[k].draw \in {"one", "two", "partner"}
         /\ calls[k].oracle \in {"log", "refresh", "rdrd"}
         /\ calls[k].rounds \in Nat
         /\ calls[k].oracle # "log" =>
              /\ Decomposes /\ calls[k].rounds = SUDOKU_NUM_EFFECTIVE_TRIAL
              /\ \E f \in Masks(command.functions) : calls[k].diff = <<f>>
<1>1. Known
  BY CallsAreKnown DEF Begun
<1>2. CASE ~Decomposes
  BY <1>1, <1>2 DEF Known, Watches
<1>3. CASE Decomposes
  <2>1. DecomposesWith(calls[k], k) /\ Half \in Nat /\ k \in 1 .. Half + Half
    BY <1>1, <1>3 DEF Known
  <2>2. SUDOKU_NUM_EFFECTIVE_TRIAL \in Nat
    BY SessionAssumption
  <2>3. Decomposed(k) \in Masks(command.functions)
    <3>1. command.functions \in Seq(SUBSET LineBit) /\ Half = Len(command.functions)
      BY SessionAssumption, Zenon DEF Begun, Half
    <3>2. DOMAIN command.functions = 1 .. Half
      BY <3>1
    <3>3. (IF k <= Half THEN k ELSE k - Half) \in 1 .. Half
      BY <2>1
    <3>. QED
      BY <3>2, <3>3 DEF Decomposed, Masks
  <2>. QED
    BY <1>1, <1>3, <2>1, <2>2, <2>3 DEF Known, DecomposesWith
<1>. QED
  BY <1>2, <1>3

(* A session starts with the invariant.                                    *)
LEMMA SessionInit == Init => SessionInv
<1>. SUFFICES ASSUME Init PROVE SessionInv
  OBVIOUS
<1>1. Begun
  BY DEF Init, InitPool, Begun
<1>2. Known
  BY <1>1, CallsAreKnown DEF Begun
<1>3. Len(calls) \in Nat
  BY <1>2 DEF Known
<1>4. Placed
  BY <1>3 DEF Init, InitPool, Placed, Drawn
<1>5. Counted
  <2>1. loop = 1 /\ trials = 0 /\ sum = 0
    BY DEF Init
  <2>2. CASE loop <= Len(calls)
    <3>1. calls[1].rounds \in Nat
      BY <1>1, <1>3, <2>1, <2>2, CurrentLoop
    <3>. QED
      BY <2>1, <2>2, <3>1 DEF Counted, current
  <2>. QED
    BY <2>1, <2>2 DEF Counted
<1>6. Held
  <2>1. 0 \in 0 .. 2^WordBits - 1
    BY Widths
  <2>. QED
    BY <2>1 DEF Init, Held, Tuples, NoTuple
<1>7. Labelled
  BY DEF Init, Labelled
<1>. QED
  BY <1>1, <1>4, <1>5, <1>6, <1>7 DEF SessionInv

(* Addresses that are drawn fit into a word.                               *)
LEMMA LinesAreTuples ==
  ASSUME Begun, SetUp, NEW tuple \in RandomAddressTuples
  PROVE  tuple \in Tuples
<1>1. IsLine(tuple)
  BY RandomTuplesAreLines
<1>2. tuple.vaddr \in Nat /\ tuple.paddr \in Numbers
  BY <1>1, MachineOfSession, LinesAreInMemory DEF IsLine, Begun, InMemory
<1>3. tuple = [vaddr |-> tuple.vaddr, paddr |-> tuple.paddr]
  BY DEF RandomAddressTuples, Tuple
<1>. QED
  BY <1>2, <1>3 DEF Tuples, Numbers

(* So do the words of the search,                                          *)
LEMMA WantedAreWords ==
  ASSUME Begun, NEW same, NEW diff, NEW word, NEW x \in Wanted(same, diff, word)
  PROVE  x \in SUBSET LineBit /\ x \in Words
BY MachineOfSession DEF Wanted, Begun, MachineFits, Words

(* and the addresses that are made of them.                                *)
LEMMA CandidatesAreTuples ==
  ASSUME Begun, SetUp, NEW tuple \in Candidates
  PROVE  tuple \in Tuples
<1>1. PICK x \in Wanted(current.same, Masks(current.diff), WithoutOffset(first.paddr)) :
        tuple = [vaddr |-> PhysToVirt(Physical(x)), paddr |-> Physical(x)]
  BY DEF Candidates
<1>2. Physical(x) \in Numbers
  BY WantedAreWords, MachineOfSession, OffsetRoundTrip DEF Begun
<1>3. Physical(x) \in Nat
  BY <1>2, Widths DEF Numbers
<1>4. PhysToVirt(Physical(x)) \in Nat
  BY <1>3, FoundIsAddress
<1>. QED
  BY <1>1, <1>2, <1>4 DEF Tuples, Numbers

(* So does the address of a tuple that was forgotten.                      *)
LEMMA NothingIsTuple == NoTuple \in Tuples
<1>1. 0 \in 0 .. 2^WordBits - 1
  BY Widths
<1>. QED
  BY <1>1 DEF Tuples, NoTuple

(* Every step keeps the invariant: those of the pool,                      *)
LEMMA PoolStepsKeep ==
  ASSUME SessionInv, Initialize \/ InitializeFails \/ UnsupportedMode \/ Finalize
  PROVE  SessionInv'
<1>1. /\ command' = command /\ layout' = layout /\ calls' = calls /\ loop' = loop
      /\ UNCHANGED <<session, results>>
  BY DEF Initialize, InitializeFails, UnsupportedMode, Finalize, InitMemoryPool,
         MapFails, FreeMemoryPool
<1>2. Begun'
  BY <1>1, StaysBegun DEF SessionInv
<1>3. Counted' /\ Held' /\ Labelled'
  BY <1>1 DEF SessionInv, Counted, Held, Labelled, session, results, current
<1>4. Placed'
  <2>1. CASE Initialize
    <3>1. SetUp'
      BY <2>1 DEF Initialize, InitMemoryPool, SetUp, SessionInv, Begun
    <3>2. pc' = "loop"
      BY <2>1 DEF Initialize
    <3>. QED
      BY <1>1, <3>1, <3>2 DEF Placed, Drawn, SessionInv
  <2>2. CASE InitializeFails
    <3>1. pc' = "exit" /\ pages' = pages /\ pc = "start"
      BY <2>2 DEF InitializeFails, MapFails
    <3>2. SetUp \/ pages = <<>>
      BY DEF Placed, SessionInv
    <3>3. SetUp => SetUp'
      BY <1>1, <3>1, StaysBegun DEF SessionInv
    <3>. QED
      BY <1>1, <3>1, <3>2, <3>3 DEF Placed, Drawn, SessionInv
  <2>3. CASE UnsupportedMode
    <3>1. pc' = "exit" /\ pages' = pages /\ pc = "loop"
      BY <2>3 DEF UnsupportedMode
    <3>2. SetUp'
      BY <1>1, <3>1, StaysBegun DEF Placed, SessionInv
    <3>. QED
      BY <1>1, <3>1, <3>2 DEF Placed, Drawn, SessionInv
  <2>4. CASE Finalize
    <3>1. pc' = "done" /\ pages' = <<>>
      BY <2>4 DEF Finalize, FreeMemoryPool
    <3>. QED
      BY <1>1, <3>1 DEF Placed, Drawn, SessionInv
  <2>. QED
    BY <2>1, <2>2, <2>3, <2>4
<1>. QED
  BY <1>2, <1>3, <1>4 DEF SessionInv

(* those that draw,                                                        *)
LEMMA DrawStepsKeep ==
  ASSUME SessionInv,
         DrawFirst \/ DrawSecond \/ DrawPartner \/ DrawStreams \/ StreamsMissed
  PROVE  SessionInv'
<1>1. /\ command' = command /\ layout' = layout /\ pages' = pages /\ calls' = calls
      /\ loop' = loop /\ trials' = trials /\ sum' = sum /\ UNCHANGED results
  BY DEF DrawFirst, DrawSecond, DrawPartner, DrawStreams, StreamsMissed, Round
<1>2. Begun'
  BY <1>1, StaysBegun DEF SessionInv
<1>3. Counted' /\ Labelled'
  BY <1>1 DEF SessionInv, Counted, Labelled, results, current
<1>4. Begun /\ SetUp /\ Len(calls) \in Nat /\ SetUp'
  <2>1. pc \in {"loop", "two", "partner", "streams"}
    BY DEF DrawFirst, DrawSecond, DrawPartner, DrawStreams, StreamsMissed
  <2>2. SetUp
    BY <2>1 DEF SessionInv, Placed, Drawn
  <2>. QED
    BY <1>1, <2>2, CallsAreKnown, StaysBegun DEF SessionInv, Begun, Known
<1>5. /\ Held'
      /\ pc' \in {"loop", "two", "partner", "streams", "measure"}
      /\ pc' # "loop" => loop <= Len(calls) /\ trials < current.rounds
      /\ pc' \in {"two", "partner"} => current.draw = pc'
  <2>1. CASE DrawFirst
    <3>1. /\ first' \in RandomAddressTuples /\ second' = second
          /\ loop <= Len(calls) /\ trials < current.rounds
          /\ pc' = IF current.draw = "one" THEN "measure" ELSE current.draw
      BY <2>1 DEF DrawFirst
    <3>2. first' \in Tuples
      BY <1>4, <3>1, LinesAreTuples
    <3>3. loop \in 1 .. Len(calls)
      BY <1>4, <3>1 DEF SessionInv, Placed
    <3>4. current.draw \in {"one", "two", "partner"}
      BY <1>4, <3>3, CurrentLoop DEF current
    <3>. QED
      BY <3>1, <3>2, <3>4 DEF Held, SessionInv
  <2>2. CASE DrawSecond
    <3>1. /\ second' \in RandomAddressTuples /\ first' = first
          /\ pc = "two" /\ pc' \in {"streams", "measure"}
      BY <2>2 DEF DrawSecond, Prepared
    <3>2. second' \in Tuples
      BY <1>4, <3>1, LinesAreTuples
    <3>. QED
      BY <3>1, <3>2 DEF Held, SessionInv, Placed, Drawn
  <2>3. CASE DrawPartner
    <3>1. /\ second' \in Candidates /\ first' = first
          /\ pc = "partner" /\ pc' \in {"streams", "measure"}
      BY <2>3 DEF DrawPartner, Prepared
    <3>2. second' \in Tuples
      BY <1>4, <3>1, CandidatesAreTuples
    <3>. QED
      BY <3>1, <3>2 DEF Held, SessionInv, Placed, Drawn
  <2>4. CASE DrawStreams
    <3>1. /\ second' = second /\ first' = first
          /\ pc = "streams" /\ pc' = "measure"
      BY <2>4 DEF DrawStreams
    <3>. QED
      BY <3>1 DEF Held, SessionInv, Placed, Drawn
  <2>5. CASE StreamsMissed
    <3>1. second' = NoTuple /\ first' = NoTuple /\ pc' = "loop"
      BY <2>5 DEF StreamsMissed, Forget
    <3>. QED
      BY <3>1, NothingIsTuple DEF Held
  <2>. QED
    BY <2>1, <2>2, <2>3, <2>4, <2>5
<1>6. Placed'
  <2>1. loop' \in 1 .. Len(calls') + 1 /\ current' = current
    BY <1>1 DEF SessionInv, Placed, current
  <2>. QED
    BY <1>1, <1>4, <1>5, <2>1 DEF Placed, Drawn
<1>. QED
  BY <1>2, <1>3, <1>5, <1>6 DEF SessionInv

(* those that measure,                                                     *)
LEMMA MeasurementsKeep ==
  ASSUME SessionInv, LogStatistics \/ ScoreInterval \/ AddLatency
  PROVE  SessionInv'
<1>1. /\ command' = command /\ layout' = layout /\ pages' = pages /\ calls' = calls
      /\ loop' = loop /\ UNCHANGED results
      /\ pc = "measure" /\ pc' = "loop" /\ trials' = trials + 1
      /\ first' = NoTuple /\ second' = NoTuple
  BY DEF LogStatistics, ScoreInterval, AddLatency, Measured, Round, Forget
<1>2. Begun' /\ SetUp'
  BY <1>1, StaysBegun DEF SessionInv, Placed, Drawn
<1>3. Labelled' /\ Held'
  BY <1>1, NothingIsTuple DEF SessionInv, Held, Labelled, results
<1>4. /\ loop <= Len(calls) /\ trials < current.rounds
      /\ loop \in 1 .. Len(calls) + 1 /\ current' = current
  BY <1>1 DEF SessionInv, Placed, Drawn, current
<1>5. Placed'
  BY <1>1, <1>2, <1>4 DEF Placed, Drawn
<1>6. /\ trials \in Nat /\ current.rounds \in Nat
      /\ trials' \in 0 .. current.rounds /\ trials' # 0
  <2>1. Len(calls) \in Nat
    BY CallsAreKnown DEF SessionInv, Begun, Known
  <2>2. loop \in 1 .. Len(calls)
    BY <1>4, <2>1
  <2>3. current.rounds \in Nat
    BY <2>2, CurrentLoop DEF SessionInv, current
  <2>4. trials \in 0 .. current.rounds
    BY <1>4 DEF SessionInv, Counted
  <2>. QED
    BY <1>1, <1>4, <2>3, <2>4
<1>7. Counted'
  <2>1. CASE LogStatistics
    <3>1. sum' = sum /\ current.oracle = "log"
      BY <2>1 DEF LogStatistics, Measured
    <3>. QED
      BY <1>1, <1>4, <1>6, <3>1 DEF SessionInv, Counted
  <2>2. CASE ScoreInterval
    <3>1. sum' \in {sum, sum + 1} /\ current.oracle = "refresh"
      BY <2>2 DEF ScoreInterval, Measured
    <3>2. sum \in 0 .. trials
      BY <1>4, <3>1 DEF SessionInv, Counted
    <3>3. sum' \in 0 .. trials'
      BY <1>1, <1>6, <3>1, <3>2
    <3>. QED
      BY <1>1, <1>4, <1>6, <3>1, <3>3 DEF Counted
  <2>3. CASE AddLatency
    <3>1. current.oracle = "rdrd"
      BY <2>3 DEF AddLatency, Measured
    <3>. QED
      BY <1>1, <1>4, <1>6, <3>1 DEF Counted
  <2>. QED
    BY <2>1, <2>2, <2>3
<1>. QED
  BY <1>2, <1>3, <1>5, <1>7 DEF SessionInv

(* and those that end a loop.                                              *)
LEMMA LatencyIsRecorded ==
  ASSUME NEW S, NEW latencies \in Seq(S), NEW e
  PROVE  /\ Append(latencies, e) \in Seq(S \cup {e})
         /\ DOMAIN Append(latencies, e) = 1 .. Len(latencies) + 1
         /\ Masks(Append(latencies, e)) = Masks(latencies) \cup {e}
<1>1. latencies \in Seq(S \cup {e})
  BY SequenceWithin
<1>2. /\ Append(latencies, e) \in Seq(S \cup {e})
      /\ DOMAIN Append(latencies, e) = 1 .. Len(latencies) + 1
      /\ DOMAIN latencies = 1 .. Len(latencies) /\ Len(latencies) \in Nat
      /\ \A k \in 1 .. Len(latencies) : Append(latencies, e)[k] = latencies[k]
      /\ Append(latencies, e)[Len(latencies) + 1] = e
  BY <1>1
<1>3. 1 .. Len(latencies) + 1 = (1 .. Len(latencies)) \cup {Len(latencies) + 1}
  BY <1>2
<1>4. Masks(Append(latencies, e)) = Masks(latencies) \cup {e}
  BY <1>2, <1>3, Zenon DEF Masks
<1>. QED
  BY <1>2, <1>4

(* Sorting moves the elements.                                             *)
LEMMA SortingsMove ==
  ASSUME NEW S, NEW latencies \in Seq(S), NEW sorted \in Sortings(latencies)
  PROVE  /\ sorted \in Seq(Masks(sorted)) /\ DOMAIN sorted = DOMAIN latencies
         /\ Masks(sorted) = Masks(latencies)
         /\ \A i, j \in DOMAIN sorted : i < j => sorted[i].latency <= sorted[j].latency
<1>1. PICK place \in Bijection(DOMAIN latencies, DOMAIN latencies) :
        sorted = [k \in DOMAIN latencies |-> latencies[place[k]]]
  BY DEF Sortings
<1>2. DOMAIN latencies = 1 .. Len(latencies) /\ Len(latencies) \in Nat
  OBVIOUS
<1>3. /\ DOMAIN sorted = DOMAIN latencies
      /\ \A k \in DOMAIN latencies : place[k] \in DOMAIN latencies
      /\ \A k \in DOMAIN latencies : \E l \in DOMAIN latencies : place[l] = k
  BY <1>1 DEF Bijection, Injection, Surjection
<1>4. Masks(sorted) = Masks(latencies)
  BY <1>1, <1>3, Zenon DEF Masks
<1>5. sorted \in Seq(Masks(sorted))
  BY <1>1, <1>2, <1>3 DEF Masks
<1>6. \A i, j \in DOMAIN sorted : i < j => sorted[i].latency <= sorted[j].latency
  BY DEF Sortings
<1>. QED
  BY <1>3, <1>4, <1>5, <1>6

(* those that end a loop.                                                  *)
LEMMA EndsKeep ==
  ASSUME SessionInv, EndLog \/ LabelFunction \/ RecordLatency
  PROVE  SessionInv'
<1>1. /\ command' = command /\ layout' = layout /\ pages' = pages /\ calls' = calls
      /\ loop' = loop + 1 /\ trials' = 0 /\ first' = first /\ second' = second
      /\ pc = "loop" /\ pc' = pc /\ loop <= Len(calls) /\ trials = current.rounds
  BY DEF EndLog, LabelFunction, RecordLatency, EndLoop
<1>2. Begun' /\ SetUp'
  BY <1>1, StaysBegun DEF SessionInv, Placed, Drawn
<1>3. Held'
  BY <1>1 DEF SessionInv, Held
<1>4. Len(calls) \in Nat /\ loop \in 1 .. Len(calls)
  <2>1. Len(calls) \in Nat
    BY CallsAreKnown DEF SessionInv, Begun, Known
  <2>. QED
    BY <1>1, <2>1 DEF SessionInv, Placed
<1>5. Placed'
  <2>1. loop' \in 1 .. Len(calls') + 1
    BY <1>1, <1>4
  <2>. QED
    BY <1>1, <1>2, <2>1 DEF Placed, Drawn
<1>6. Counted'
  <2>1. sum' = 0
    <3>1. CASE EndLog
      <4>1. sum' = sum /\ current.oracle = "log"
        BY <3>1 DEF EndLog, EndLoop
      <4>2. sum = 0
        BY <1>1, <4>1 DEF SessionInv, Counted
      <4>. QED
        BY <4>1, <4>2
    <3>. QED
      BY <3>1 DEF LabelFunction, RecordLatency
  <2>2. loop' <= Len(calls) => 0 \in 0 .. calls[loop'].rounds
    <3>1. loop' <= Len(calls) => loop' \in 1 .. Len(calls)
      BY <1>1, <1>4
    <3>2. \A n \in Nat : 0 \in 0 .. n
      OBVIOUS
    <3>. QED
      BY <3>1, <3>2, CurrentLoop DEF SessionInv
  <2>. QED
    BY <1>1, <2>1, <2>2 DEF Counted, current
<1>7. current.oracle # "log" =>
        \E f \in Masks(command.functions) : current.diff = <<f>>
  BY <1>4, CurrentLoop DEF SessionInv, current
<1>8. Labelled'
  <2>1. Labelled
    BY DEF SessionInv
  <2>2. CASE EndLog
    BY <1>1, <2>1, <2>2 DEF EndLog, results, Labelled
  <2>3. CASE LabelFunction
    <3>1. /\ rank_functions_' \in {rank_functions_, rank_functions_ \o current.diff}
          /\ rdrd_latencies' = rdrd_latencies /\ current.oracle = "refresh"
      BY <2>3 DEF LabelFunction, EndLoop
    <3>2. PICK f \in Masks(command.functions) : current.diff = <<f>>
      BY <1>7, <3>1
    <3>3. rank_functions_ \o <<f>> \in Seq(Masks(command.functions))
      BY <2>1 DEF Labelled
    <3>4. rank_functions_' \in Seq(Masks(command.functions))
      BY <2>1, <3>1, <3>2, <3>3, Zenon DEF Labelled
    <3>. QED
      BY <1>1, <2>1, <3>1, <3>4 DEF Labelled
  <2>4. CASE RecordLatency
    <3>. DEFINE e == [function |-> current.diff[1], latency |-> sum \div trials]
                all == Append(rdrd_latencies, e)
    <3>1. /\ rdrd_latencies' \in IF loop = Len(calls) THEN Sortings(all) ELSE {all}
          /\ rank_functions_' = rank_functions_ /\ current.oracle = "rdrd"
      BY <2>4 DEF RecordLatency, EndLoop
    <3>2. e.function \in Masks(command.functions)
      BY <1>7, <3>1
    <3>. HIDE DEF e
    <3>3. /\ all \in Seq(Masks(rdrd_latencies) \cup {e})
          /\ Masks(all) = Masks(rdrd_latencies) \cup {e}
      BY <2>1, LatencyIsRecorded, Zenon DEF Labelled
    <3>. HIDE DEF all
    <3>4. /\ rdrd_latencies' \in Seq(Masks(rdrd_latencies'))
          /\ Masks(rdrd_latencies') = Masks(all)
      BY <3>1, <3>3, SortingsMove
    <3>5. ASSUME NEW r \in Masks(all) PROVE r.function \in Masks(command.functions)
      BY <2>1, <3>2, <3>3, Zenon DEF Labelled, Masks
    <3>6. ASSUME NEW k \in DOMAIN rdrd_latencies'
          PROVE  rdrd_latencies'[k] \in Masks(all)
      <4>1. rdrd_latencies'[k] \in Masks(rdrd_latencies')
        BY DEF Masks
      <4>. QED
        BY <3>4, <4>1
    <3>7. (rdrd_latencies \in Seq(Masks(rdrd_latencies)))'
      BY <3>4 DEF Masks
    <3>. QED
      BY <1>1, <2>1, <3>1, <3>5, <3>6, <3>7 DEF Labelled
  <2>. QED
    BY <2>2, <2>3, <2>4
<1>. QED
  BY <1>2, <1>3, <1>5, <1>6, <1>8 DEF SessionInv

(* Nothing is lost when nothing happens.                                   *)
LEMMA SessionStutters ==
  ASSUME SessionInv, UNCHANGED vars
  PROVE  SessionInv'
<1>1. /\ command' = command /\ layout' = layout /\ pages' = pages /\ calls' = calls
      /\ pc' = pc /\ loop' = loop /\ UNCHANGED <<session, results>>
  BY DEF vars
<1>2. Begun' /\ (SetUp => SetUp')
  BY <1>1, StaysBegun DEF SessionInv
<1>3. Placed' /\ Counted' /\ Held' /\ Labelled'
  BY <1>1, <1>2
     DEF SessionInv, Placed, Drawn, Counted, Held, Labelled, session, results, current
<1>. QED
  BY <1>2, <1>3 DEF SessionInv

(* Together, every step keeps the invariant,                               *)
LEMMA SessionSteps ==
  ASSUME SessionInv, [Next]_vars
  PROVE  SessionInv'
<1>1. CASE UNCHANGED vars
  BY <1>1, SessionStutters
<1>2. CASE Initialize \/ InitializeFails \/ UnsupportedMode \/ Finalize
  BY <1>2, PoolStepsKeep
<1>3. CASE DrawFirst \/ DrawSecond \/ DrawPartner \/ DrawStreams \/ StreamsMissed
  BY <1>3, DrawStepsKeep
<1>4. CASE LogStatistics \/ ScoreInterval \/ AddLatency
  BY <1>4, MeasurementsKeep
<1>5. CASE EndLog \/ LabelFunction \/ RecordLatency
  BY <1>5, EndsKeep
<1>6. CASE PartnerMissed \/ Terminated
  BY <1>6, SessionStutters DEF PartnerMissed, Terminated
<1>. QED
  BY <1>1, <1>2, <1>3, <1>4, <1>5, <1>6 DEF Next

(* which thus always holds.                                                *)
LEMMA SessionKept == Spec => []SessionInv
BY SessionInit, SessionSteps, PTL DEF Spec

(* A session stays in range: loops, trials and scores do not pass their    *)
(* ends, every address fits into a word, and only functions that were      *)
(* given are labelled, whatever the command.                               *)
THEOREM SessionTyped == Spec => []TypeOK
<1>1. ASSUME SessionInv PROVE TypeOK
  <2>1. IsPrefix(pages, layout.pages)
    <3>1. CASE pages = <<>>
      <4>1. layout.pages \in Seq({v \in Nat : v > 0 /\ v % page_size = 0})
        BY <1>1, PoolAssumption, Zenon DEF SessionInv, Begun
      <4>2. Len(<<>>) = 0 /\ Len(layout.pages) \in Nat
            /\ SubSeq(<<>>, 1, 0) = <<>> /\ SubSeq(layout.pages, 1, 0) = <<>>
        BY <4>1
      <4>. QED
        BY <3>1, <4>2 DEF IsPrefix
    <3>2. CASE SetUp
      <4>. DEFINE all == layout.pages
      <4>1. /\ all \in Seq({v \in Nat : v > 0 /\ v % page_size = 0})
            /\ num_pages \in Nat /\ num_pages <= Len(all)
            /\ pages = SubSeq(all, 1, num_pages)
        BY <1>1, <3>2, PoolAssumption, Sizes, Zenon DEF SessionInv, Begun, SetUp
      <4>. HIDE DEF all
      <4>2. /\ Len(pages) = num_pages
            /\ \A k \in 1 .. num_pages : pages[k] = all[k]
            /\ pages \in Seq({v \in Nat : v > 0 /\ v % page_size = 0})
        BY <4>1
      <4>3. SubSeq(pages, 1, num_pages) = pages
        BY <4>1, <4>2
      <4>4. Len(pages) <= Len(all) /\ SubSeq(pages, 1, Len(pages)) = SubSeq(all, 1, Len(pages))
        BY <4>1, <4>2, <4>3
      <4>. QED
        BY <4>4 DEF IsPrefix, all
    <3>. QED
      BY <1>1, <3>1, <3>2 DEF SessionInv, Placed
  <2>2. /\ pc \in {"start", "loop", "two", "partner", "streams", "measure", "done", "exit"}
        /\ loop \in 1 .. Len(calls) + 1 /\ {first, second} \subseteq Tuples
    BY <1>1 DEF SessionInv, Placed, Held
  <2>3. /\ trials \in 0 .. IF loop <= Len(calls) THEN current.rounds ELSE 0
        /\ loop <= Len(calls) /\ current.oracle = "refresh" => sum <= trials
        /\ loop <= Len(calls) /\ current.oracle = "log" => sum = 0
    <3>1. CASE loop <= Len(calls)
      <4>1. /\ trials \in 0 .. current.rounds
            /\ current.oracle = "refresh" => sum \in 0 .. trials
            /\ current.oracle = "log" => sum = 0
        BY <1>1, <3>1 DEF SessionInv, Counted
      <4>2. Len(calls) \in Nat /\ current.rounds \in Nat
        <5>1. Len(calls) \in Nat
          BY <1>1, CallsAreKnown DEF SessionInv, Begun, Known
        <5>2. loop \in 1 .. Len(calls)
          BY <2>2, <3>1, <5>1
        <5>. QED
          BY <1>1, <5>1, <5>2, CurrentLoop DEF SessionInv, current
      <4>3. \A n, m \in Int : m \in 0 .. n => m <= n
        OBVIOUS
      <4>4. trials \in Int
        BY <4>1, <4>2
      <4>5. \A m : m \in 0 .. trials => m <= trials
        BY <4>4
      <4>. QED
        BY <3>1, <4>1, <4>5
    <3>2. CASE ~(loop <= Len(calls))
      BY <1>1, <3>2 DEF SessionInv, Counted
    <3>. QED
      BY <3>1, <3>2
  <2>4. Masks(rank_functions_) \subseteq Masks(command.functions)
    BY <1>1 DEF SessionInv, Labelled, Masks
  <2>5. {rdrd_latencies[k].function : k \in DOMAIN rdrd_latencies}
          \subseteq Masks(command.functions)
    BY <1>1 DEF SessionInv, Labelled
  <2>. QED
    BY <2>1, <2>2, <2>3, <2>4, <2>5 DEF TypeOK
<1>. QED
  BY <1>1, SessionKept, PTL

-----------------------------------------------------------------------------
(* A line is still one when the pool has not changed.                      *)
LEMMA LinesStay ==
  ASSUME layout' = layout, pages' = pages, NEW t, IsLine(t)
  PROVE  (first' = t => IsLine(first)') /\ (second' = t => IsLine(second)')
BY DEF IsLine, PoolLines, VirtToPhys

(* What is found for a word of line bits is a line, with the address that  *)
(* was looked for.                                                         *)
LEMMA FoundInPool ==
  ASSUME Begun, SetUp, Contiguous(layout),
         NEW x \in LineWords, PhysToVirt(Physical(x)) # 0
  PROVE  /\ PhysToVirt(Physical(x)) \in PoolLines
         /\ VirtToPhys(PhysToVirt(Physical(x))) = Physical(x)
         /\ WithoutOffset(Physical(x)) = x
<1>1. MachineFits
  BY MachineOfSession DEF Begun
<1>2. x \in Words
  BY LineWordsAreWords
<1>3. /\ Physical(x) \in Nat /\ Physical(x) % granularity = 0
      /\ WithoutOffset(Physical(x)) = x
  <2>1. \A n \in Numbers : n \in Nat
    BY Widths DEF Numbers
  <2>. QED
    BY <1>1, <1>2, <2>1, OffsetRoundTrip
<1>4. ASSUME NEW k \in DOMAIN pages PROVE VirtToPhys(pages[k]) % granularity = 0
  <2>1. pages[k] \in PoolLines
    <3>1. pages[k] = pages[k] + 0 * granularity
      BY PoolPages, Sizes
    <3>2. 0 \in 0 .. (page_size \div granularity) - 1
      <4>1. 0 \in 0 .. page_size - 1 /\ 0 \div granularity = 0
        BY Sizes
      <4>. QED
        BY <4>1, LinesOfPage
    <3>. QED
      BY <3>1, <3>2 DEF PoolLines
  <2>. QED
    BY <1>1, <2>1, LinesAreInMemory DEF Begun, InMemory
<1>. QED
  BY <1>3, <1>4, FoundIsLine

(* A partner is a line that satisfies the constraints.                     *)
Satisfies(y, x) ==
  /\ ~Separates(current.same, x, y)
  /\ \A f \in Masks(current.diff) : Separates({f}, x, y)

(* So a candidate that is in the pool is what was asked for.               *)
LEMMA PartnerIsAsked ==
  ASSUME Begun, SetUp, Contiguous(layout),
         NEW tuple \in Candidates, tuple.vaddr # 0
  PROVE  /\ IsLine(tuple)
         /\ Satisfies(WithoutOffset(tuple.paddr), WithoutOffset(first.paddr))
<1>1. PICK x \in Wanted(current.same, Masks(current.diff), WithoutOffset(first.paddr)) :
        tuple = [vaddr |-> PhysToVirt(Physical(x)), paddr |-> Physical(x)]
  BY DEF Candidates
<1>2. x \in LineWords
  BY WantedAreWords, LineWordsAreWords, MachineOfSession DEF Begun
<1>3. tuple.vaddr = PhysToVirt(Physical(x)) /\ tuple.paddr = Physical(x)
  BY <1>1
<1>4. IsLine(tuple) /\ WithoutOffset(tuple.paddr) = x
  BY <1>2, <1>3, FoundInPool DEF IsLine
<1>5. Satisfies(x, WithoutOffset(first.paddr))
  BY DEF Wanted, Satisfies, Separates
<1>. QED
  BY <1>4, <1>5

(* What holds of the addresses of a round.                                 *)
Asked ==
  /\ Drawn => IsLine(first)
  /\ pc \in {"streams", "measure"} /\ current.draw # "one" =>
       IsLine(second) /\ (current.draw = "two" => second # first)
  /\ pc \in {"streams", "measure"} /\ current.draw = "partner" =>
       Satisfies(WithoutOffset(second.paddr), WithoutOffset(first.paddr))

(* It implies what is said of the pairs that are measured.                 *)
LEMMA AskedForPairs ==
  ASSUME Asked
  PROVE  PairsAsAsked
<1>1. /\ WithoutOffset(second.paddr) = Bits[(second.paddr - PCI_OFFSET) % 2^WordBits]
      /\ WithoutOffset(first.paddr) = Bits[(first.paddr - PCI_OFFSET) % 2^WordBits]
  BY DEF WithoutOffset
<1>2. ASSUME pc \in {"streams", "measure"}, current.draw = "partner"
      PROVE  Satisfies(WithoutOffset(second.paddr), WithoutOffset(first.paddr))
  BY <1>2 DEF Asked
<1>3. ASSUME pc \in {"streams", "measure"}
      PROVE  /\ IsLine(first)
             /\ current.draw # "one" =>
                  IsLine(second) /\ (current.draw = "two" => second # first)
  BY <1>3 DEF Asked, Drawn
<1>. QED
  BY <1>1, <1>2, <1>3 DEF PairsAsAsked, Satisfies

(* A pair still satisfies the constraints when the loop has not ended.     *)
LEMMA PairStays ==
  ASSUME UNCHANGED <<command, calls, loop>>, NEW f, NEW s, first' = f, second' = s,
         Satisfies(WithoutOffset(s.paddr), WithoutOffset(f.paddr))
  PROVE  Satisfies(WithoutOffset(second.paddr), WithoutOffset(first.paddr))'
BY DEF Satisfies, WithoutOffset, PCI_OFFSET, current

(* Every step keeps it: draws establish it, measurements need it no more.  *)
LEMMA AskedSteps ==
  ASSUME SessionInv, [Next]_vars, Contiguous(layout) => Asked
  PROVE  Contiguous(layout') => Asked'
<1>1. layout' = layout
  BY PoolSteps
<1>. SUFFICES ASSUME Contiguous(layout), Asked PROVE Asked'
  BY <1>1
<1>2. CASE pc' \notin {"two", "partner", "streams", "measure"}
  BY <1>2 DEF Asked, Drawn
<1>4. ASSUME UNCHANGED <<pc, first, second, command, layout, pages, calls, loop>>
      PROVE  Asked'
  <2>. PICK f : f = first
    OBVIOUS
  <2>. PICK s : s = second
    OBVIOUS
  <2>1. /\ IsLine(f) => IsLine(first)'
        /\ IsLine(s) => IsLine(second)'
        /\ current' = current
    BY <1>4, LinesStay DEF current
  <2>. QED
    BY <1>4, <2>1, PairStays DEF Asked, Drawn
<1>5. Begun
  BY DEF SessionInv
<1>6. ASSUME DrawFirst PROVE Asked'
  <2>1. /\ first' \in RandomAddressTuples /\ pc = "loop" /\ loop <= Len(calls)
        /\ pc' = IF current.draw = "one" THEN "measure" ELSE current.draw
        /\ UNCHANGED <<command, layout, pages, calls, loop>>
    BY <1>6 DEF DrawFirst, Round
  <2>. PICK f : f = first'
    OBVIOUS
  <2>2. IsLine(first)'
    BY <2>1, RandomTuplesAreLines, LinesStay
  <2>3. current.draw \in {"one", "two", "partner"} /\ current' = current
    <3>1. loop \in 1 .. Len(calls)
      BY <1>5, <2>1, CallsAreKnown DEF SessionInv, Placed, Begun, Known
    <3>. QED
      BY <1>5, <2>1, <3>1, CurrentLoop DEF current
  <2>4. pc' \in {"streams", "measure"} => current.draw = "one"
    BY <2>1, <2>3
  <2>. QED
    BY <2>2, <2>3, <2>4 DEF Asked
<1>7. ASSUME DrawSecond \/ DrawPartner PROVE Asked'
  <2>1. /\ first' = first /\ pc \in {"two", "partner"} /\ current.draw = pc /\ SetUp
        /\ UNCHANGED <<command, layout, pages, calls, loop>> /\ current' = current
    BY <1>7 DEF DrawSecond, DrawPartner, Round, SessionInv, Placed, Drawn, current
  <2>. PICK f : f = first
    OBVIOUS
  <2>. PICK s : s = second'
    OBVIOUS
  <2>2. IsLine(f) /\ IsLine(first)'
    BY <2>1, LinesStay DEF Asked, Drawn
  <2>3. CASE DrawSecond
    <3>1. s \in RandomAddressTuples /\ s.vaddr # f.vaddr /\ pc = "two"
      BY <2>3 DEF DrawSecond
    <3>2. IsLine(second)' /\ s # f
      BY <2>1, <3>1, RandomTuplesAreLines, LinesStay
    <3>. QED
      BY <2>1, <2>2, <3>1, <3>2 DEF Asked
  <2>4. CASE DrawPartner
    <3>1. s \in Candidates /\ s.vaddr # 0 /\ pc = "partner"
      BY <2>4 DEF DrawPartner
    <3>2. IsLine(s) /\ Satisfies(WithoutOffset(s.paddr), WithoutOffset(first.paddr))
      BY <1>5, <2>1, <3>1, PartnerIsAsked
    <3>3. IsLine(second)'
      BY <2>1, <3>2, LinesStay
    <3>4. Satisfies(WithoutOffset(second.paddr), WithoutOffset(first.paddr))'
      BY <2>1, <3>2, PairStays
    <3>. QED
      BY <2>1, <2>2, <3>1, <3>3, <3>4 DEF Asked
  <2>. QED
    BY <1>7, <2>3, <2>4
<1>8. ASSUME DrawStreams PROVE Asked'
  <2>1. /\ first' = first /\ second' = second /\ pc = "streams"
        /\ UNCHANGED <<command, layout, pages, calls, loop>> /\ current' = current
    BY <1>8 DEF DrawStreams, Round, current
  <2>. PICK f : f = first
    OBVIOUS
  <2>. PICK s : s = second
    OBVIOUS
  <2>2. /\ IsLine(f) => IsLine(first)'
        /\ IsLine(s) => IsLine(second)'
    BY <2>1, LinesStay
  <2>. QED
    BY <2>1, <2>2, PairStays DEF Asked, Drawn
<1>. QED
  <2>1. CASE UNCHANGED vars
    BY <1>4, <2>1 DEF vars, session
  <2>2. CASE Initialize \/ InitializeFails \/ UnsupportedMode \/ Finalize
    BY <1>2, <2>2 DEF Initialize, InitializeFails, UnsupportedMode, Finalize
  <2>3. CASE StreamsMissed \/ LogStatistics \/ ScoreInterval \/ AddLatency
    BY <1>2, <2>3
       DEF StreamsMissed, LogStatistics, ScoreInterval, AddLatency, Measured, Forget
  <2>4. CASE EndLog \/ LabelFunction \/ RecordLatency
    BY <1>2, <2>4 DEF EndLog, LabelFunction, RecordLatency, EndLoop
  <2>5. CASE PartnerMissed \/ Terminated
    BY <1>4, <2>5 DEF PartnerMissed, Terminated, vars, session
  <2>. QED
    BY <1>6, <1>7, <1>8, <2>1, <2>2, <2>3, <2>4, <2>5 DEF Next

(* What is measured is what was asked for, in every pool of contiguous     *)
(* pages and for every command: both addresses are lines of the pool with  *)
(* their physical addresses, and the constraints hold of them.  That pages *)
(* share no frame is not needed.                                           *)
THEOREM PairsMeasuredAreAsked == Spec => [](Contiguous(layout) => PairsAsAsked)
<1>1. Init => (Contiguous(layout) => Asked)
  BY DEF Init, Asked, Drawn
<1>2. SessionInv /\ (Contiguous(layout) => Asked) /\ [Next]_vars
      => (Contiguous(layout) => Asked)'
  BY AskedSteps
<1>3. (Contiguous(layout) => Asked) => (Contiguous(layout) => PairsAsAsked)
  BY AskedForPairs
<1>. QED
  BY <1>1, <1>2, <1>3, SessionKept, PTL DEF Spec

-----------------------------------------------------------------------------
(* The digits of a number below a place are those of the remainder, the    *)
(* others those of the quotient.                                           *)
LEMMA DivDiv ==
  ASSUME NEW n \in Nat, NEW a \in Nat \ {0}, NEW b \in Nat \ {0}
  PROVE  n \div (a * b) = (n \div a) \div b
<1>. DEFINE q == n \div a
            r == n % a
            s == q \div b
            t == q % b
<1>1. q \in Nat /\ r \in 0 .. a - 1 /\ n = q * a + r
  BY DivMod, Zenon
<1>. HIDE DEF q, r
<1>2. s \in Nat /\ t \in 0 .. b - 1 /\ q = s * b + t
  BY <1>1, DivMod, Zenon
<1>. HIDE DEF s, t
<1>3. n = s * (a * b) + (t * a + r)
  <2>1. q * a = (s * b) * a + t * a
    BY <1>2, Distribute
  <2>2. (s * b) * a = s * (a * b)
    <3>1. \A x, y, z \in Nat : (x * y) * z = x * (z * y)
      OBVIOUS
    <3>. QED
      BY <1>2, <3>1
  <2>3. s * (a * b) \in Nat /\ t * a \in Nat
    BY <1>2
  <2>. QED
    BY <1>1, <2>1, <2>2, <2>3
<1>4. t * a + r \in 0 .. a * b - 1 /\ a * b \in Nat \ {0}
  <2>1. \A x \in Nat, y \in Nat : x <= y => x * a <= y * a
    OBVIOUS
  <2>2. t <= b - 1 /\ t \in Nat /\ b - 1 \in Nat
    BY <1>2
  <2>3. t * a <= (b - 1) * a /\ t * a \in Nat
    BY <2>1, <2>2
  <2>4. (b - 1) * a = a * b - a /\ a * b \in Nat \ {0}
    OBVIOUS
  <2>. QED
    BY <1>1, <2>3, <2>4
<1>. DEFINE R == t * a + r
            P == a * b
<1>. HIDE DEF R, P
<1>5. n \div P = s
  BY <1>2, <1>3, <1>4, DivUnique DEF R, P
<1>. QED
  BY <1>5 DEF P, s, q

(* A digit from a place on is one of the quotient,                         *)
LEMMA HighDigit ==
  ASSUME NEW n \in Nat, NEW m \in Nat, NEW b \in Nat, m <= b
  PROVE  Digit(n, b) = Digit(n \div 2^m, b - m)
<1>1. b - m \in Nat /\ b = m + (b - m)
  OBVIOUS
<1>2. 2^b = 2^m * 2^(b - m) /\ 2^m \in Nat \ {0} /\ 2^(b - m) \in Nat \ {0}
  BY <1>1, PowerSum, TwoPower
<1>3. n \div (2^m * 2^(b - m)) = (n \div 2^m) \div 2^(b - m)
  BY <1>2, DivDiv, Zenon
<1>. QED
  BY <1>2, <1>3 DEF Digit

(* one below it is one of the remainder.                                   *)
LEMMA LowDigit ==
  ASSUME NEW n \in Nat, NEW m \in Nat, NEW b \in 0 .. m - 1
  PROVE  Digit(n, b) = Digit(n % 2^m, b)
<1>. DEFINE q == n \div 2^m
            r == n % 2^m
            k == m - b - 1
            B == 2^b
            K == 2^k
            s == r \div B
            t == r % B
<1>1. b \in Nat /\ k \in Nat /\ m = b + (k + 1) /\ k + 1 \in Nat
  OBVIOUS
<1>2. /\ 2^m = B * (2 * K) /\ 2^m \in Nat \ {0}
      /\ B \in Nat \ {0} /\ K \in Nat \ {0}
  <2>. HIDE DEF k
  <2>1. 2^(b + (k + 1)) = 2^b * 2^(k + 1)
    BY <1>1, PowerSum
  <2>2. 2^(k + 1) = 2 * 2^k /\ 2^k \in Nat \ {0} /\ 2^b \in Nat \ {0} /\ 2^m \in Nat \ {0}
    BY <1>1, TwoPower
  <2>. QED
    BY <1>1, <2>1, <2>2
<1>3. q \in Nat /\ r \in 0 .. 2^m - 1 /\ n = q * 2^m + r
  BY <1>2, DivMod, Zenon
<1>. HIDE DEF q, r, k
<1>4. s \in Nat /\ t \in 0 .. B - 1 /\ r = s * B + t
  <2>1. r \in Nat
    BY <1>2, <1>3
  <2>. HIDE DEF B
  <2>. QED
    BY <1>2, <2>1, DivMod, Zenon
<1>. HIDE DEF s, t, B, K
<1>5. n = (2 * (q * K) + s) * B + t
  <2>1. \A w, x, y, z \in Nat : w * (x * (2 * y)) + z * x = (2 * (w * y) + z) * x
    OBVIOUS
  <2>2. q * (B * (2 * K)) + s * B = (2 * (q * K) + s) * B
    BY <1>2, <1>3, <1>4, <2>1
  <2>3. q * (B * (2 * K)) \in Nat /\ s * B \in Nat
    BY <1>2, <1>3, <1>4
  <2>. QED
    BY <1>2, <1>3, <1>4, <2>2, <2>3
<1>6. 2 * (q * K) + s \in Nat /\ q * K \in Nat
  BY <1>2, <1>3, <1>4
<1>7. n \div B = 2 * (q * K) + s
  <2>. DEFINE Q == 2 * (q * K) + s
  <2>. HIDE DEF Q
  <2>1. n = Q * B + t /\ Q \in Nat
    BY <1>5, <1>6 DEF Q
  <2>2. n \div B = Q
    BY <1>2, <1>4, <2>1, DivUnique
  <2>. QED
    BY <2>2 DEF Q
<1>8. \A x, y \in Nat : (2 * x + y) % 2 = y % 2
  OBVIOUS
<1>9. (n \div B) % 2 = s % 2
  BY <1>4, <1>6, <1>7, <1>8
<1>. QED
  BY <1>9 DEF Digit, s, B, r

(* Numbers that agree in the bits above a place have the same quotient.    *)
LEMMA SameHighBits ==
  ASSUME NEW n \in Numbers, NEW k \in Numbers, NEW m \in 0 .. WordBits,
         \A b \in m .. WordBits - 1 : b \in Bits[n] <=> b \in Bits[k]
  PROVE  n \div 2^m = k \div 2^m
<1>. DEFINE d == WordBits - m
            M == 2^m
            D == 2^d
<1>1. n \in Nat /\ k \in Nat /\ m \in Nat /\ d \in Nat /\ WordBits = d + m /\ WordBits \in Nat
  BY Widths DEF Numbers
<1>. HIDE DEF d
<1>2. 2^WordBits = D * M /\ M \in Nat \ {0} /\ D \in Nat \ {0}
  BY <1>1, PowerSum, TwoPower
<1>. HIDE DEF M, D
<1>3. ASSUME NEW x \in Numbers PROVE x \div M \in 0 .. D - 1
  <2>. DEFINE q == x \div M
  <2>1. x \in Nat /\ x < D * M
    BY <1>2, Widths DEF Numbers
  <2>2. q \in Nat /\ x % M \in 0 .. M - 1 /\ x = q * M + (x % M)
    BY <1>2, <2>1, DivMod, Zenon
  <2>. HIDE DEF q
  <2>3. q * M \in Nat /\ D * M \in Nat
    BY <1>2, <2>2
  <2>4. q * M < D * M
    BY <1>2, <2>1, <2>2, <2>3
  <2>5. q < D
    BY <1>2, <2>2, <2>4, Cancel
  <2>6. q \in 0 .. D - 1
    BY <1>2, <2>2, <2>5
  <2>. QED
    BY <2>6 DEF q
<1>4. ASSUME NEW b \in 0 .. d - 1 PROVE Digit(n \div M, b) = Digit(k \div M, b)
  <2>1. /\ b + m \in m .. WordBits - 1 /\ b + m \in 0 .. WordBits - 1
        /\ b + m \in Nat /\ m <= b + m /\ (b + m) - m = b
    BY <1>1
  <2>2. Digit(n, b + m) = Digit(n \div M, b) /\ Digit(k, b + m) = Digit(k \div M, b)
    <3>. DEFINE c == b + m
    <3>1. c \in Nat /\ m <= c /\ c - m = b
      BY <2>1
    <3>. HIDE DEF c
    <3>2. Digit(n, c) = Digit(n \div M, c - m) /\ Digit(k, c) = Digit(k \div M, c - m)
      BY <1>1, <3>1, HighDigit DEF M
    <3>. QED
      BY <3>1, <3>2 DEF c
  <2>3. Digit(n, b + m) \in {0, 1} /\ Digit(k, b + m) \in {0, 1}
    BY <1>1, <2>1, BitIsDigit
  <2>4. /\ b + m \in Bits[n] <=> Digit(n, b + m) = 1
        /\ b + m \in Bits[k] <=> Digit(k, b + m) = 1
    BY <2>1, BitsAre
  <2>5. b + m \in Bits[n] <=> b + m \in Bits[k]
    BY <2>1
  <2>. QED
    BY <2>2, <2>3, <2>4, <2>5
<1>5. (n \div M) % D = (k \div M) % D
  <2>. DEFINE x == n \div M
              y == k \div M
  <2>1. x \in Nat /\ y \in Nat /\ d \in Nat
    BY <1>1, <1>2, <1>3
  <2>2. \A b \in 0 .. d - 1 : Digit(x, b) = Digit(y, b)
    BY <1>4
  <2>. HIDE DEF x, y
  <2>3. x % 2^d = y % 2^d
    BY <2>1, <2>2, DigitsDecide, Zenon
  <2>. QED
    BY <2>3 DEF x, y, D
<1>6. \A r \in 0 .. D - 1 : r % D = r
  BY <1>2
<1>. QED
  BY <1>3, <1>5, <1>6 DEF M

-----------------------------------------------------------------------------
(* The hole begins and ends on a block of the addresses that differ in the *)
(* column bits that are used, or in less.                                  *)
Columns == column_bits_ \ UNION Masks(addressing_functions_)

HoleAligned ==
  \E m \in 0 .. WordBits :
    /\ Columns \subseteq 0 .. m - 1
    /\ command.PCI_LOWER % 2^m = 0 /\ command.PCI_UPPER % 2^m = 0

(* A block of 2^m addresses moves as a whole.                              *)
LEMMA BlockMod ==
  ASSUME NEW a \in Int, NEW c \in Nat \ {0}, NEW r \in 0 .. c - 1, NEW p \in Nat \ {0}
  PROVE  (a * c + r) % (p * c) = (a % p) * c + r
<1>. DEFINE q == a \div p
            s == a % p
            P == p * c
            R == s * c + r
<1>1. q \in Int /\ s \in 0 .. p - 1 /\ a = q * p + s
  BY ModDiv
<1>. HIDE DEF q, s
<1>2. a * c + r = q * P + R
  <2>1. (q * p + s) * c = (q * p) * c + s * c /\ (q * p) * c = q * (p * c)
    BY <1>1, Minus
  <2>2. q * (p * c) \in Int /\ s * c \in Int
    BY <1>1
  <2>. QED
    BY <1>1, <2>1, <2>2
<1>3. R \in 0 .. P - 1 /\ P \in Nat \ {0}
  <2>1. \A x \in Nat, y \in Nat : x <= y => x * c <= y * c
    OBVIOUS
  <2>2. s <= p - 1 /\ s \in Nat /\ p - 1 \in Nat
    BY <1>1
  <2>3. s * c <= (p - 1) * c /\ s * c \in Nat
    BY <2>1, <2>2
  <2>4. (p - 1) * c = p * c - c /\ p * c \in Nat \ {0}
    OBVIOUS
  <2>. QED
    BY <2>3, <2>4
<1>. HIDE DEF P, R
<1>4. (q * P + R) % P = R
  BY <1>1, <1>3, ModUnique
<1>. QED
  BY <1>2, <1>4 DEF P, R, s

(* A multiple is its quotient times the divisor.                           *)
LEMMA MultipleOf ==
  ASSUME NEW a \in Int, NEW b \in Nat \ {0}, a % b = 0
  PROVE  a \div b \in Int /\ a = (a \div b) * b
<1>. DEFINE q == a \div b
<1>1. q \in Int /\ a = q * b + 0
  BY ModDiv
<1>. HIDE DEF q
<1>2. q * b \in Int
  BY <1>1
<1>. QED
  BY <1>1, <1>2 DEF q

(* The number of an address and the address of the program differ by the   *)
(* offset, and not within a block that the offset is a multiple of.        *)
LEMMA OffsetKeepsBlocks ==
  ASSUME NEW m \in 0 .. WordBits, NEW n \in Numbers, NEW o \in Nat, o % 2^m = 0
  PROVE  /\ ((n + o) % 2^WordBits) % 2^m = n % 2^m
         /\ ((n + o) % 2^WordBits) \div 2^m
              = ((n \div 2^m) + (o \div 2^m)) % 2^(WordBits - m)
<1>. DEFINE M == 2^m
            D == 2^(WordBits - m)
            q == n \div M
            r == n % M
            u == o \div M
            a == q + u
<1>1. m \in Nat /\ WordBits - m \in Nat /\ WordBits = (WordBits - m) + m
  BY Widths
<1>2. 2^WordBits = D * M /\ M \in Nat \ {0} /\ D \in Nat \ {0}
  BY <1>1, PowerSum, TwoPower, Zenon
<1>. HIDE DEF M, D
<1>3. n \in Nat /\ q \in Nat /\ r \in 0 .. M - 1 /\ n = q * M + r
  <2>1. n \in Nat
    BY Widths DEF Numbers
  <2>. QED
    BY <1>2, <2>1, DivMod, Zenon
<1>4. u \in Nat /\ o = u * M
  <2>1. o % M = 0
    BY DEF M
  <2>2. u \in Nat
    BY <1>2, DivMod, Zenon
  <2>. QED
    BY <1>2, <2>1, <2>2, MultipleOf
<1>. HIDE DEF q, r, u
<1>5. n + o = a * M + r /\ a \in Int
  <2>1. (q + u) * M = q * M + u * M /\ q * M \in Nat /\ u * M \in Nat
    BY <1>2, <1>3, <1>4, Distribute
  <2>. QED
    BY <1>2, <1>3, <1>4, <2>1
<1>. HIDE DEF a
<1>6. (n + o) % (D * M) = (a % D) * M + r
  <2>1. (a * M + r) % (D * M) = (a % D) * M + r
    BY <1>2, <1>3, <1>5, BlockMod, Zenon
  <2>. QED
    BY <1>5, <2>1
<1>7. a % D \in Nat
  BY <1>2, <1>5, ModDiv
<1>. DEFINE e == a % D
<1>. HIDE DEF e
<1>8. (e * M + r) \div M = e /\ (e * M + r) % M = r
  BY <1>2, <1>3, <1>7, DivUnique, Zenon DEF e
<1>9. (n + o) % 2^WordBits = e * M + r
  BY <1>2, <1>6 DEF e
<1>10. ((n + o) % 2^WordBits) % M = r /\ ((n + o) % 2^WordBits) \div M = e
  BY <1>8, <1>9
<1>11. e = ((n \div M) + (o \div M)) % D /\ r = n % M
  BY DEF e, a, q, u, r
<1>. QED
  BY <1>10, <1>11 DEF M, D

(* A word that differs in the low bits alone is found at an address that   *)
(* differs in those: the memory sees the bits the program changed.         *)
LEMMA LowBitsArrive ==
  ASSUME MachineFits, NEW m \in 0 .. WordBits,
         command.PCI_LOWER % 2^m = 0, command.PCI_UPPER % 2^m = 0,
         NEW paddr, InMemory(paddr), NEW offset \in SUBSET (0 .. m - 1),
         NEW y, y = Xor(WithoutOffset(paddr), offset), InMemory(Physical(y))
  PROVE  DRAMAddress(Physical(y)) = Xor(DRAMAddress(paddr), offset)
<1>. DEFINE P == 2^WordBits
            M == 2^m
            D == 2^(WordBits - m)
            O == PCI_OFFSET
            n == (paddr - O) % P
            k == Num[y]
            other == Physical(y)
<1>1. /\ m \in Nat /\ WordBits - m \in Nat /\ WordBits \in Nat
      /\ 0 .. m - 1 \subseteq 0 .. WordBits - 1
  BY Widths
<1>2. P \in Nat \ {0} /\ M \in Nat \ {0} /\ D \in Nat \ {0}
  BY <1>1, TwoPower
<1>3. /\ O \in Nat /\ command.PCI_LOWER \in Nat /\ command.PCI_UPPER \in Nat
      /\ command.PCI_UPPER = command.PCI_LOWER + O
      /\ O % M = 0
  <2>1. /\ O \in Nat /\ command.PCI_LOWER \in Nat /\ command.PCI_UPPER \in Nat
        /\ command.PCI_UPPER = command.PCI_LOWER + O
    BY DEF MachineFits
  <2>2. O % M = 0
    <3>1. (command.PCI_UPPER - command.PCI_LOWER) % M = 0
      <4>1. command.PCI_UPPER \in Int /\ command.PCI_LOWER \in Int
        BY <2>1
      <4>2. command.PCI_UPPER % M = 0 /\ command.PCI_LOWER % M = 0
        OBVIOUS
      <4>. HIDE DEF M
      <4>. QED
        BY <1>2, <4>1, <4>2, Multiples
    <3>. QED
      BY <3>1 DEF PCI_OFFSET
  <2>. QED
    BY <2>1, <2>2
<1>4. paddr \in Numbers /\ other \in Numbers
  BY DEF InMemory
<1>5. n \in Numbers /\ Bits[n] = WithoutOffset(paddr) /\ paddr = (n + O) % P
  <2>1. paddr \in 0 .. P - 1 /\ paddr - O \in Int /\ -O \in Int
    BY <1>3, <1>4 DEF Numbers
  <2>. HIDE DEF P, O
  <2>2. n \in 0 .. P - 1
    BY <1>2, <2>1, ModDiv, Zenon
  <2>3. (((paddr + (-O)) % P) - (-O)) % P = paddr
    BY <1>2, <2>1, AddAndTakeOff, Zenon
  <2>4. paddr + (-O) = paddr - O
    BY <1>3, <2>1
  <2>5. n - (-O) = n + O
    BY <1>2, <1>3, <2>2
  <2>6. paddr = (n + O) % P
    BY <2>3, <2>4, <2>5
  <2>. QED
    BY <2>2, <2>6 DEF Numbers, WithoutOffset, P, O
<1>6. y \in Words /\ k \in Numbers /\ Bits[k] = y /\ other = (k + O) % P
  <2>1. WithoutOffset(paddr) \in Words
    BY <1>4, OffsetRoundTrip
  <2>2. y \in Words
    BY <1>1, <2>1, Zenon DEF Words, Xor
  <2>. QED
    BY <2>2, NumIsInverse DEF Physical
<1>. HIDE DEF n, k, other, O
<1>7. n \div M = k \div M
  <2>1. ASSUME NEW b \in m .. WordBits - 1 PROVE b \in Bits[n] <=> b \in Bits[k]
    <3>1. b \notin 0 .. m - 1
      BY <1>1
    <3>. QED
      BY <1>5, <1>6, <3>1 DEF Xor
  <2>. QED
    BY <1>5, <1>6, <2>1, SameHighBits DEF M
<1>. DEFINE s == paddr \div M
<1>8. /\ paddr % M = n % M /\ other % M = k % M
      /\ s = other \div M
  BY <1>3, <1>5, <1>6, <1>7, OffsetKeepsBlocks DEF M, P
<1>. HIDE DEF P, M, D
<1>9. /\ paddr \in Nat /\ other \in Nat /\ s \in Nat
      /\ paddr = s * M + (n % M) /\ n % M \in 0 .. M - 1
      /\ other = s * M + (k % M) /\ k % M \in 0 .. M - 1
  <2>1. paddr \in Nat /\ other \in Nat
    BY <1>4, Widths DEF Numbers
  <2>. QED
    BY <1>2, <1>8, <2>1, DivMod, Zenon
<1>. DEFINE x == IF paddr < command.PCI_LOWER THEN paddr ELSE paddr - O
            z == IF other < command.PCI_LOWER THEN other ELSE other - O
<1>10. /\ x \in Numbers /\ x % M = n % M
       /\ z \in Numbers /\ z % M = k % M
       /\ x \div M = z \div M
  <2>0. ASSUME NEW a \in Nat, a % M = 0 PROVE \E i \in Int : a = i * M
    <3>1. a \div M \in Int /\ a = (a \div M) * M
      BY <1>2, <2>0, MultipleOf
    <3>. QED
      BY <3>1
  <2>1. PICK l \in Int : command.PCI_LOWER = l * M
    <3>1. command.PCI_LOWER % M = 0
      BY DEF M
    <3>. QED
      BY <1>3, <2>0, <3>1
  <2>2. PICK o \in Int : O = o * M
    BY <1>3, <2>0
  <2>3. ASSUME NEW r \in 0 .. M - 1
        PROVE  s * M + r < command.PCI_LOWER <=> s < l
    <3>1. \A a, b \in Int : a < b => a * M + M <= b * M
      <4>. TAKE a, b \in Int
      <4>1. \A c \in Int : c >= 1 => c * M >= M
        BY <1>2
      <4>2. ASSUME a < b PROVE a * M + M <= b * M
        <5>1. b - a \in Int /\ b - a >= 1
          BY <4>2
        <5>2. (b - a) * M >= M /\ (b - a) * M = b * M - a * M
          BY <1>2, <4>1, <5>1, Minus
        <5>3. a * M \in Int /\ b * M \in Int
          BY <1>2
        <5>. QED
          BY <1>2, <5>2, <5>3
      <4>. QED
        BY <4>2
    <3>2. s * M \in Int /\ l * M \in Int /\ s \in Int
      BY <1>2, <1>9
    <3>3. s < l => s * M + M <= l * M
      BY <3>1, <3>2
    <3>4. l < s => l * M + M <= s * M
      BY <3>1, <3>2
    <3>5. s < l \/ l < s \/ s = l
      BY <3>2
    <3>. QED
      BY <1>2, <2>1, <3>2, <3>3, <3>4, <3>5
  <2>4. paddr < command.PCI_LOWER <=> other < command.PCI_LOWER
    BY <1>9, <2>3
  <2>5. ASSUME NEW p \in Numbers, NEW r \in 0 .. M - 1, p = s * M + r, InMemory(p),
               NEW w, w = IF p < command.PCI_LOWER THEN p ELSE p - O
        PROVE  /\ w \in Numbers /\ w % M = r
               /\ w \div M = IF p < command.PCI_LOWER THEN s ELSE s - o
    <3>1. CASE p < command.PCI_LOWER
      BY <1>2, <1>9, <2>5, <3>1, DivUnique, Zenon
    <3>2. CASE ~(p < command.PCI_LOWER)
      <4>1. p >= command.PCI_UPPER /\ w = p - O
        BY <2>5, <3>2 DEF InMemory
      <4>2. p \in 0 .. P - 1 /\ P \in Nat
        BY <1>2 DEF Numbers, P
      <4>3. w \in Numbers
        <5>1. w \in 0 .. P - 1
          BY <1>3, <4>1, <4>2
        <5>. QED
          BY <5>1 DEF Numbers, P
      <4>4. w = (s - o) * M + r
        <5>1. (s - o) * M = s * M - o * M /\ s * M \in Int /\ o * M \in Int
          BY <1>2, <1>9, Minus
        <5>. QED
          BY <2>2, <2>5, <4>1, <5>1
      <4>5. s - o \in Int
        BY <1>9
      <4>. DEFINE q == s - o
      <4>6. w = q * M + r /\ q \in Int
        BY <4>4, <4>5
      <4>. HIDE DEF q
      <4>7. w % M = r /\ w \div M = q
        BY <1>2, <4>6, ModUnique
      <4>. QED
        BY <3>2, <4>3, <4>7 DEF q
    <3>. QED
      BY <3>1, <3>2
  <2>6. InMemory(other)
    BY DEF other
  <2>7. /\ x \in Numbers /\ x % M = n % M
        /\ x \div M = IF paddr < command.PCI_LOWER THEN s ELSE s - o
    BY <1>4, <1>9, <2>5
  <2>8. /\ z \in Numbers /\ z % M = k % M
        /\ z \div M = IF other < command.PCI_LOWER THEN s ELSE s - o
    BY <1>4, <1>9, <2>5, <2>6
  <2>. QED
    BY <2>4, <2>7, <2>8
<1>. HIDE DEF x, z
<1>11. ASSUME NEW b \in 0 .. WordBits - 1
       PROVE  b \in Bits[z] <=> b \in Xor(Bits[x], offset)
  <2>1. ASSUME NEW c \in Numbers PROVE b \in Bits[c] <=> Digit(c, b) = 1
    BY BitsAre
  <2>2. b \in Nat /\ x \in Nat /\ z \in Nat /\ n \in Nat /\ k \in Nat
    BY <1>1, <1>5, <1>6, <1>10, Widths DEF Numbers
  <2>3. CASE b \in 0 .. m - 1
    <3>1. ASSUME NEW c \in Nat PROVE Digit(c, b) = Digit(c % M, b)
      BY <1>1, <2>3, LowDigit DEF M
    <3>2. Digit(x, b) = Digit(n, b) /\ Digit(z, b) = Digit(k, b)
      BY <1>10, <2>2, <3>1
    <3>3. /\ b \in Bits[x] <=> b \in Bits[n]
          /\ b \in Bits[z] <=> b \in Bits[k]
      BY <1>5, <1>6, <1>10, <2>1, <3>2
    <3>. QED
      BY <1>5, <1>6, <3>3 DEF Xor
  <2>4. CASE b \notin 0 .. m - 1
    <3>1. m <= b
      BY <1>1, <2>4
    <3>2. ASSUME NEW c \in Nat PROVE Digit(c, b) = Digit(c \div M, b - m)
      BY <1>1, <2>2, <3>1, HighDigit DEF M
    <3>3. Digit(x, b) = Digit(z, b)
      BY <1>10, <2>2, <3>2
    <3>4. b \in Bits[x] <=> b \in Bits[z]
      BY <1>10, <2>1, <3>3
    <3>. QED
      BY <2>4, <3>4 DEF Xor
  <2>. QED
    BY <2>3, <2>4
<1>12. Bits[z] = Xor(Bits[x], offset)
  <2>1. Bits[x] \in Words /\ Bits[z] \in Words
    BY <1>10, BitsAre
  <2>2. Xor(Bits[x], offset) \subseteq 0 .. WordBits - 1 /\ Bits[z] \subseteq 0 .. WordBits - 1
    BY <1>1, <2>1, Zenon DEF Words, Xor
  <2>. QED
    BY <1>11, <2>2, Zenon
<1>. QED
  BY <1>12 DEF DRAMAddress, x, z, other, O

(* The word of a line is one of a line.                                    *)
LEMMA LinesHaveLineWords ==
  ASSUME MachineFits, NEW paddr, InMemory(paddr)
  PROVE  WithoutOffset(paddr) \in LineWords
<1>. DEFINE P == 2^WordBits
            n == (paddr - PCI_OFFSET) % P
<1>1. /\ paddr \in Int /\ PCI_OFFSET \in Int /\ P \in Nat \ {0}
      /\ paddr % granularity = 0 /\ PCI_OFFSET % granularity = 0 /\ P % granularity = 0
  <2>1. paddr \in Int
    BY Widths DEF InMemory, Numbers
  <2>. QED
    BY <2>1, Widths DEF MachineFits, InMemory
<1>2. n \in Numbers /\ Bits[n] = WithoutOffset(paddr)
  <2>1. paddr - PCI_OFFSET \in Int
    BY <1>1
  <2>. HIDE DEF P
  <2>2. n \in 0 .. P - 1
    BY <1>1, <2>1, ModDiv, Zenon
  <2>. QED
    BY <2>2 DEF Numbers, P, WithoutOffset
<1>3. n % granularity = 0
  <2>. DEFINE o == PCI_OFFSET
              a == paddr - o
  <2>1. o \in Int /\ o % granularity = 0 /\ granularity \in Nat \ {0}
    BY <1>1, Sizes
  <2>2. paddr \in Int /\ paddr % granularity = 0
    BY <1>1
  <2>3. P \in Int /\ P \in Nat \ {0} /\ P % granularity = 0
    BY <1>1
  <2>. HIDE DEF o, P
  <2>4. a \in Int
    BY <2>1, <2>2
  <2>5. a % granularity = 0
    BY <2>1, <2>2, Multiples, Zenon
  <2>. HIDE DEF a
  <2>6. (a % P) % granularity = 0
    BY <2>1, <2>3, <2>4, <2>5, Multiples, Zenon
  <2>. QED
    BY <2>6 DEF a, o, P
<1>. HIDE DEF n, P
<1>4. ASSUME NEW b \in Bits[n] PROVE b \in CACHELINE_OFFSET .. WordBits - 1
  <2>1. b \in 0 .. WordBits - 1 /\ Digit(n, b) = 1 /\ n \in Nat
    BY <1>2, BitsAre, Widths DEF Words, Numbers
  <2>2. SUFFICES ASSUME b \in 0 .. CACHELINE_OFFSET - 1 PROVE FALSE
    BY <2>1, Widths
  <2>3. Digit(n, b) = Digit(n % 2^CACHELINE_OFFSET, b)
    BY <2>1, <2>2, LowDigit, Widths
  <2>4. n % 2^CACHELINE_OFFSET = 0
    BY <1>3, Widths
  <2>5. Digit(0, b) = 0
    <3>1. 2^b \in Nat \ {0}
      BY <2>2, TwoPower
    <3>2. \A x \in Nat \ {0} : 0 \div x = 0
      OBVIOUS
    <3>. QED
      BY <3>1, <3>2 DEF Digit
  <2>. QED
    BY <2>1, <2>3, <2>4, <2>5
<1>5. Bits[n] \subseteq CACHELINE_OFFSET .. WordBits - 1
  BY <1>4
<1>. QED
  BY <1>2, <1>5 DEF LineWords

(* With enough column bits, a sequence takes all its offsets from them.    *)
LEMMA EnoughOffsets ==
  ASSUME Begun, IsFiniteSet(column_bits_), NEW length \in Nat, EnoughColumns(length),
         NEW offsets \in RowBufferHitSequences(length)
  PROVE  /\ IsFiniteSet(offsets) /\ Cardinality(offsets) = length
         /\ \A offset \in offsets : offset \subseteq Columns
<1>1. IsFiniteSet(Columns)
  <2>1. Columns \in SUBSET column_bits_
    BY DEF Columns
  <2>. QED
    BY <2>1, FS_Subset
<1>2. /\ IsFiniteSet(SUBSET Columns)
      /\ Cardinality(SUBSET Columns) = 2^Cardinality(Columns)
      /\ Cardinality(SUBSET Columns) \in Nat
  BY <1>1, FS_SUBSET, FS_CardinalityType
<1>3. Combinations = (SUBSET Columns) \ {{}}
  BY DEF Combinations, Columns
<1>4. /\ IsFiniteSet(Combinations)
      /\ Cardinality(Combinations) = Cardinality(SUBSET Columns) - 1
  <2>1. {} \in SUBSET Columns
    OBVIOUS
  <2>. QED
    BY <1>2, <1>3, <2>1, FS_RemoveElement, Zenon
<1>5. 2^Cardinality(Columns) > length
  BY DEF EnoughColumns, Columns
<1>6. length - Cardinality(Combinations) <= 0
  <2>. DEFINE c == 2^Cardinality(Columns)
              k == Cardinality(Combinations)
  <2>1. c \in Nat /\ k = c - 1 /\ c > length
    BY <1>2, <1>4, <1>5
  <2>. HIDE DEF c, k
  <2>2. length - k <= 0
    BY <2>1
  <2>. QED
    BY <2>2 DEF k
<1>7. offsets \in kSubset(length, Combinations)
  BY <1>6 DEF RowBufferHitSequences
<1>8. offsets \in SUBSET Combinations /\ Cardinality(offsets) = length
  BY <1>7 DEF kSubset
<1>9. IsFiniteSet(offsets)
  BY <1>4, <1>8, FS_Subset
<1>. QED
  BY <1>3, <1>8, <1>9

(* So a stream in the pool stays in the row of its base.                   *)
LEMMA StreamIsInRow ==
  ASSUME Begun, SetUp, Contiguous(layout), HoleAligned, Decomposes,
         column_bits_ = command.column_bits,
         NEW tuple, IsLine(tuple),
         current.length \in Nat, EnoughColumns(current.length),
         NEW stream \in Streams(tuple), AllFound(stream)
  PROVE  InRow(stream, tuple)
<1>1. PICK offsets \in RowBufferHitSequences(current.length) :
        stream = Stream(tuple, offsets)
  BY DEF Streams
<1>2. MachineFits /\ InMemory(tuple.paddr) /\ WithoutOffset(tuple.paddr) \in LineWords
  BY MachineOfSession, LinesAreInMemory, LinesHaveLineWords DEF Begun, IsLine
<1>3. column_bits_ \subseteq LineBit /\ IsFiniteSet(column_bits_)
  <2>1. column_bits_ \in SUBSET LineBit
    BY SessionAssumption, Zenon DEF Begun
  <2>2. IsFiniteSet(LineBit)
    BY Widths, FS_Interval DEF LineBit
  <2>. QED
    BY <2>1, <2>2, FS_Subset
<1>4. /\ IsFiniteSet(offsets) /\ Cardinality(offsets) = current.length
      /\ \A offset \in offsets : offset \subseteq Columns
  BY <1>3, EnoughOffsets
<1>. DEFINE base == WithoutOffset(tuple.paddr)
            word(offset) == Xor(base, offset)
            vaddr == [offset \in offsets |-> PhysToVirt(Physical(word(offset)))]
<1>5. stream = {vaddr[offset] : offset \in offsets}
  BY <1>1 DEF Stream
<1>6. ASSUME NEW offset \in offsets
      PROVE  /\ vaddr[offset] \in PoolLines
             /\ VirtToPhys(vaddr[offset]) = Physical(word(offset))
             /\ WithoutOffset(Physical(word(offset))) = word(offset)
  <2>1. word(offset) \in LineWords
    <3>1. offset \subseteq LineBit
      BY <1>3, <1>4 DEF Columns
    <3>2. offset \in LineWords
      BY <1>2, <3>1, LineWordsAreWords
    <3>. QED
      BY <1>2, <3>2, Zenon DEF LineWords, Xor
  <2>2. vaddr[offset] = PhysToVirt(Physical(word(offset)))
    OBVIOUS
  <2>3. vaddr[offset] # 0
    BY <1>5 DEF AllFound
  <2>. HIDE DEF vaddr, word
  <2>. QED
    BY <2>1, <2>2, <2>3, FoundInPool
<1>. HIDE DEF vaddr
<1>7. vaddr \in Bijection(offsets, stream)
  <2>1. vaddr \in [offsets -> stream]
    BY <1>5 DEF vaddr
  <2>2. \A s, t \in offsets : vaddr[s] = vaddr[t] => s = t
    <3>1. ASSUME NEW s \in offsets, NEW t \in offsets, vaddr[s] = vaddr[t]
          PROVE  s = t
      <4>1. word(s) = word(t)
        <5>. HIDE DEF word
        <5>. QED
          BY <1>6, <3>1
      <4>. QED
        BY <4>1, Zenon DEF Xor
    <3>. QED
      BY <3>1
  <2>3. \A v \in stream : \E s \in offsets : vaddr[s] = v
    BY <1>5
  <2>. QED
    BY <2>1, <2>2, <2>3 DEF Bijection, Injection, IsInjective, Surjection
<1>8. Cardinality(stream) = current.length
  BY <1>4, <1>7, FS_Bijection DEF ExistsBijection
<1>9. ASSUME NEW offset \in offsets
      PROVE  DRAMAddress(VirtToPhys(vaddr[offset])) = Xor(DRAMAddress(tuple.paddr), offset)
  <2>1. PICK m \in 0 .. WordBits :
          /\ Columns \subseteq 0 .. m - 1
          /\ command.PCI_LOWER % 2^m = 0 /\ command.PCI_UPPER % 2^m = 0
    BY DEF HoleAligned
  <2>2. offset \in SUBSET (0 .. m - 1)
    BY <1>4, <2>1, Zenon
  <2>3. InMemory(Physical(word(offset)))
    <3>1. InMemory(VirtToPhys(vaddr[offset]))
      BY <1>2, <1>6, LinesAreInMemory DEF Begun
    <3>. HIDE DEF word
    <3>. QED
      BY <1>6, <3>1
  <2>4. DRAMAddress(Physical(word(offset))) = Xor(DRAMAddress(tuple.paddr), offset)
    BY <1>2, <2>1, <2>2, <2>3, LowBitsArrive
  <2>. HIDE DEF word
  <2>. QED
    BY <1>6, <2>4
<1>10. ASSUME NEW v \in stream
       PROVE  LET x == DRAMAddress(VirtToPhys(v))
                  y == DRAMAddress(tuple.paddr)
              IN  /\ ~Separates(Masks(command.functions), x, y)
                  /\ Xor(x, y) \subseteq command.column_bits
  <2>. DEFINE x == DRAMAddress(VirtToPhys(v))
              y == DRAMAddress(tuple.paddr)
  <2>1. PICK offset \in offsets : v = vaddr[offset]
    BY <1>5
  <2>2. x = Xor(y, offset)
    BY <1>9, <2>1
  <2>3. offset \subseteq Columns
    BY <1>4
  <2>. HIDE DEF x, y
  <2>4. Xor(x, y) \subseteq command.column_bits
    BY <2>2, <2>3 DEF Xor, Columns
  <2>5. ASSUME NEW f \in Masks(command.functions)
        PROVE  XORReductionWithMask(f, x) = XORReductionWithMask(f, y)
    <3>1. f \cap offset = {}
      BY <2>3 DEF Columns, addressing_functions_
    <3>2. f \cap x = f \cap y
      BY <2>2, <3>1 DEF Xor
    <3>. QED
      BY <3>2, Zenon DEF XORReductionWithMask
  <2>. QED
    BY <2>4, <2>5 DEF Separates, x, y
<1>11. stream \subseteq PoolLines
  BY <1>5, <1>6
<1>. QED
  BY <1>8, <1>10, <1>11 DEF InRow

-----------------------------------------------------------------------------
(* The streams of a decomposition, for the round that measures them.       *)
Streamed ==
  /\ Decomposes => column_bits_ = command.column_bits
  /\ Contiguous(layout) /\ HoleAligned => StreamsStayInRow

(* They are still in the row when nothing but the streams has changed.     *)
LEMMA RowsStay ==
  ASSUME UNCHANGED <<command, layout, pages, calls, loop>>, NEW stream, NEW tuple,
         InRow(stream, tuple)
  PROVE  /\ faddrs' = stream /\ first' = tuple => InRow(faddrs, first)'
         /\ saddrs' = stream /\ second' = tuple => InRow(saddrs, second)'
<1>1. /\ current' = current /\ PoolLines' = PoolLines
      /\ \A v : VirtToPhys(v)' = VirtToPhys(v)
  BY DEF current, PoolLines, VirtToPhys
<1>2. \A p : DRAMAddress(p)' = DRAMAddress(p)
  BY DEF DRAMAddress, PCI_OFFSET
<1>. QED
  BY <1>1, <1>2 DEF InRow

(* No step changes the command or the loops that come from it.             *)
LEMMA CommandStays ==
  ASSUME [Next]_vars
  PROVE  UNCHANGED <<command, column_bits_, calls>>
<1>1. CASE UNCHANGED vars
  BY <1>1 DEF vars
<1>2. CASE Initialize \/ InitializeFails \/ UnsupportedMode \/ Finalize
  BY <1>2 DEF Initialize, InitializeFails, UnsupportedMode, Finalize
<1>3. CASE DrawFirst \/ DrawSecond \/ DrawPartner \/ DrawStreams \/ StreamsMissed
  BY <1>3 DEF DrawFirst, DrawSecond, DrawPartner, DrawStreams, StreamsMissed, Round
<1>4. CASE LogStatistics \/ ScoreInterval \/ AddLatency
  BY <1>4 DEF LogStatistics, ScoreInterval, AddLatency, Measured, Round
<1>5. CASE EndLog \/ LabelFunction \/ RecordLatency
  BY <1>5 DEF EndLog, LabelFunction, RecordLatency, EndLoop
<1>6. CASE PartnerMissed \/ Terminated
  BY <1>6 DEF PartnerMissed, Terminated, vars
<1>. QED
  BY <1>1, <1>2, <1>3, <1>4, <1>5, <1>6 DEF Next

(* Every step keeps the streams in their rows.                             *)
LEMMA StreamedSteps ==
  ASSUME SessionInv, [Next]_vars, Contiguous(layout) => Asked, Streamed
  PROVE  Streamed'
<1>1. layout' = layout
  BY PoolSteps
<1>2. /\ UNCHANGED <<command, column_bits_, calls>>
      /\ Decomposes' = Decomposes /\ HoleAligned' = HoleAligned
  <2>1. UNCHANGED <<command, column_bits_, calls>>
    BY CommandStays
  <2>2. Decomposes' = Decomposes
    BY <2>1 DEF Decomposes
  <2>. QED
    BY <2>1, <2>2 DEF HoleAligned, Columns, addressing_functions_
<1>3. Decomposes' => column_bits_' = command'.column_bits
  BY <1>2 DEF Streamed
<1>. SUFFICES ASSUME Contiguous(layout), HoleAligned, Asked, StreamsStayInRow,
                     Decomposes, pc' = "measure", current'.length > 0,
                     EnoughColumns(current.length)'
              PROVE  InRow(faddrs, first)' /\ InRow(saddrs, second)'
  BY <1>1, <1>2, <1>3 DEF Streamed, StreamsStayInRow
<1>4. Begun /\ Known
  BY CallsAreKnown DEF SessionInv, Begun
<1>5. ASSUME UNCHANGED <<pc, faddrs, saddrs, first, second, command, layout, pages,
                         column_bits_, calls, loop>>
      PROVE  InRow(faddrs, first)' /\ InRow(saddrs, second)'
  <2>1. current' = current /\ EnoughColumns(current.length)
    BY <1>5 DEF current, EnoughColumns, addressing_functions_, Decomposes
  <2>2. InRow(faddrs, first) /\ InRow(saddrs, second)
    BY <1>5, <2>1 DEF StreamsStayInRow
  <2>3. PICK f, s, t, u : f = first /\ s = second /\ t = faddrs /\ u = saddrs
    OBVIOUS
  <2>4. InRow(t, f) /\ InRow(u, s)
    BY <2>2, <2>3
  <2>. QED
    BY <1>5, <2>3, <2>4, RowsStay
<1>6. ASSUME DrawFirst \/ DrawSecond \/ DrawPartner
      PROVE  FALSE
  <2>1. /\ UNCHANGED <<calls, loop>> /\ current' = current
        /\ loop \in 1 .. Len(calls)
    <3>1. loop <= Len(calls)
      BY <1>6 DEF DrawFirst, DrawSecond, DrawPartner, SessionInv, Placed, Drawn
    <3>. QED
      BY <1>4, <1>6, <3>1
         DEF DrawFirst, DrawSecond, DrawPartner, Round, current, SessionInv, Placed, Known
  <2>2. current.draw = "partner"
    BY <1>4, <2>1 DEF Known, DecomposesWith, current
  <2>. QED
    BY <1>6, <2>1, <2>2
       DEF DrawFirst, DrawSecond, DrawPartner, Prepared, SessionInv, Placed
<1>7. ASSUME DrawStreams PROVE InRow(faddrs, first)' /\ InRow(saddrs, second)'
  <2>1. /\ pc = "streams" /\ first' = first /\ second' = second
        /\ UNCHANGED <<command, layout, pages, column_bits_, calls, loop>>
        /\ current' = current
    BY <1>7 DEF DrawStreams, Round, current
  <2>2. PICK t : t \in Streams(first) /\ AllFound(t) /\ faddrs' = t
    BY <1>7 DEF DrawStreams
  <2>3. PICK u : u \in Streams(second) /\ AllFound(u) /\ saddrs' = u
    BY <1>7 DEF DrawStreams
  <2>4. SetUp /\ loop \in 1 .. Len(calls)
    BY <1>4, <2>1 DEF SessionInv, Placed, Drawn, Known
  <2>5. current.draw = "partner" /\ current.length \in Nat
    <3>1. DecomposesWith(current, loop)
      BY <1>4, <2>4 DEF Known, current
    <3>2. CONSECUTIVE_LENGTH \in Nat
      BY SessionAssumption
    <3>. QED
      BY <3>1, <3>2 DEF DecomposesWith
  <2>6. EnoughColumns(current.length)
    BY <2>1 DEF EnoughColumns, addressing_functions_, Decomposes
  <2>7. IsLine(first) /\ IsLine(second)
    BY <2>1, <2>5 DEF Asked, Drawn
  <2>8. column_bits_ = command.column_bits
    BY DEF Streamed
  <2>9. InRow(t, first)
    BY <1>4, <2>2, <2>4, <2>5, <2>6, <2>7, <2>8, StreamIsInRow
  <2>10. InRow(u, second)
    BY <1>4, <2>3, <2>4, <2>5, <2>6, <2>7, <2>8, StreamIsInRow
  <2>11. PICK f, s : f = first /\ s = second
    OBVIOUS
  <2>12. InRow(t, f) /\ InRow(u, s) /\ f = first' /\ s = second'
    BY <2>1, <2>9, <2>10, <2>11
  <2>. QED
    BY <2>1, <2>2, <2>3, <2>12, RowsStay
<1>. QED
  <2>1. CASE UNCHANGED vars
    BY <1>5, <2>1 DEF vars, session
  <2>2. CASE Initialize \/ InitializeFails \/ UnsupportedMode \/ Finalize
    BY <2>2 DEF Initialize, InitializeFails, UnsupportedMode, Finalize
  <2>3. CASE StreamsMissed \/ LogStatistics \/ ScoreInterval \/ AddLatency
    BY <2>3
       DEF StreamsMissed, LogStatistics, ScoreInterval, AddLatency, Measured, Forget
  <2>4. CASE EndLog \/ LabelFunction \/ RecordLatency
    BY <2>4 DEF EndLog, LabelFunction, RecordLatency, EndLoop
  <2>5. CASE PartnerMissed \/ Terminated
    BY <1>5, <2>5 DEF PartnerMissed, Terminated, vars, session
  <2>. QED
    BY <1>6, <1>7, <2>1, <2>2, <2>3, <2>4, <2>5 DEF Next

(* What the latencies of consecutive reads are about, in every pool of     *)
(* contiguous pages, for every memory and every command: if the memory     *)
(* begins and ends its hole on a block of the column bits that are used,   *)
(* each stream of a decomposition reads as many lines of the pool as it    *)
(* should, none twice, all of them in the bank and the row of its base.    *)
THEOREM StreamsHitTheRow ==
  Spec => [](Contiguous(layout) /\ HoleAligned => StreamsStayInRow)
<1>1. Init => (Contiguous(layout) => Asked)
  BY DEF Init, Asked, Drawn
<1>2. Init => Streamed
  BY DEF Init, Streamed, StreamsStayInRow
<1>3. SessionInv /\ (Contiguous(layout) => Asked) /\ [Next]_vars
      => (Contiguous(layout) => Asked)'
  BY AskedSteps
<1>4. SessionInv /\ (Contiguous(layout) => Asked) /\ Streamed /\ [Next]_vars => Streamed'
  BY StreamedSteps
<1>5. Streamed => (Contiguous(layout) /\ HoleAligned => StreamsStayInRow)
  BY DEF Streamed
<1>. QED
  BY <1>1, <1>2, <1>3, <1>4, <1>5, SessionKept, PTL DEF Spec

(* When the decomposition can be right: functions and pages that nothing   *)
(* in the session changes.                                                 *)
Rightly ==
  /\ Decomposes /\ AboveHole /\ Contiguous(layout)
  /\ command.type # "DDR4"
  /\ command.machine.ranks \cup command.machine.slow \subseteq Masks(command.functions)
  /\ OraclesTell

(* No step changes it, nor what the oracles and the verdicts depend on.    *)
LEMMA RightlyStays ==
  ASSUME command' = command, layout' = layout
  PROVE  /\ Rightly' = Rightly /\ Decomposes' = Decomposes /\ Half' = Half
         /\ Seen' = Seen /\ OnMachine' = OnMachine /\ PCI_OFFSET' = PCI_OFFSET
         /\ \A k : Decomposed(k)' = Decomposed(k)
         /\ \A e : refresh_oracle(e)' = refresh_oracle(e)
         /\ \A n : Reduced(n)' = Reduced(n)
<1>1. /\ OnMachine' = OnMachine /\ \A e : refresh_oracle(e)' = refresh_oracle(e)
      /\ \A n : Reduced(n)' = Reduced(n)
  BY DEF OnMachine, refresh_oracle, Reduced
<1>2. Decomposes' = Decomposes /\ Half' = Half /\ \A k : Decomposed(k)' = Decomposed(k)
  BY DEF Decomposes, Half, Decomposed
<1>3. Seen' = Seen
  BY <1>1 DEF Seen
<1>4. OraclesTell' = OraclesTell
  BY <1>1, <1>3 DEF OraclesTell
<1>5. AboveHole' = AboveHole
  BY DEF AboveHole
<1>. QED
  BY <1>1, <1>2, <1>3, <1>4, <1>5 DEF Rightly, PCI_OFFSET

(* Above the hole, the program's DRAM address is the memory's.             *)
LEMMA AboveHoleIsRight ==
  ASSUME Begun, SetUp, AboveHole, NEW tuple, IsLine(tuple)
  PROVE  DRAMAddress(tuple.paddr) = WithoutOffset(tuple.paddr)
<1>. DEFINE v == tuple.vaddr
            part == v \div OSPageSize
            p == layout.frame[part] * OSPageSize
            r == v % OSPageSize
<1>1. /\ MachineFits /\ v \in PoolLines /\ tuple.paddr = VirtToPhys(v)
      /\ v \in Nat /\ part \in DOMAIN layout.frame /\ InMemory(tuple.paddr)
  BY MachineOfSession, LinesAreInMemory DEF Begun, IsLine
<1>2. tuple.paddr = p + r
  BY <1>1 DEF VirtToPhys
<1>3. p \in Nat /\ p >= command.PCI_UPPER
  <2>1. layout.frame[part] \in Nat
    BY <1>1, PhysParts DEF Begun
  <2>2. \A n \in Nat : n * OSPageSize \in Nat
    BY Sizes
  <2>. QED
    BY <1>1, <2>1, <2>2 DEF AboveHole
<1>4. r \in Nat
  <2>1. r \in 0 .. OSPageSize - 1 /\ OSPageSize \in Nat
    BY <1>1, DivMod, Sizes, Zenon
  <2>. HIDE DEF r
  <2>. QED
    BY <2>1
<1>. DEFINE a == tuple.paddr
            P == 2^WordBits
            o == PCI_OFFSET
<1>5. /\ a >= command.PCI_UPPER /\ a \in 0 .. P - 1
      /\ o \in Nat /\ command.PCI_LOWER \in Nat /\ P \in Nat \ {0}
      /\ command.PCI_UPPER = command.PCI_LOWER + o
  <2>1. a >= command.PCI_UPPER
    <3>. HIDE DEF p, r
    <3>. QED
      BY <1>1, <1>2, <1>3, <1>4 DEF MachineFits
  <2>. QED
    BY <1>1, <2>1, Widths DEF MachineFits, InMemory, Numbers
<1>6. WithoutOffset(a) = Bits[(a - o) % P]
  BY DEF WithoutOffset
<1>7. DRAMAddress(a) = Bits[a - o]
  <2>1. ~(a < command.PCI_LOWER)
    <3>. HIDE DEF a, P, o
    <3>. QED
      BY <1>5
  <2>. QED
    BY <2>1 DEF DRAMAddress
<1>. HIDE DEF a, P, o
<1>8. a - o \in 0 .. P - 1
  BY <1>5
<1>9. (a - o) % P = a - o
  <2>1. \A n \in 0 .. P - 1 : n % P = n
    BY <1>5
  <2>. QED
    BY <1>8, <2>1
<1>. QED
  BY <1>6, <1>7, <1>9 DEF a, o

(* So the pair that a function is measured with tells its kind.            *)
LEMMA PairTells ==
  ASSUME SessionInv, Asked, Rightly, pc = "measure"
  PROVE  /\ Exposure \in OnMachine
         /\ Exposure.apart <=> Decomposed(loop) \in command.machine.ranks
         /\ Exposure.slow <=> Decomposed(loop) \in command.machine.slow
<1>1. Begun /\ SetUp /\ Known
  BY CallsAreKnown DEF SessionInv, Begun, Placed, Drawn
<1>2. DecomposesWith(current, loop)
  BY <1>1 DEF Known, current, SessionInv, Placed, Drawn, Rightly
<1>. DEFINE x == DRAMAddress(first.paddr)
            y == DRAMAddress(second.paddr)
            f == Decomposed(loop)
            F == Masks(command.functions)
<1>3. current.draw = "partner" /\ current.same = F \ {f} /\ current.diff = <<f>>
  BY <1>2 DEF DecomposesWith
<1>4. IsLine(first) /\ IsLine(second)
  BY <1>3 DEF Asked, Drawn
<1>5. x = WithoutOffset(first.paddr) /\ y = WithoutOffset(second.paddr)
  BY <1>1, <1>4, AboveHoleIsRight DEF Rightly
<1>6. Satisfies(y, x)
  BY <1>3, <1>5 DEF Asked
<1>. HIDE DEF x, y
<1>7. \A g \in F \ {f} : XORReductionWithMask(g, x) = XORReductionWithMask(g, y)
  BY <1>3, <1>6 DEF Satisfies, Separates
<1>8. XORReductionWithMask(f, x) # XORReductionWithMask(f, y)
  <2>1. f \in Masks(current.diff)
    BY <1>3 DEF Masks
  <2>. QED
    BY <1>6, <2>1 DEF Satisfies, Separates
<1>9. ASSUME NEW G \in SUBSET F PROVE Separates(G, x, y) <=> f \in G
  BY <1>7, <1>8 DEF Separates
<1>10. /\ Exposure = [apart |-> Separates(command.machine.ranks, x, y),
                      slow |-> Separates(command.machine.slow, x, y),
                      period |-> command.machine.period]
  BY DEF Exposure, x, y
<1>11. command.machine.period \in Periods
  BY <1>1, SessionAssumption DEF Begun
<1>12. /\ Separates(command.machine.ranks, x, y) \in BOOLEAN
       /\ Separates(command.machine.slow, x, y) \in BOOLEAN
  BY DEF Separates
<1>13. Exposure \in OnMachine
  BY <1>10, <1>11, <1>12 DEF OnMachine, Exposures
<1>14. /\ Separates(command.machine.ranks, x, y) <=> f \in command.machine.ranks
       /\ Separates(command.machine.slow, x, y) <=> f \in command.machine.slow
  BY <1>9 DEF Rightly
<1>. QED
  BY <1>10, <1>13, <1>14

-----------------------------------------------------------------------------
(* What no fast pair takes, and every slow one does.                       *)
Threshold ==
  CHOOSE h \in Nat :
    \A e \in OnMachine : \A n \in rdrd_oracle(e) : IF e.slow THEN h <= n ELSE n < h

(* There is one, if the oracles tell slow pairs from fast ones.            *)
LEMMA ThresholdTells ==
  ASSUME Begun, OraclesTell
  PROVE  /\ Threshold \in Nat
         /\ \A e \in OnMachine : /\ rdrd_oracle(e) \subseteq Nat
                                 /\ \A n \in rdrd_oracle(e) :
                                      IF e.slow THEN Threshold <= n ELSE n < Threshold
<1>. DEFINE Slow == {e \in OnMachine : e.slow}
            S == UNION {rdrd_oracle(e) : e \in Slow}
<1>1. \A e \in OnMachine : rdrd_oracle(e) # {} /\ rdrd_oracle(e) \subseteq Nat
  BY DEF OraclesTell
<1>2. S \in SUBSET Nat /\ S # {}
  <2>1. [apart |-> FALSE, slow |-> TRUE, period |-> command.machine.period] \in Slow
    <3>1. command.machine.period \in Periods
      BY SessionAssumption DEF Begun
    <3>. QED
      BY <3>1 DEF OnMachine, Exposures
  <2>2. PICK e : e \in Slow
    BY <2>1
  <2>3. PICK n : n \in rdrd_oracle(e)
    BY <1>1, <2>2
  <2>4. n \in S
    BY <2>2, <2>3
  <2>5. S \subseteq Nat
    BY <1>1
  <2>. QED
    BY <2>4, <2>5
<1>3. PICK h \in S : \A n \in S : h <= n
  BY <1>2, LeastNumber, Zenon
<1>4. PICK s \in Slow : h \in rdrd_oracle(s)
  BY <1>3
<1>5. ASSUME NEW e \in OnMachine, NEW n \in rdrd_oracle(e)
      PROVE  IF e.slow THEN h <= n ELSE n < h
  <2>1. CASE e.slow
    BY <1>3, <2>1
  <2>2. CASE ~e.slow
    BY <1>4, <2>2 DEF OraclesTell
  <2>. QED
    BY <2>1, <2>2
<1>6. h \in Nat
  BY <1>2, <1>3
<1>. HIDE DEF S, Slow
<1>7. \E g \in Nat :
        \A e \in OnMachine : \A n \in rdrd_oracle(e) : IF e.slow THEN g <= n ELSE n < g
  BY <1>5, <1>6
<1>. QED
  BY <1>1, <1>7, Zenon DEF Threshold

(* What a decomposition has found of the functions that it has tried: the  *)
(* score and the sum of the latencies so far, the labels, and the          *)
(* latencies, which are sorted in the end.                                 *)
Scored ==
  loop <= Half =>
    /\ Seen /\ Decomposed(loop) \in command.machine.ranks => sum = trials
    /\ /\ Seen \/ ~command.zen4
       /\ Decomposed(loop) \notin command.machine.ranks
       => sum = 0

Timed ==
  Half < loop /\ loop <= Len(calls) =>
    /\ sum \in Nat
    /\ IF Decomposed(loop) \in command.machine.slow
       THEN trials * Threshold <= sum ELSE sum + trials <= trials * Threshold

RightlyLabelled ==
  /\ Seen \/ ~command.zen4 => Masks(rank_functions_) \subseteq command.machine.ranks
  /\ Seen => \A k \in 1 .. Half :
               k < loop /\ Decomposed(k) \in command.machine.ranks
               => Decomposed(k) \in Masks(rank_functions_)

Tells(entry) ==
  /\ entry.latency \in Nat
  /\ IF entry.function \in command.machine.slow
     THEN Threshold <= entry.latency ELSE entry.latency < Threshold

InTheEnd ==
  /\ loop > Len(calls) =>
       \A i, j \in DOMAIN rdrd_latencies :
         i < j => rdrd_latencies[i].latency <= rdrd_latencies[j].latency
  /\ pc = "done" => loop > Len(calls)

Verdicts ==
  /\ Scored /\ Timed /\ RightlyLabelled
  /\ \A entry \in Masks(rdrd_latencies) : Tells(entry)
  /\ InTheEnd

(* They imply that the decomposition is right.                             *)
LEMMA VerdictsAreRight ==
  ASSUME SessionInv, Contiguous(layout) /\ OraclesTell, Rightly => Verdicts
  PROVE  DecompositionIsRight
<1>. SUFFICES ASSUME Decomposes, pc = "done", AboveHole, command.type # "DDR4",
                     command.machine.ranks \cup command.machine.slow
                       \subseteq Masks(command.functions)
              PROVE  /\ Seen \/ ~command.zen4 =>
                          Masks(rank_functions_) \subseteq command.machine.ranks
                     /\ Seen => command.machine.ranks \subseteq Masks(rank_functions_)
                     /\ \A i, j \in DOMAIN rdrd_latencies :
                          /\ rdrd_latencies[i].function \in command.machine.slow
                          /\ rdrd_latencies[j].function \notin command.machine.slow
                          => j < i
  BY DEF DecompositionIsRight
<1>1. Rightly /\ Verdicts
  BY DEF Rightly
<1>2. Begun /\ Known
  BY CallsAreKnown DEF SessionInv, Begun
<1>3. /\ loop > Len(calls) /\ Half \in Nat /\ Len(calls) = Half + Half
      /\ DOMAIN command.functions = 1 .. Half /\ loop \in Nat
  <2>1. command.functions \in Seq(SUBSET LineBit) /\ Half = Len(command.functions)
    BY <1>2, SessionAssumption, Zenon DEF Begun, Half
  <2>2. DOMAIN command.functions = 1 .. Half
    BY <2>1
  <2>3. loop \in Nat
    BY <1>2 DEF SessionInv, Placed, Known
  <2>. QED
    BY <1>1, <1>2, <2>2, <2>3 DEF Verdicts, InTheEnd, Known
<1>4. ASSUME Seen, NEW r \in command.machine.ranks PROVE r \in Masks(rank_functions_)
  <2>1. PICK k \in 1 .. Half : r = command.functions[k]
    BY <1>3 DEF Masks
  <2>2. Decomposed(k) = r /\ k < loop
    BY <1>3, <2>1 DEF Decomposed
  <2>. QED
    BY <1>1, <1>4, <2>2 DEF Verdicts, RightlyLabelled
<1>5. ASSUME NEW i \in DOMAIN rdrd_latencies, NEW j \in DOMAIN rdrd_latencies,
             rdrd_latencies[i].function \in command.machine.slow,
             rdrd_latencies[j].function \notin command.machine.slow
      PROVE  j < i
  <2>1. i \in Nat /\ j \in Nat
    BY DEF SessionInv, Labelled
  <2>. DEFINE l == rdrd_latencies[i].latency
              m == rdrd_latencies[j].latency
  <2>2. l \in Nat /\ m \in Nat /\ Threshold <= l /\ m < Threshold /\ Threshold \in Nat
    <3>1. rdrd_latencies[i] \in Masks(rdrd_latencies)
          /\ rdrd_latencies[j] \in Masks(rdrd_latencies)
      BY DEF Masks
    <3>. QED
      BY <1>1, <1>2, <1>5, <3>1, ThresholdTells DEF Verdicts, Tells
  <2>3. ~(i < j)
    <3>1. i < j => l <= m
      BY <1>1, <1>3 DEF Verdicts, InTheEnd
    <3>. HIDE DEF l, m
    <3>. QED
      BY <2>2, <3>1
  <2>4. i # j
    BY <1>5
  <2>. QED
    BY <2>1, <2>3, <2>4
<1>. QED
  BY <1>1, <1>4, <1>5 DEF Verdicts, RightlyLabelled

(* Nothing has been found in the beginning, so nothing is wrong.           *)
LEMMA VerdictsInit == Init => (Rightly => Verdicts)
<1>. SUFFICES ASSUME Init, Rightly PROVE Verdicts
  OBVIOUS
<1>1. Begun /\ Known
  BY SessionInit, CallsAreKnown DEF SessionInv, Begun
<1>2. Threshold \in Nat
  BY <1>1, ThresholdTells DEF Rightly
<1>3. /\ loop = 1 /\ trials = 0 /\ sum = 0 /\ pc = "start"
      /\ rank_functions_ = <<>> /\ rdrd_latencies = <<>>
  BY DEF Init
<1>4. Masks(<<>>) = {} /\ DOMAIN <<>> = {}
  BY DEF Masks
<1>5. Scored /\ Timed
  BY <1>2, <1>3 DEF Scored, Timed
<1>6. RightlyLabelled
  BY <1>3, <1>4 DEF RightlyLabelled
<1>. QED
  BY <1>3, <1>4, <1>5, <1>6 DEF Verdicts, InTheEnd

(* The verdicts depend on what is found only; so most steps keep them.     *)
LEMMA ThresholdStays ==
  ASSUME command' = command, layout' = layout
  PROVE  /\ Threshold' = Threshold
         /\ \A entry : Tells(entry)' <=> Tells(entry)
<1>1. OnMachine' = OnMachine
  BY RightlyStays
<1>2. Threshold' = Threshold
  BY <1>1 DEF Threshold
<1>. QED
  BY <1>2 DEF Tells

(* A step that leaves what was found keeps the verdicts.                   *)
LEMMA VerdictsStay ==
  ASSUME Verdicts, UNCHANGED <<command, layout, calls, loop, trials, sum, results>>,
         pc' = "done" => pc = "done" \/ loop > Len(calls)
  PROVE  Verdicts'
<1>1. /\ Half' = Half /\ Seen' = Seen /\ Threshold' = Threshold
      /\ \A k : Decomposed(k)' = Decomposed(k)
      /\ \A entry : Tells(entry)' <=> Tells(entry)
  BY RightlyStays, ThresholdStays
<1>2. Decomposed(loop)' = Decomposed(loop)
  BY DEF Decomposed, Half
<1>3. Scored' /\ Timed'
  BY <1>1, <1>2 DEF Verdicts, Scored, Timed
<1>4. rank_functions_' = rank_functions_ /\ rdrd_latencies' = rdrd_latencies
  BY DEF results
<1>5. RightlyLabelled'
  BY <1>1, <1>4 DEF Verdicts, RightlyLabelled
<1>6. InTheEnd'
  BY <1>4 DEF Verdicts, InTheEnd
<1>. QED
  BY <1>1, <1>3, <1>4, <1>5, <1>6 DEF Verdicts

(* A measurement adds to the score what it should,                         *)
LEMMA ScoresTell ==
  ASSUME SessionInv, Asked, Rightly, Verdicts, ScoreInterval
  PROVE  Verdicts'
<1>1. /\ UNCHANGED <<command, layout, calls, loop, results>>
      /\ pc = "measure" /\ pc' = "loop" /\ trials' = trials + 1
      /\ current.oracle = "refresh"
  BY DEF ScoreInterval, Measured, Round, Forget
<1>2. Begun /\ Known
  BY CallsAreKnown DEF SessionInv, Begun
<1>3. /\ loop \in 1 .. Len(calls) /\ loop <= Half
  <2>1. loop \in 1 .. Len(calls)
    BY <1>1, <1>2 DEF SessionInv, Placed, Drawn, Known
  <2>2. DecomposesWith(current, loop)
    BY <1>2, <2>1 DEF Known, current, Rightly
  <2>. QED
    BY <1>1, <2>1, <2>2 DEF DecomposesWith
<1>4. /\ Half' = Half /\ Seen' = Seen
      /\ \A k : Decomposed(k)' = Decomposed(k)
      /\ \A entry : Tells(entry)' <=> Tells(entry)
      /\ Decomposed(loop)' = Decomposed(loop)
  <2>1. Decomposed(loop)' = Decomposed(loop)
    BY <1>1 DEF Decomposed, Half
  <2>. QED
    BY <1>1, <2>1, RightlyStays, ThresholdStays
<1>5. PICK interval \in refresh_oracle(Exposure) :
        sum' = IF Reduced(interval) THEN sum + 1 ELSE sum
  BY DEF ScoreInterval
<1>6. /\ Exposure \in OnMachine
      /\ Exposure.apart <=> Decomposed(loop) \in command.machine.ranks
  BY <1>1, PairTells
<1>7. ASSUME Seen, Decomposed(loop) \in command.machine.ranks
      PROVE  sum' = trials'
  <2>1. Reduced(interval)
    BY <1>5, <1>6, <1>7 DEF Rightly, OraclesTell
  <2>2. sum = trials
    BY <1>3, <1>7 DEF Verdicts, Scored
  <2>. QED
    BY <1>1, <1>5, <2>1, <2>2
<1>8. ASSUME Seen \/ ~command.zen4, Decomposed(loop) \notin command.machine.ranks
      PROVE  sum' = 0
  <2>1. ~Reduced(interval)
    <3>1. CASE interval # 0
      BY <1>5, <1>6, <1>8, <3>1 DEF Rightly, OraclesTell
    <3>2. CASE interval = 0
      <4>1. ~Seen
        BY <1>5, <1>6, <3>2 DEF Seen
      <4>2. ~(0 > ShortestInterval)
        BY SessionAssumption
      <4>. QED
        BY <1>8, <3>2, <4>1, <4>2 DEF Reduced
    <3>. QED
      BY <3>1, <3>2
  <2>2. sum = 0
    BY <1>3, <1>8 DEF Verdicts, Scored
  <2>. QED
    BY <1>5, <2>1, <2>2
<1>9. Scored'
  <2>1. loop' = loop /\ command' = command
    BY <1>1
  <2>. QED
    BY <1>4, <1>7, <1>8, <2>1 DEF Scored
<1>10. Timed'
  <2>1. Half \in Nat /\ loop' = loop
    BY <1>1, <1>2 DEF Known, Rightly
  <2>. QED
    BY <1>3, <1>4, <2>1 DEF Timed
<1>11. rank_functions_' = rank_functions_ /\ rdrd_latencies' = rdrd_latencies
  BY <1>1 DEF results
<1>12. RightlyLabelled'
  BY <1>1, <1>4, <1>11 DEF Verdicts, RightlyLabelled
<1>13. InTheEnd'
  BY <1>1, <1>11 DEF Verdicts, InTheEnd
<1>. QED
  BY <1>4, <1>9, <1>10, <1>11, <1>12, <1>13 DEF Verdicts

(* and to the latencies.                                                   *)
LEMMA LatenciesTell ==
  ASSUME SessionInv, Asked, Rightly, Verdicts, AddLatency
  PROVE  Verdicts'
<1>1. /\ UNCHANGED <<command, layout, calls, loop, results>>
      /\ pc = "measure" /\ pc' = "loop" /\ trials' = trials + 1
      /\ current.oracle = "rdrd"
  BY DEF AddLatency, Measured, Round, Forget
<1>2. Begun /\ Known
  BY CallsAreKnown DEF SessionInv, Begun
<1>3. loop \in 1 .. Len(calls) /\ Half < loop /\ Half \in Nat /\ trials \in Nat
  <2>1. loop \in 1 .. Len(calls) /\ Half \in Nat
    BY <1>1, <1>2 DEF SessionInv, Placed, Drawn, Known, Rightly
  <2>2. DecomposesWith(current, loop)
    BY <1>2, <2>1 DEF Known, current, Rightly
  <2>3. Half < loop
    BY <1>1, <2>1, <2>2 DEF DecomposesWith
  <2>4. current.rounds \in Nat
    BY <1>2, <2>1, CurrentLoop DEF current
  <2>5. trials \in 0 .. current.rounds
    <3>1. loop <= Len(calls)
      BY <1>1 DEF SessionInv, Placed, Drawn
    <3>. QED
      BY <3>1 DEF SessionInv, Counted
  <2>. QED
    BY <2>1, <2>3, <2>4, <2>5
<1>4. /\ Half' = Half /\ Seen' = Seen /\ Threshold' = Threshold
      /\ \A k : Decomposed(k)' = Decomposed(k)
      /\ \A entry : Tells(entry)' <=> Tells(entry)
      /\ Decomposed(loop)' = Decomposed(loop)
  <2>1. Decomposed(loop)' = Decomposed(loop)
    BY <1>1 DEF Decomposed, Half
  <2>. QED
    BY <1>1, <2>1, RightlyStays, ThresholdStays
<1>5. PICK latency \in rdrd_oracle(Exposure) : sum' = sum + latency
  BY DEF AddLatency
<1>6. /\ Exposure \in OnMachine
      /\ Exposure.slow <=> Decomposed(loop) \in command.machine.slow
  BY <1>1, PairTells
<1>7. /\ Threshold \in Nat /\ latency \in Nat
      /\ IF Exposure.slow THEN Threshold <= latency ELSE latency < Threshold
  BY <1>2, <1>5, <1>6, ThresholdTells DEF Rightly
<1>8. /\ sum \in Nat
      /\ IF Decomposed(loop) \in command.machine.slow
         THEN trials * Threshold <= sum ELSE sum + trials <= trials * Threshold
  <2>1. loop <= Len(calls)
    BY DEF AddLatency, Measured, SessionInv, Placed, Drawn
  <2>. QED
    BY <1>3, <2>1, Zenon DEF Verdicts, Timed
<1>9. /\ trials * Threshold \in Nat
      /\ (trials + 1) * Threshold = trials * Threshold + Threshold
  BY <1>3, <1>7, Distribute
<1>10. /\ sum' \in Nat
       /\ IF Decomposed(loop) \in command.machine.slow
          THEN trials' * Threshold <= sum' ELSE sum' + trials' <= trials' * Threshold
  <2>. DEFINE h == Threshold
              th == trials * Threshold
              uh == (trials + 1) * Threshold
  <2>1. h \in Nat /\ th \in Nat /\ uh = th + h
    BY <1>7, <1>9
  <2>2. CASE Decomposed(loop) \in command.machine.slow
    <3>1. th <= sum /\ h <= latency
      BY <1>6, <1>7, <1>8, <2>2
    <3>. HIDE DEF th, uh, h
    <3>2. uh <= sum + latency
      BY <1>7, <1>8, <2>1, <3>1
    <3>. QED
      BY <1>1, <1>5, <1>7, <1>8, <2>2, <3>2 DEF uh
  <2>3. CASE Decomposed(loop) \notin command.machine.slow
    <3>1. sum + trials <= th /\ latency < h
      BY <1>6, <1>7, <1>8, <2>3
    <3>. HIDE DEF th, uh, h
    <3>2. (sum + latency) + (trials + 1) <= uh
      BY <1>3, <1>7, <1>8, <2>1, <3>1
    <3>. QED
      BY <1>1, <1>5, <1>7, <1>8, <2>3, <3>2 DEF uh
  <2>. QED
    BY <2>2, <2>3
<1>11. Timed'
  <2>1. command' = command
    BY <1>1
  <2>. QED
    BY <1>4, <1>10, <2>1 DEF Timed
<1>12. Scored'
  BY <1>1, <1>3, <1>4 DEF Scored
<1>13. rank_functions_' = rank_functions_ /\ rdrd_latencies' = rdrd_latencies
  BY <1>1 DEF results
<1>14. RightlyLabelled'
  BY <1>1, <1>4, <1>13 DEF Verdicts, RightlyLabelled
<1>15. InTheEnd'
  BY <1>1, <1>13 DEF Verdicts, InTheEnd
<1>. QED
  BY <1>4, <1>11, <1>12, <1>13, <1>14, <1>15 DEF Verdicts

(* The end of a loop labels the function that it was about,                *)
LEMMA MasksAfter ==
  ASSUME NEW S, NEW v \in Seq(S), NEW e
  PROVE  Masks(v \o <<e>>) = Masks(v) \cup {e}
<1>1. v \in Seq(S) /\ <<e>> \in Seq({e}) /\ Len(<<e>>) = 1 /\ <<e>>[1] = e
  OBVIOUS
<1>2. /\ DOMAIN (v \o <<e>>) = 1 .. Len(v) + 1
      /\ \A k \in 1 .. Len(v) : (v \o <<e>>)[k] = v[k]
      /\ \A k \in Len(v) + 1 .. Len(v) + 1 : (v \o <<e>>)[k] = <<e>>[k - Len(v)]
  BY <1>1, OneAfterAnother
<1>3. DOMAIN v = 1 .. Len(v) /\ Len(v) \in Nat
  OBVIOUS
<1>4. (v \o <<e>>)[Len(v) + 1] = e
  <2>1. Len(v) + 1 \in Len(v) + 1 .. Len(v) + 1 /\ (Len(v) + 1) - Len(v) = 1
    BY <1>3
  <2>. QED
    BY <1>1, <1>2, <2>1
<1>5. 1 .. Len(v) + 1 = (1 .. Len(v)) \cup {Len(v) + 1}
  BY <1>3
<1>. DEFINE w == v \o <<e>>
<1>. HIDE DEF w
<1>6. Masks(w) = {w[k] : k \in 1 .. Len(v)} \cup {w[Len(v) + 1]}
  BY <1>2, <1>5 DEF Masks, w
<1>7. {w[k] : k \in 1 .. Len(v)} = Masks(v)
  BY <1>2, <1>3 DEF Masks, w
<1>. QED
  BY <1>4, <1>6, <1>7 DEF w

(* if it is one of the ranks,                                              *)
LEMMA LabelTells ==
  ASSUME SessionInv, Rightly, Verdicts, LabelFunction
  PROVE  Verdicts'
<1>1. /\ UNCHANGED <<command, layout, calls, pc, rdrd_latencies>>
      /\ pc = "loop" /\ loop' = loop + 1 /\ trials' = 0 /\ sum' = 0
      /\ trials = current.rounds /\ current.oracle = "refresh"
      /\ rank_functions_' = IF sum > SUDOKU_TRIAL_SUCCESS_SCORE
                            THEN rank_functions_ \o current.diff ELSE rank_functions_
  BY DEF LabelFunction, EndLoop
<1>2. Begun /\ Known
  BY CallsAreKnown DEF SessionInv, Begun
<1>. DEFINE f == Decomposed(loop)
<1>3. /\ loop \in 1 .. Len(calls) /\ loop <= Half /\ Half \in Nat
      /\ Len(calls) = Half + Half
      /\ current.diff = <<f>> /\ trials = SUDOKU_NUM_EFFECTIVE_TRIAL
  <2>1. loop \in 1 .. Len(calls)
    BY <1>2 DEF SessionInv, Placed, Known, LabelFunction, EndLoop
  <2>2. DecomposesWith(current, loop)
    BY <1>2, <2>1 DEF Known, current, Rightly
  <2>. QED
    BY <1>1, <1>2, <2>1, <2>2 DEF DecomposesWith, Known, Rightly
<1>4. /\ Half' = Half /\ Seen' = Seen /\ Threshold' = Threshold
      /\ \A k : Decomposed(k)' = Decomposed(k)
      /\ \A entry : Tells(entry)' <=> Tells(entry)
  BY <1>1, RightlyStays, ThresholdStays
<1>5. Threshold \in Nat
  BY <1>2, ThresholdTells DEF Rightly
<1>6. Scored' /\ Timed'
  <2>1. 0 * Threshold = 0
    BY <1>5
  <2>. QED
    BY <1>1, <1>4, <2>1 DEF Scored, Timed
<1>7. Masks(rank_functions_ \o <<f>>) = Masks(rank_functions_) \cup {f}
  BY MasksAfter DEF SessionInv, Labelled
<1>. HIDE DEF f
<1>8. /\ Masks(rank_functions_) \subseteq Masks(rank_functions_')
      /\ Masks(rank_functions_') \subseteq Masks(rank_functions_) \cup {f}
      /\ sum > SUDOKU_TRIAL_SUCCESS_SCORE => f \in Masks(rank_functions_')
      /\ ~(sum > SUDOKU_TRIAL_SUCCESS_SCORE)
           => rank_functions_' = rank_functions_
  <2>1. CASE sum > SUDOKU_TRIAL_SUCCESS_SCORE
    BY <1>1, <1>3, <1>7, <2>1
  <2>2. CASE ~(sum > SUDOKU_TRIAL_SUCCESS_SCORE)
    BY <1>1, <2>2
  <2>. QED
    BY <2>1, <2>2
<1>9. ASSUME Seen, f \in command.machine.ranks PROVE f \in Masks(rank_functions_')
  <2>1. sum = SUDOKU_NUM_EFFECTIVE_TRIAL
    BY <1>3, <1>9 DEF Verdicts, Scored, f
  <2>2. sum > SUDOKU_TRIAL_SUCCESS_SCORE
    BY <2>1, SessionAssumption
  <2>. QED
    BY <1>8, <2>2
<1>10. ASSUME Seen \/ ~command.zen4, f \notin command.machine.ranks
       PROVE  rank_functions_' = rank_functions_
  <2>1. sum = 0
    BY <1>3, <1>10 DEF Verdicts, Scored, f
  <2>2. ~(0 > SUDOKU_TRIAL_SUCCESS_SCORE)
    BY SessionAssumption
  <2>. QED
    BY <1>8, <2>1, <2>2
<1>11. RightlyLabelled'
  <2>1. ASSUME Seen \/ ~command.zen4
        PROVE  Masks(rank_functions_') \subseteq command.machine.ranks
    <3>1. Masks(rank_functions_) \subseteq command.machine.ranks
      BY <2>1 DEF Verdicts, RightlyLabelled
    <3>. QED
      BY <1>8, <1>10, <2>1, <3>1
  <2>2. ASSUME Seen, NEW k \in 1 .. Half, k < loop',
               Decomposed(k) \in command.machine.ranks
        PROVE  Decomposed(k) \in Masks(rank_functions_')
    <3>1. k < loop \/ k = loop
      BY <1>1, <1>3, <2>2
    <3>2. CASE k < loop
      <4>1. Decomposed(k) \in Masks(rank_functions_)
        BY <2>2, <3>2 DEF Verdicts, RightlyLabelled
      <4>. QED
        BY <1>8, <4>1
    <3>3. CASE k = loop
      BY <1>9, <2>2, <3>3 DEF f
    <3>. QED
      BY <3>1, <3>2, <3>3
  <2>3. Masks(rank_functions_)' = Masks(rank_functions_') /\ command' = command
    BY <1>1 DEF Masks
  <2>. QED
    BY <1>4, <2>1, <2>2, <2>3 DEF RightlyLabelled
<1>12. InTheEnd'
  BY <1>1, <1>3 DEF InTheEnd
<1>13. \A entry \in Masks(rdrd_latencies)' : Tells(entry)'
  <2>1. Masks(rdrd_latencies)' = Masks(rdrd_latencies)
    BY <1>1 DEF Masks
  <2>. QED
    BY <1>4, <2>1 DEF Verdicts
<1>. QED
  BY <1>6, <1>11, <1>12, <1>13 DEF Verdicts

(* or records its latency, which tells whether it is a slow one.           *)
LEMMA AverageTells ==
  ASSUME NEW s \in Nat, NEW t \in Nat \ {0}, NEW h \in Nat
  PROVE  /\ s \div t \in Nat
         /\ t * h <= s => h <= s \div t
         /\ s + t <= t * h => s \div t < h
<1>. DEFINE q == s \div t
            r == s % t
<1>1. q \in Nat /\ r \in 0 .. t - 1 /\ s = q * t + r
  BY DivMod, Zenon
<1>. HIDE DEF q, r
<1>2. ASSUME t * h <= s PROVE h <= q
  <2>1. h * t < (q + 1) * t
    <3>1. (q + 1) * t = q * t + t /\ h * t = t * h /\ h * t \in Nat /\ q * t \in Nat
      BY <1>1, Distribute
    <3>. QED
      BY <1>1, <1>2, <3>1
  <2>2. h < q + 1
    BY <1>1, <2>1, Cancel
  <2>. QED
    BY <1>1, <2>2
<1>3. ASSUME s + t <= t * h PROVE q < h
  <2>1. q * t < h * t
    <3>1. h * t = t * h /\ h * t \in Nat /\ q * t \in Nat
      BY <1>1
    <3>. QED
      BY <1>1, <1>3, <3>1
  <2>. QED
    BY <1>1, <2>1, Cancel
<1>. QED
  BY <1>1, <1>2, <1>3 DEF q

(* The last one that is recorded sorts them.                               *)
LEMMA RecordTells ==
  ASSUME SessionInv, Rightly, Verdicts, RecordLatency
  PROVE  Verdicts'
<1>. DEFINE entry == [function |-> current.diff[1], latency |-> sum \div trials]
            all == Append(rdrd_latencies, entry)
<1>1. /\ UNCHANGED <<command, layout, calls, pc, rank_functions_>>
      /\ pc = "loop" /\ loop' = loop + 1 /\ trials' = 0 /\ sum' = 0
      /\ trials = current.rounds /\ current.oracle = "rdrd"
      /\ rdrd_latencies' \in IF loop = Len(calls) THEN Sortings(all) ELSE {all}
  BY DEF RecordLatency, EndLoop
<1>2. Begun /\ Known
  BY CallsAreKnown DEF SessionInv, Begun
<1>3. /\ loop \in 1 .. Len(calls) /\ Half < loop /\ Half \in Nat
      /\ Len(calls) \in Nat
      /\ current.diff = <<Decomposed(loop)>> /\ trials \in Nat \ {0}
  <2>1. loop \in 1 .. Len(calls)
    <3>1. loop <= Len(calls) /\ loop \in 1 .. Len(calls) + 1
      BY DEF SessionInv, Placed, RecordLatency, EndLoop
    <3>2. Len(calls) \in Nat
      BY <1>2 DEF Known
    <3>. QED
      BY <3>1, <3>2
  <2>2. DecomposesWith(current, loop)
    BY <1>2, <2>1 DEF Known, current, Rightly
  <2>3. SUDOKU_NUM_EFFECTIVE_TRIAL \in Nat \ {0}
    BY SessionAssumption
  <2>4. Half \in Nat /\ Len(calls) \in Nat
    BY <1>2 DEF Known, Rightly
  <2>. QED
    BY <1>1, <2>1, <2>2, <2>3, <2>4 DEF DecomposesWith
<1>4. /\ Half' = Half /\ Seen' = Seen /\ Threshold' = Threshold
      /\ \A k : Decomposed(k)' = Decomposed(k)
      /\ \A e : Tells(e)' <=> Tells(e)
  BY <1>1, RightlyStays, ThresholdStays
<1>5. Threshold \in Nat
  BY <1>2, ThresholdTells DEF Rightly
<1>6. Scored' /\ Timed'
  <2>1. 0 * Threshold = 0
    BY <1>5
  <2>. QED
    BY <1>1, <1>4, <2>1 DEF Scored, Timed
<1>7. /\ sum \in Nat
      /\ IF Decomposed(loop) \in command.machine.slow
         THEN trials * Threshold <= sum ELSE sum + trials <= trials * Threshold
  BY <1>3 DEF Verdicts, Timed
<1>8. Tells(entry)
  <2>1. entry.function = Decomposed(loop) /\ entry.latency = sum \div trials
    BY <1>3
  <2>2. /\ sum \div trials \in Nat
        /\ trials * Threshold <= sum => Threshold <= sum \div trials
        /\ sum + trials <= trials * Threshold => sum \div trials < Threshold
    BY <1>3, <1>5, <1>7, AverageTells
  <2>. HIDE DEF entry
  <2>. QED
    BY <1>7, <2>1, <2>2 DEF Tells
<1>9. Masks(rdrd_latencies') = Masks(rdrd_latencies) \cup {entry}
  <2>1. rdrd_latencies \in Seq(Masks(rdrd_latencies))
    BY DEF SessionInv, Labelled
  <2>. HIDE DEF entry
  <2>2. /\ all \in Seq(Masks(rdrd_latencies) \cup {entry})
        /\ Masks(all) = Masks(rdrd_latencies) \cup {entry}
    BY <2>1, LatencyIsRecorded, Zenon
  <2>3. CASE loop = Len(calls)
    <3>1. rdrd_latencies' \in Sortings(all)
      BY <1>1, <2>3
    <3>2. Masks(rdrd_latencies') = Masks(all)
      BY <2>2, <3>1, SortingsMove, Zenon
    <3>. QED
      BY <2>2, <3>2
  <2>4. CASE loop # Len(calls)
    <3>1. rdrd_latencies' = all
      BY <1>1, <2>4
    <3>. QED
      BY <2>2, <3>1
  <2>. QED
    BY <2>3, <2>4
<1>10. \A e \in Masks(rdrd_latencies)' : Tells(e)'
  <2>1. Masks(rdrd_latencies)' = Masks(rdrd_latencies')
    BY DEF Masks
  <2>. HIDE DEF entry
  <2>2. \A e \in Masks(rdrd_latencies) \cup {entry} : Tells(e)
    BY <1>8 DEF Verdicts
  <2>. QED
    BY <1>4, <1>9, <2>1, <2>2
<1>11. InTheEnd'
  <2>1. ASSUME loop' > Len(calls')
        PROVE  \A i, j \in DOMAIN rdrd_latencies' :
                 i < j => rdrd_latencies'[i].latency <= rdrd_latencies'[j].latency
    <3>1. loop = Len(calls)
      BY <1>1, <1>3, <2>1
    <3>2. rdrd_latencies' \in Sortings(all)
      BY <1>1, <3>1
    <3>3. rdrd_latencies \in Seq(Masks(rdrd_latencies))
      BY DEF SessionInv, Labelled
    <3>. HIDE DEF entry
    <3>4. all \in Seq(Masks(rdrd_latencies) \cup {entry})
      BY <3>3, LatencyIsRecorded
    <3>. QED
      BY <3>2, <3>4, SortingsMove, Zenon
  <2>2. pc' # "done"
    BY <1>1
  <2>. QED
    BY <2>1, <2>2 DEF InTheEnd
<1>12. RightlyLabelled'
  <2>1. ASSUME Seen, NEW k \in 1 .. Half, Decomposed(k) \in command.machine.ranks
        PROVE  Decomposed(k) \in Masks(rank_functions_)
    <3>1. k < loop
      BY <1>3
    <3>. QED
      BY <2>1, <3>1 DEF Verdicts, RightlyLabelled
  <2>. QED
    BY <1>1, <1>4, <2>1 DEF Verdicts, RightlyLabelled
<1>. QED
  BY <1>6, <1>10, <1>11, <1>12 DEF Verdicts

(* So every step keeps the verdicts right.                                 *)
LEMMA VerdictsSteps ==
  ASSUME SessionInv, [Next]_vars, Contiguous(layout) => Asked, Rightly => Verdicts
  PROVE  Rightly' => Verdicts'
<1>1. layout' = layout /\ command' = command
  BY PoolSteps, CommandStays
<1>2. Rightly' = Rightly
  BY <1>1, RightlyStays
<1>. SUFFICES ASSUME Rightly, Asked, Verdicts PROVE Verdicts'
  BY <1>2 DEF Rightly
<1>3. Begun /\ Known
  BY CallsAreKnown DEF SessionInv, Begun
<1>4. ASSUME UNCHANGED <<command, layout, calls, loop, trials, sum, results>>,
             pc' = "done" => pc = "done" \/ loop > Len(calls)
      PROVE  Verdicts'
  BY <1>4, VerdictsStay
<1>5. ASSUME LogStatistics \/ EndLog PROVE FALSE
  <2>1. current.oracle = "log" /\ loop \in 1 .. Len(calls)
    <3>1. loop <= Len(calls)
      BY <1>5 DEF LogStatistics, EndLog, Measured, EndLoop, SessionInv, Placed, Drawn
    <3>. QED
      BY <1>3, <1>5, <3>1
         DEF LogStatistics, EndLog, Measured, EndLoop, SessionInv, Placed, Known
  <2>2. DecomposesWith(current, loop)
    BY <1>3, <2>1 DEF Known, current, Rightly
  <2>. QED
    BY <2>1, <2>2 DEF DecomposesWith
<1>. QED
  <2>1. CASE UNCHANGED vars
    BY <1>4, <2>1 DEF vars, session
  <2>2. CASE Initialize \/ InitializeFails \/ UnsupportedMode
    BY <1>4, <2>2
       DEF Initialize, InitializeFails, UnsupportedMode, InitMemoryPool, MapFails, session
  <2>3. CASE DrawFirst \/ DrawSecond \/ DrawPartner \/ DrawStreams \/ StreamsMissed
    <3>1. UNCHANGED <<command, layout, calls, loop, trials, sum, results>>
      BY <2>3 DEF DrawFirst, DrawSecond, DrawPartner, DrawStreams, StreamsMissed, Round
    <3>2. pc' # "done"
      <4>1. CASE DrawFirst
        <5>1. loop \in 1 .. Len(calls)
          BY <1>3, <4>1 DEF DrawFirst, SessionInv, Placed, Known
        <5>2. current.draw # "done"
          BY <1>3, <5>1, CurrentLoop DEF current
        <5>. QED
          BY <4>1, <5>2 DEF DrawFirst
      <4>2. CASE DrawSecond \/ DrawPartner \/ DrawStreams \/ StreamsMissed
        BY <4>2 DEF DrawSecond, DrawPartner, DrawStreams, StreamsMissed, Prepared, Forget
      <4>. QED
        BY <2>3, <4>1, <4>2
    <3>. QED
      BY <1>4, <3>1, <3>2
  <2>4. CASE Finalize
    BY <1>4, <2>4 DEF Finalize, FreeMemoryPool, session
  <2>5. CASE PartnerMissed \/ Terminated
    BY <1>4, <2>5 DEF PartnerMissed, Terminated, vars, session
  <2>6. CASE ScoreInterval
    BY <2>6, ScoresTell
  <2>7. CASE AddLatency
    BY <2>7, LatenciesTell
  <2>8. CASE LabelFunction
    BY <2>8, LabelTells
  <2>9. CASE RecordLatency
    BY <2>9, RecordTells
  <2>. QED
    BY <1>5, <2>1, <2>2, <2>3, <2>4, <2>5, <2>6, <2>7, <2>8, <2>9 DEF Next

(* The decomposition is right, for every memory that is not DDR4, every    *)
(* list of functions and every number of measurements: if the pages of the *)
(* pool lie on consecutive frames above the hole, and the averages that    *)
(* the oracles return tell a pair that is exposed from one that is not,    *)
(* then only functions of the ranks are labelled, unless a build for Zen 4 *)
(* may meet no refresh; all of them are if refreshes are always seen; and  *)
(* every slow function comes after every other.                            *)
THEOREM FunctionsAreDecomposed ==
  Spec => [](Contiguous(layout) /\ OraclesTell => DecompositionIsRight)
<1>1. Init => (Contiguous(layout) => Asked)
  BY DEF Init, Asked, Drawn
<1>2. SessionInv /\ (Contiguous(layout) => Asked) /\ [Next]_vars
      => (Contiguous(layout) => Asked)'
  BY AskedSteps
<1>3. SessionInv /\ (Contiguous(layout) => Asked) /\ (Rightly => Verdicts) /\ [Next]_vars
      => (Rightly => Verdicts)'
  BY VerdictsSteps
<1>4. SessionInv /\ (Rightly => Verdicts)
      => (Contiguous(layout) /\ OraclesTell => DecompositionIsRight)
  BY VerdictsAreRight
<1>. QED
  BY <1>1, <1>2, <1>3, <1>4, VerdictsInit, SessionKept, PTL DEF Spec

-----------------------------------------------------------------------------
(* The rounded logarithm: there is one exponent, and it is Log2.           *)
LEMMA LogarithmIs ==
  ASSUME NEW n \in Nat \ {0}, NEW k \in Nat, 2^k <= n, n < 2^(k + 1)
  PROVE  Log2(n) = k
<1>1. k < 2^k
  <2>. DEFINE S == {j \in Nat : j < 2^j}
  <2>1. 0 \in S
    OBVIOUS
  <2>2. ASSUME NEW j \in S PROVE j + 1 \in S
    <3>1. j \in Nat /\ j < 2^j /\ 2^j \in Nat /\ 2^(j + 1) = 2 * 2^j
      BY TwoPower
    <3>2. \A x \in Nat : j < x => j + 1 < 2 * x
      OBVIOUS
    <3>. QED
      BY <3>1, <3>2
  <2>3. S \in SUBSET Nat
    OBVIOUS
  <2>. HIDE DEF S
  <2>4. S = Nat
    BY <2>1, <2>2, <2>3, Induction
  <2>. QED
    BY <2>4 DEF S
<1>2. 2^k \in Nat /\ k \in 0 .. n
  BY <1>1, TwoPower
<1>3. ASSUME NEW j \in 0 .. n, 2^j <= n, n < 2^(j + 1) PROVE j = k
  <2>1. j \in Nat /\ j + 1 \in Nat /\ k + 1 \in Nat
    OBVIOUS
  <2>2. /\ 2^j \in Nat /\ 2^(j + 1) \in Nat
        /\ 2^k \in Nat /\ 2^(k + 1) \in Nat
    BY <2>1, TwoPower
  <2>3. CASE j < k
    <3>1. j + 1 <= k
      BY <2>1, <2>3
    <3>2. 2^(j + 1) <= 2^k
      BY <2>1, <3>1, PowersGrow
    <3>. QED
      BY <1>3, <2>2, <3>2
  <2>4. CASE k < j
    <3>1. k + 1 <= j
      BY <2>1, <2>4
    <3>2. 2^(k + 1) <= 2^j
      BY <2>1, <3>1, PowersGrow
    <3>. QED
      BY <1>3, <2>2, <3>2
  <2>. QED
    BY <2>1, <2>3, <2>4
<1>. QED
  BY <1>2, <1>3 DEF Log2

(* So it brackets every positive number between two powers.                *)
LEMMA Logarithm ==
  ASSUME NEW n \in Nat \ {0}
  PROVE  /\ Log2(n) \in Nat
         /\ 2^Log2(n) \in Nat /\ 2^(Log2(n) + 1) \in Nat
         /\ 2^Log2(n) <= n /\ n < 2^(Log2(n) + 1)
<1>. DEFINE T == {k \in Nat : n < 2^(k + 1)}
<1>1. n \in T
  <2>. DEFINE S == {j \in Nat : j < 2^(j + 1)}
  <2>1. 0 \in S
    <3>1. 2^0 = 1 /\ 2^(0 + 1) = 2 * 2^0
      BY TwoPower
    <3>. QED
      BY <3>1
  <2>2. ASSUME NEW j \in S PROVE j + 1 \in S
    <3>1. j + 1 \in Nat /\ j < 2^(j + 1)
      OBVIOUS
    <3>2. 2^(j + 1) \in Nat /\ 2^((j + 1) + 1) = 2 * 2^(j + 1)
      BY <3>1, TwoPower
    <3>3. \A x \in Nat : j < x => j + 1 < 2 * x
      OBVIOUS
    <3>. QED
      BY <3>1, <3>2, <3>3
  <2>3. S \in SUBSET Nat
    OBVIOUS
  <2>. HIDE DEF S
  <2>4. S = Nat
    BY <2>1, <2>2, <2>3, Induction
  <2>. QED
    BY <2>4, Zenon DEF S
<1>2. PICK k \in T : \A j \in T : k <= j
  <2>1. T \in SUBSET Nat /\ T # {}
    BY <1>1, Zenon
  <2>. HIDE DEF T
  <2>. QED
    BY <2>1, LeastNumber
<1>3. k \in Nat /\ n < 2^(k + 1) /\ 2^k \in Nat /\ 2^(k + 1) \in Nat
  BY <1>2, TwoPower
<1>4. 2^k <= n
  <2>1. CASE k = 0
    BY <2>1
  <2>2. CASE k # 0
    <3>1. k - 1 \in Nat /\ (k - 1) + 1 = k /\ k - 1 \notin T
      BY <1>2, <1>3, <2>2
    <3>2. ~(n < 2^k)
      BY <3>1
    <3>. QED
      BY <1>3, <3>2
  <2>. QED
    BY <2>1, <2>2
<1>5. Log2(n) = k
  BY <1>3, <1>4, LogarithmIs
<1>. QED
  BY <1>3, <1>4, <1>5

(* A factor that is a power of two adds its exponent.                      *)
LEMMA LogarithmOfProduct ==
  ASSUME NEW n \in Nat \ {0}, NEW a \in Nat
  PROVE  Log2(n * 2^a) = Log2(n) + a
<1>. DEFINE k == Log2(n)
<1>1. /\ k \in Nat /\ 2^k \in Nat /\ 2^(k + 1) \in Nat /\ 2^k <= n /\ n < 2^(k + 1)
      /\ 2^a \in Nat \ {0}
  BY Logarithm, TwoPower
<1>. HIDE DEF k
<1>2. 2^(k + a) = 2^k * 2^a /\ 2^((k + a) + 1) = 2^(k + 1) * 2^a
  <2>1. k + 1 \in Nat /\ (k + 1) + a = (k + a) + 1
    BY <1>1
  <2>. QED
    BY <1>1, <2>1, PowerSum
<1>3. \A x, y \in Nat, z \in Nat \ {0} :
         x <= n /\ n < y => x * z <= n * z /\ n * z < y * z /\ n * z \in Nat \ {0}
  OBVIOUS
<1>4. /\ 2^(k + a) <= n * 2^a /\ n * 2^a < 2^((k + a) + 1)
      /\ n * 2^a \in Nat \ {0}
  BY <1>1, <1>2, <1>3
<1>5. k + a \in Nat
  BY <1>1
<1>6. Log2(n * 2^a) = k + a
  <2>. DEFINE m == n * 2^a
  <2>1. m \in Nat \ {0} /\ 2^(k + a) <= m /\ m < 2^((k + a) + 1)
    BY <1>4
  <2>. HIDE DEF m
  <2>2. Log2(m) = k + a
    BY <1>5, <2>1, LogarithmIs
  <2>. QED
    BY <2>2 DEF m
<1>. QED
  BY <1>6 DEF k

(* Of a power it is the exponent.                                          *)
LEMMA LogarithmOfPower ==
  ASSUME NEW a \in Nat
  PROVE  Log2(2^a) = a
<1>1. 2^a \in Nat \ {0} /\ 2^(a + 1) = 2 * 2^a
  BY TwoPower
<1>2. \A x \in Nat \ {0} : x <= x /\ x < 2 * x
  OBVIOUS
<1>3. 2^a <= 2^a /\ 2^a < 2^(a + 1)
  BY <1>1, <1>2
<1>. QED
  BY <1>1, <1>3, LogarithmIs

(* The powers that the table of modules is written in.                     *)
LEMMA TablePowers ==
  /\ 2^1 = 2 /\ 2^3 = 8 /\ 2^4 = 16 /\ 2^10 = 1024 /\ 2^13 = 8192 /\ 2^14 = 16384
<1>1. 2^0 = 1 /\ 2^(0 + 1) = 2 * 2^0
  BY TwoPower
<1>2. 2^1 = 2
  BY <1>1
<1>3. 2^(1 + 1) = 2 * 2^1 /\ 2^(2 + 1) = 2 * 2^2 /\ 2^(3 + 1) = 2 * 2^3
  BY TwoPower
<1>4. 2^3 = 8 /\ 2^4 = 16
  BY <1>2, <1>3
<1>5. 2^(4 + 4) = 2^4 * 2^4 /\ 2^(8 + 1) = 2 * 2^8 /\ 2^(9 + 1) = 2 * 2^9
  BY TwoPower, PowerSum
<1>6. 2^10 = 1024
  BY <1>4, <1>5
<1>7. 2^(10 + 3) = 2^10 * 2^3 /\ 2^(10 + 4) = 2^10 * 2^4
  BY PowerSum
<1>8. 2^13 = 8192 /\ 2^14 = 16384
  BY <1>4, <1>6, <1>7
<1>. QED
  BY <1>2, <1>4, <1>6, <1>8

(* What a division by the number of chips leaves of the size.              *)
LEMMA SizeOfChips ==
  ASSUME NEW m \in Nat, NEW n \in Nat \ {0}, NEW d \in Nat \ {0}, NEW c \in Nat,
         NEW w \in Nat, c >= 1024,
         m \div (n * 8) = c,
         n * d < w,
         m % (n * 8) = 0 \/ w <= 1024
  PROVE  (c * 8) * (n * d) <= m * d /\ m * d < (c * 8) * w
<1>. DEFINE r == m % (n * 8)
            p == n * d
<1>1. n * 8 \in Nat \ {0}
  OBVIOUS
<1>2. r \in 0 .. n * 8 - 1 /\ m = c * (n * 8) + r
  <2>. DEFINE b == n * 8
  <2>1. b \in Nat \ {0} /\ m \div b = c
    BY <1>1
  <2>. HIDE DEF b
  <2>2. m % b \in 0 .. b - 1 /\ m = (m \div b) * b + (m % b)
    BY <2>1, DivMod
  <2>3. m % b \in 0 .. b - 1 /\ m = c * b + (m % b)
    BY <2>1, <2>2
  <2>. QED
    BY <2>3 DEF b
<1>3. p \in Nat \ {0} /\ p < w
  OBVIOUS
<1>4. r \in Nat /\ r < n * 8 /\ (r = 0 \/ w <= 1024)
  BY <1>1, <1>2
<1>5. m * d = (c * 8) * p + r * d
  <2>1. \A x \in Nat : (c * (n * 8) + x) * d = (c * 8) * (n * d) + x * d
    OBVIOUS
  <2>. QED
    BY <1>2, <1>4, <2>1
<1>6. r * d \in Nat /\ r * d < 8 * p /\ (r = 0 => r * d = 0)
  <2>1. \A x \in Nat : x < n * 8 => x * d < (n * 8) * d
    OBVIOUS
  <2>2. (n * 8) * d = 8 * (n * d)
    OBVIOUS
  <2>3. \A x \in Nat : x * d \in Nat
    OBVIOUS
  <2>4. 0 * d = 0
    OBVIOUS
  <2>. QED
    BY <1>4, <2>1, <2>2, <2>3, <2>4
<1>. DEFINE s == r * d
<1>7. s \in Nat /\ s < 8 * p /\ (s = 0 \/ w <= 1024) /\ m * d = (c * 8) * p + s
  BY <1>4, <1>5, <1>6
<1>8. \A x \in Nat : x = (c * 8) * p + s => (c * 8) * p <= x /\ x < (c * 8) * w
  <2>. HIDE DEF s, p
  <2>1. p \in Nat /\ w \in Nat /\ p + 1 <= w
    BY <1>3
  <2>2. (c * 8) * (p + 1) <= (c * 8) * w
    <3>1. \A x, y, z \in Nat : x <= y => z * x <= z * y
      OBVIOUS
    <3>2. c * 8 \in Nat /\ p + 1 \in Nat
      BY <2>1
    <3>. QED
      BY <2>1, <3>1, <3>2
  <2>3. (c * 8) * (p + 1) = (c * 8) * p + c * 8
    <3>1. \A x \in Nat : x * (p + 1) = x * p + x
      BY <2>1
    <3>2. c * 8 \in Nat
      OBVIOUS
    <3>. QED
      BY <3>1, <3>2
  <2>4. s < c * 8
    BY <1>7, <1>3
  <2>5. (c * 8) * p \in Nat /\ (c * 8) * w \in Nat
    <3>1. \A x, y \in Nat : (x * 8) * y \in Nat
      OBVIOUS
    <3>. QED
      BY <2>1, <3>1
  <2>. QED
    BY <1>7, <2>2, <2>3, <2>4, <2>5
<1>9. m * d \in Nat
  OBVIOUS
<1>10. (c * 8) * p <= m * d /\ m * d < (c * 8) * w
  <2>. HIDE DEF s, p
  <2>. QED
    BY <1>7, <1>8, <1>9
<1>. QED
  BY <1>10

(* The address of a memory that is accepted is as long as its chips, its   *)
(* ranks and its DIMMs make it.                                            *)
LEMMA AddressLength ==
  ASSUME NEW m \in Nat \ {0}, NEW n \in Nat \ {0}, NEW d \in Nat \ {0}, NEW t \in {13, 14},
         (m \div (n * 8)) * 8 = 2^t,
         m % (n * 8) = 0 \/ n * d < 1024,
         PowerOfTwo(n) \/ PowerOfTwo(d)
  PROVE  Log2(m * d) = t + (Log2(n) + Log2(d))
<1>. DEFINE k == Log2(n) + Log2(d)
            c == m \div (n * 8)
<1>1. Log2(n) \in Nat /\ Log2(d) \in Nat
  BY Logarithm
<1>2. Log2(n * d) = k
  <2>1. CASE PowerOfTwo(n)
    <3>1. Log2(d * 2^Log2(n)) = Log2(d) + Log2(n)
      BY <1>1, LogarithmOfProduct
    <3>2. d * n = n * d /\ Log2(d) + Log2(n) = k
      BY <1>1
    <3>3. n = 2^Log2(n)
      BY <2>1 DEF PowerOfTwo
    <3>. QED
      BY <3>1, <3>2, <3>3
  <2>2. CASE PowerOfTwo(d)
    <3>1. Log2(n * 2^Log2(d)) = Log2(n) + Log2(d)
      BY <1>1, LogarithmOfProduct
    <3>2. d = 2^Log2(d)
      BY <2>2 DEF PowerOfTwo
    <3>. QED
      BY <3>1, <3>2
  <2>. QED
    BY <2>1, <2>2
<1>3. n * d \in Nat \ {0} /\ k \in Nat
  BY <1>1
<1>4. /\ 2^k \in Nat /\ 2^(k + 1) \in Nat
      /\ 2^k <= n * d /\ n * d < 2^(k + 1)
  <2>. DEFINE x == n * d
  <2>1. x \in Nat \ {0} /\ Log2(x) = k
    BY <1>2, <1>3
  <2>. HIDE DEF x, k
  <2>2. /\ 2^Log2(x) \in Nat /\ 2^(Log2(x) + 1) \in Nat
        /\ 2^Log2(x) <= x /\ x < 2^(Log2(x) + 1)
    BY <2>1, Logarithm
  <2>3. 2^k \in Nat /\ 2^(k + 1) \in Nat /\ 2^k <= x /\ x < 2^(k + 1)
    BY <2>1, <2>2
  <2>. QED
    BY <2>3 DEF x
<1>. HIDE DEF k
<1>5. c \in Nat /\ c * 8 = 2^t /\ c >= 1024
  <2>1. n * 8 \in Nat \ {0}
    OBVIOUS
  <2>2. c \in Nat
    <3>. DEFINE b == n * 8
    <3>1. b \in Nat \ {0} /\ m \in Nat
      BY <2>1
    <3>. HIDE DEF b
    <3>2. m \div b \in Nat
      BY <3>1, DivMod, Zenon
    <3>. QED
      BY <3>2 DEF b
  <2>. HIDE DEF c
  <2>3. c * 8 = 2^t
    BY DEF c
  <2>4. 2^t \in {8192, 16384}
    <3>1. t = 13 \/ t = 14
      OBVIOUS
    <3>2. 2^13 = 8192 /\ 2^14 = 16384
      BY TablePowers
    <3>3. CASE t = 13
      BY <3>2, <3>3
    <3>4. CASE t = 14
      BY <3>2, <3>4
    <3>. QED
      BY <3>1, <3>3, <3>4
  <2>. QED
    BY <2>2, <2>3, <2>4
<1>6. m % (n * 8) = 0 \/ 2^(k + 1) <= 1024
  <2>1. CASE m % (n * 8) = 0
    BY <2>1
  <2>2. CASE n * d < 1024
    <3>1. 2^k < 2^10
      BY <1>3, <1>4, <2>2, TablePowers
    <3>2. k < 10
      <4>1. 10 <= k => 2^10 <= 2^k
        BY <1>3, PowersGrow, Zenon
      <4>2. 2^10 \in Nat
        BY TablePowers
      <4>. QED
        BY <1>3, <1>4, <3>1, <4>1, <4>2
    <3>3. k + 1 \in Nat /\ k + 1 <= 10
      BY <1>3, <3>2
    <3>4. 2^(k + 1) <= 2^10
      BY <3>3, PowersGrow, Zenon
    <3>. QED
      BY <3>4, TablePowers
  <2>. QED
    BY <2>1, <2>2
<1>7. 2^t * (n * d) <= m * d /\ m * d < 2^t * 2^(k + 1)
  <2>. DEFINE w == 2^(k + 1)
  <2>1. w \in Nat /\ n * d < w /\ (m % (n * 8) = 0 \/ w <= 1024)
    BY <1>4, <1>6
  <2>2. m \div (n * 8) = c /\ m \in Nat
    OBVIOUS
  <2>. HIDE DEF w, c
  <2>3. (c * 8) * (n * d) <= m * d /\ m * d < (c * 8) * w
    BY <1>5, <2>1, <2>2, SizeOfChips
  <2>. QED
    BY <1>5, <2>3 DEF w
<1>8. t \in Nat /\ 2^t \in Nat
  BY TablePowers
<1>9. 2^(t + k) = 2^t * 2^k /\ 2^((t + k) + 1) = 2^t * 2^(k + 1) /\ t + k \in Nat
  <2>1. k + 1 \in Nat /\ t + (k + 1) = (t + k) + 1
    BY <1>3, <1>8
  <2>. QED
    BY <1>3, <1>8, <2>1, PowerSum
<1>10. 2^t * 2^k <= 2^t * (n * d)
  <2>1. \A x, y, z \in Nat : x <= y => z * x <= z * y
    OBVIOUS
  <2>. QED
    BY <1>3, <1>4, <1>8, <2>1
<1>. DEFINE x == m * d
<1>11. x \in Nat \ {0}
  OBVIOUS
<1>12. 2^(t + k) <= x /\ x < 2^((t + k) + 1)
  <2>1. 2^t * (n * d) \in Nat /\ 2^t * 2^k \in Nat
    BY <1>3, <1>4, <1>8
  <2>2. 2^t * (n * d) <= x /\ x < 2^((t + k) + 1)
    BY <1>7, <1>9
  <2>. HIDE DEF x
  <2>. QED
    BY <1>9, <1>10, <1>11, <2>1, <2>2
<1>13. Log2(x) = t + k
  <2>. HIDE DEF x
  <2>. QED
    BY <1>9, <1>11, <1>12, LogarithmIs
<1>. QED
  BY <1>13 DEF k

(* What AddUp says of one memory.                                          *)
BitsOf(o) ==
  /\ Sudoku_GetNumFunctions(o) + DRAMConfig(o).num_row_bits
       + DRAMConfig(o).num_column_bits + CachelineBits = max_bits(o)
  /\ GetNumFunctions(o) = Sudoku_GetNumFunctions(o)
  /\ PowerOfTwo(o.num_dimms) => GetNumBanks(o) = 2^Sudoku_GetNumFunctions(o)

(* What the command line can give.                                         *)
LEMMA OptionsTyped ==
  ASSUME NEW o \in Options
  PROVE  /\ o.type \in {"DDR4", "DDR5"}
         /\ o.module_size \in Nat \ {0} /\ o.num_ranks \in Nat \ {0}
         /\ o.num_dimms \in Nat \ {0}
BY ConfigurationAssumption

(* The number of banks is a product of powers and of the number of DIMMs,  *)
(* and its logarithm the sum of the bits.                                  *)
LEMMA BanksOfMemory ==
  ASSUME NEW d \in Nat \ {0}, NEW s \in Nat, NEW r \in Nat, NEW bg \in Nat,
         NEW ba \in Nat
  PROVE  LET banks == ((d * 2^s) * 2^r) * 2^bg * 2^ba
             bits == Log2(d) + s + r + bg + ba
         IN  /\ Log2(banks) = bits
             /\ d = 2^Log2(d) => banks = 2^bits
<1>. DEFINE e == ((s + r) + bg) + ba
            l == Log2(d)
            banks == ((d * 2^s) * 2^r) * 2^bg * 2^ba
            bits == l + s + r + bg + ba
<1>1. l \in Nat
  BY Logarithm
<1>2. banks = d * 2^e
  <2>1. 2^(s + r) = 2^s * 2^r
    BY PowerSum
  <2>2. 2^((s + r) + bg) = 2^(s + r) * 2^bg
    <3>1. s + r \in Nat
      OBVIOUS
    <3>. QED
      BY <3>1, PowerSum
  <2>3. 2^e = 2^((s + r) + bg) * 2^ba
    <3>1. (s + r) + bg \in Nat
      OBVIOUS
    <3>. QED
      BY <3>1, PowerSum
  <2>4. 2^s \in Nat /\ 2^r \in Nat /\ 2^bg \in Nat /\ 2^ba \in Nat
    BY TwoPower
  <2>5. \A w, x, y, z \in Nat : ((d * w) * x) * y * z = d * (((w * x) * y) * z)
    OBVIOUS
  <2>. QED
    BY <2>1, <2>2, <2>3, <2>4, <2>5
<1>3. e \in Nat /\ bits = l + e
  <2>. HIDE DEF l
  <2>. QED
    BY <1>1
<1>4. Log2(banks) = bits
  <2>. HIDE DEF e, banks, bits
  <2>1. Log2(d * 2^e) = Log2(d) + e
    BY <1>3, LogarithmOfProduct
  <2>. QED
    BY <1>2, <1>3, <2>1 DEF l
<1>5. d = 2^l => banks = 2^bits
  <2>. HIDE DEF e, banks, bits, l
  <2>1. 2^(l + e) = 2^l * 2^e
    BY <1>1, <1>3, PowerSum
  <2>. QED
    BY <1>2, <1>3, <2>1
<1>. QED
  BY <1>4, <1>5

(* Through every division and rounding of the configuration, the bits of   *)
(* one memory add up.                                                      *)
LEMMA MemoryAddsUp ==
  ASSUME NEW o \in Options, CachelineBits = 6, Accepted(o),
         PowerOfTwo(o.num_ranks) \/ PowerOfTwo(o.num_dimms), ChipsFill(o)
  PROVE  BitsOf(o)
<1>. DEFINE entry == CHOOSE e \in Entries(o) : TRUE
            m == o.module_size
            n == o.num_ranks
            d == o.num_dimms
            c == DRAMConfig(o)
            t == IF entry.chip_size = 8192 THEN 13 ELSE 14
<1>1. entry \in Entries(o)
  BY DEF Accepted
<1>2. /\ entry.type = o.type /\ entry.chip_size = ChipSize(o) /\ o.dq = 8
      /\ entry \in DRAMAddressTable
  <2>. HIDE DEF entry
  <2>. QED
    BY <1>1 DEF Entries, DRAMAddressTable, Entry
<1>3. \/ /\ entry.type = "DDR4" /\ entry.chip_size = 8192
         /\ entry.num_bank_group_bits = 2 /\ entry.num_row_bits = 16
         /\ entry.burst_length = 8
      \/ /\ entry.type = "DDR4" /\ entry.chip_size = 16384
         /\ entry.num_bank_group_bits = 2 /\ entry.num_row_bits = 17
         /\ entry.burst_length = 8
      \/ /\ entry.type = "DDR5" /\ entry.chip_size = 16384
         /\ entry.num_bank_group_bits = 3 /\ entry.num_row_bits = 16
         /\ entry.burst_length = 16
  <2>. HIDE DEF entry
  <2>. QED
    BY <1>2 DEF DRAMAddressTable, Entry
<1>4. entry.num_bank_address_bits = 2 /\ entry.num_column_bits = 10
  <2>. HIDE DEF entry
  <2>. QED
    BY <1>2 DEF DRAMAddressTable, Entry
<1>5. Log2(8) = 3 /\ Log2(16) = 4
  <2>1. Log2(2^3) = 3 /\ Log2(2^4) = 4
    BY LogarithmOfPower, Zenon
  <2>. QED
    BY <2>1, TablePowers
<1>6. /\ c.num_subchannel_bits = IF entry.type = "DDR4" THEN 0 ELSE 1
      /\ c.num_rank_bits = Log2(n)
      /\ c.num_bank_group_bits = entry.num_bank_group_bits
      /\ c.num_bank_address_bits = 2
      /\ c.num_row_bits = entry.num_row_bits
      /\ c.num_column_bits = 10 - Log2(entry.burst_length)
  BY <1>2, <1>4 DEF DRAMConfig
<1>7. m \in Nat \ {0} /\ n \in Nat \ {0} /\ d \in Nat \ {0}
  BY OptionsTyped
<1>8. Log2(n) \in Nat /\ Log2(d) \in Nat
  BY <1>7, Logarithm
<1>9. Log2(m * d) = t + (Log2(n) + Log2(d))
  <2>1. (n * 64) \div 8 = n * 8
    BY <1>7
  <2>2. ChipSize(o) = (m \div (n * 8)) * 8
    BY <1>2, <2>1 DEF ChipSize
  <2>3. m % (n * 8) = 0 \/ n * d < 1024
    BY <1>2, <2>1 DEF ChipsFill
  <2>4. t \in {13, 14} /\ 2^t = entry.chip_size
    <3>. HIDE DEF entry
    <3>. QED
      BY <1>3, TablePowers
  <2>5. (m \div (n * 8)) * 8 = 2^t
    BY <1>2, <2>2, <2>4
  <2>. HIDE DEF t, m, n, d, entry
  <2>6. PowerOfTwo(n) \/ PowerOfTwo(d)
    BY DEF n, d
  <2>. QED
    BY <1>7, <2>3, <2>4, <2>5, <2>6, AddressLength, Zenon
<1>. DEFINE ln == Log2(n)
            ld == Log2(d)
            s == c.num_subchannel_bits
            bg == c.num_bank_group_bits
<1>10. Sudoku_GetNumFunctions(o) = ld + s + ln + bg + 2
  BY <1>6 DEF Sudoku_GetNumFunctions
<1>11. s \in Nat /\ bg \in Nat /\ ln \in Nat /\ ld \in Nat
  <2>. HIDE DEF entry, c, n, d
  <2>. QED
    BY <1>3, <1>6, <1>8
<1>12. s + bg + c.num_row_bits + c.num_column_bits = t + 12
  <2>1. c.num_row_bits = entry.num_row_bits /\ bg = entry.num_bank_group_bits
        /\ c.num_column_bits = 10 - Log2(entry.burst_length)
        /\ s = IF entry.type = "DDR4" THEN 0 ELSE 1
    BY <1>6
  <2>. HIDE DEF entry, c, s, bg
  <2>. QED
    BY <1>3, <1>5, <2>1
<1>13. c.num_row_bits \in Nat /\ c.num_column_bits \in Nat
  <2>1. /\ c.num_row_bits = entry.num_row_bits
        /\ c.num_column_bits = 10 - Log2(entry.burst_length)
    BY <1>6
  <2>. HIDE DEF entry, c
  <2>. QED
    BY <1>3, <1>5, <2>1
<1>14. Sudoku_GetNumFunctions(o) + c.num_row_bits + c.num_column_bits + CachelineBits
         = max_bits(o)
  <2>1. max_bits(o) = 20 + (t + (ln + ld))
    BY <1>9 DEF max_bits
  <2>2. t \in Nat
    OBVIOUS
  <2>. DEFINE rows == c.num_row_bits
              columns == c.num_column_bits
  <2>3. s + bg + rows + columns = t + 12 /\ rows \in Nat /\ columns \in Nat
    BY <1>12, <1>13
  <2>. HIDE DEF entry, c, s, bg, ln, ld, t, rows, columns
  <2>4. (ld + s + ln + bg + 2) + rows + columns + 6 = 20 + (t + (ln + ld))
    BY <1>11, <2>2, <2>3
  <2>5. Sudoku_GetNumFunctions(o) + rows + columns + CachelineBits = max_bits(o)
    BY <1>10, <2>1, <2>4
  <2>. QED
    BY <2>5 DEF rows, columns
<1>. DEFINE ba == c.num_bank_address_bits
            ranks == (d * 2^s) * 2^ln
<1>15. GetNumBanks(o) = ranks * 2^bg * 2^ba /\ ba \in Nat
  BY <1>6 DEF GetNumBanks, GetNumRanks
<1>16. Sudoku_GetNumFunctions(o) = ld + s + ln + bg + ba
  BY <1>6 DEF Sudoku_GetNumFunctions
<1>17. /\ Log2(GetNumBanks(o)) = Sudoku_GetNumFunctions(o)
       /\ d = 2^ld => GetNumBanks(o) = 2^Sudoku_GetNumFunctions(o)
  <2>. HIDE DEF entry, c, s, bg, ba, ln, d, n
  <2>1. LET banks == ((d * 2^s) * 2^ln) * 2^bg * 2^ba
            bits == Log2(d) + s + ln + bg + ba
        IN  /\ Log2(banks) = bits
            /\ d = 2^Log2(d) => banks = 2^bits
    BY <1>7, <1>11, <1>15, BanksOfMemory
  <2>. QED
    BY <1>15, <1>16, <2>1
<1>. QED
  BY <1>14, <1>17 DEF BitsOf, GetNumFunctions, PowerOfTwo

(* Every memory that is accepted and is made of whole chips has the bits   *)
(* that its parts need.                                                    *)
THEOREM ModulesAddUp ==
  CachelineBits = 6 /\ (\A o \in Options : Accepted(o) => ChipsFill(o)) =>
    (Spec => []BitsAddUp)
<1>. SUFFICES ASSUME CachelineBits = 6, \A o \in Options : Accepted(o) => ChipsFill(o)
              PROVE  Spec => []BitsAddUp
  OBVIOUS
<1>1. AddUp
  BY MemoryAddsUp DEF AddUp, BitsOf
<1>2. Init => BitsAddUp
  BY <1>1 DEF BitsAddUp
<1>3. BitsAddUp /\ [Next]_vars => BitsAddUp'
  <2>1. BitsAddUp'
    BY <1>1 DEF BitsAddUp
  <2>. QED
    BY <2>1
<1>. QED
  BY <1>2, <1>3, PTL DEF Spec

-----------------------------------------------------------------------------
(* The greatest of finitely many numbers.                                  *)
LEMMA GreatestNumber ==
  ASSUME NEW N \in Nat, NEW s \in SUBSET (1 .. N), s # {}
  PROVE  Max(s) \in s /\ \A y \in s : y <= Max(s)
<1>. DEFINE T == {N - y : y \in s}
<1>1. T \in SUBSET Nat /\ T # {}
  <2>1. \A y \in s : y \in 1 .. N /\ N - y \in Nat
    OBVIOUS
  <2>. QED
    BY <2>1
<1>2. PICK t \in T : \A y \in T : t <= y
  <2>. HIDE DEF T
  <2>. QED
    BY <1>1, LeastNumber
<1>3. PICK x \in s : t = N - x
  BY <1>2
<1>4. \A y \in s : x >= y
  <2>1. x \in 1 .. N /\ \A y \in s : y \in 1 .. N /\ N - x <= N - y
    BY <1>2, <1>3
  <2>2. \A a, b \in 1 .. N : N - a <= N - b => a >= b
    OBVIOUS
  <2>. QED
    BY <2>1, <2>2
<1>5. Max(s) \in s /\ \A y \in s : Max(s) >= y
  BY <1>3, <1>4, Zenon DEF Max
<1>. QED
  BY <1>5

(* What a fold that adds up is: running sums.                              *)
RunningSums(v, sums) ==
  /\ sums \in [0 .. Len(v) -> Int]
  /\ sums[0] = 0
  /\ \A n \in 1 .. Len(v) : sums[n] = sums[n - 1] + v[n]

(* The fold is there, by recursion on the positions, and its last sum is   *)
(* the total.                                                              *)
LEMMA TotalIsSum ==
  ASSUME NEW v \in Seq(Int)
  PROVE  \E sums : RunningSums(v, sums) /\ Total(v) = sums[Len(v)]
<1>. DEFINE N == Len(v)
            D == 1 .. N
            Is(it) == it = [s \in SUBSET D |->
                             IF s = {} THEN 0 ELSE it[s \ {Max(s)}] + v[Max(s)]]
            X == [SUBSET D -> Int]
            step == [yn \in X \X D |->
                       [s \in SUBSET D |-> IF yn[2] \in s
                                           THEN yn[1][s \ {yn[2]}] + v[yn[2]]
                                           ELSE yn[1][s]]]
            zero == [s \in SUBSET D |-> 0]
<1>1. N \in Nat /\ DOMAIN v = D /\ \A n \in D : v[n] \in Int
  OBVIOUS
<1>2. zero \in X
  OBVIOUS
<1>3. \A y \in X, n \in D : step[<<y, n>>] \in X
  <2>. TAKE y \in X, n \in D
  <2>1. step[<<y, n>>] = [s \in SUBSET D |-> IF n \in s THEN y[s \ {n}] + v[n] ELSE y[s]]
    BY Zenon
  <2>2. \A s \in SUBSET D : s \ {n} \in SUBSET D
    OBVIOUS
  <2>. HIDE DEF D, step
  <2>3. \A s \in SUBSET D : (IF n \in s THEN y[s \ {n}] + v[n] ELSE y[s]) \in Int
    <3>1. \A s \in SUBSET D : y[s] \in Int
      OBVIOUS
    <3>2. \A s \in SUBSET D : y[s \ {n}] \in Int
      BY <2>2, <3>1
    <3>3. v[n] \in Int
      BY <1>1
    <3>. QED
      BY <3>1, <3>2, <3>3
  <2>. QED
    BY <2>1, <2>3, Zenon
<1>4. PICK g \in [0 .. N -> X] : Follows(g, N, zero, step)
  <2>1. \A y \in X, n \in 1 .. N : step[<<y, n>>] \in X
    BY <1>3, Zenon
  <2>. HIDE DEF step, X, zero, N
  <2>. QED
    BY <1>1, <1>2, <2>1, RecursionExists, Zenon
<1>5. /\ \A s \in SUBSET D : g[0][s] = 0
      /\ \A n \in D, s \in SUBSET D :
           g[n][s] = IF n \in s THEN g[n - 1][s \ {n}] + v[n] ELSE g[n - 1][s]
  <2>1. g[0] = zero /\ \A n \in D : g[n] = step[<<g[n - 1], n>>]
    BY <1>4, Zenon DEF Follows
  <2>2. \A n \in D : g[n - 1] \in X
    <3>1. \A n \in D : n - 1 \in 0 .. N
      BY <1>1
    <3>. HIDE DEF X, D
    <3>. QED
      BY <1>4, <3>1
  <2>3. \A n \in D, y \in X : step[<<y, n>>] =
           [s \in SUBSET D |-> IF n \in s THEN y[s \ {n}] + v[n] ELSE y[s]]
    BY Zenon
  <2>4. \A s \in SUBSET D : g[0][s] = 0
    BY <2>1
  <2>. HIDE DEF step, X, D, zero
  <2>5. \A n \in D : g[n] = [s \in SUBSET D |->
            IF n \in s THEN g[n - 1][s \ {n}] + v[n] ELSE g[n - 1][s]]
    BY <2>1, <2>2, <2>3, Zenon
  <2>6. ASSUME NEW n \in D, NEW s \in SUBSET D
        PROVE  g[n][s] = IF n \in s THEN g[n - 1][s \ {n}] + v[n] ELSE g[n - 1][s]
    <3>. DEFINE at == [t \in SUBSET D |->
                         IF n \in t THEN g[n - 1][t \ {n}] + v[n] ELSE g[n - 1][t]]
    <3>1. g[n] = at
      BY <2>5, Zenon
    <3>2. at[s] = IF n \in s THEN g[n - 1][s \ {n}] + v[n] ELSE g[n - 1][s]
      OBVIOUS
    <3>. QED
      BY <3>1, <3>2
  <2>. QED
    BY <2>4, <2>6, Zenon
<1>6. ASSUME NEW j \in 0 .. N, NEW s \in SUBSET (1 .. j)
      PROVE  g[N][s] = g[j][s]
  <2>. DEFINE S == {m \in 0 .. N : m >= j => g[m][s] = g[j][s]}
  <2>1. s \in SUBSET D /\ j \in 0 .. N
    BY <1>1, <1>6
  <2>2. 0 \in S
    BY <2>1
  <2>3. \A m \in 0 .. N - 1 : m \in S => m + 1 \in S
    <3>. TAKE m \in 0 .. N - 1
    <3>. HAVE m \in S
    <3>1. m + 1 \in D /\ (m + 1) - 1 = m /\ m + 1 \in 0 .. N
      BY <1>1
    <3>2. CASE m >= j
      <4>1. m + 1 \notin s
        BY <1>6, <3>2
      <4>. DEFINE k == m + 1
      <4>2. k \in D /\ k - 1 = m /\ k \notin s
        BY <3>1, <4>1
      <4>. HIDE DEF k, D
      <4>3. g[k][s] = g[m][s]
        BY <1>5, <2>1, <4>2, Zenon
      <4>4. g[m + 1][s] = g[m][s]
        BY <4>3 DEF k
      <4>. QED
        BY <3>1, <3>2, <4>4
    <3>3. CASE ~(m >= j)
      <4>1. m + 1 >= j => m + 1 = j
        BY <2>1, <3>3
      <4>. QED
        BY <3>1, <4>1
    <3>. QED
      BY <3>2, <3>3
  <2>. HIDE DEF S
  <2>4. N \in S
    <3>1. 0 .. N \subseteq S
      BY <1>1, <2>2, <2>3, InductionTo, Zenon
    <3>2. N \in 0 .. N
      BY <1>1
    <3>. QED
      BY <3>1, <3>2
  <2>. QED
    BY <1>1, <1>6, <2>4 DEF S
<1>7. Is(g[N])
  <2>1. \A s \in SUBSET D : s # {} => g[N][s] = g[N][s \ {Max(s)}] + v[Max(s)]
    <3>. TAKE s \in SUBSET D
    <3>. HAVE s # {}
    <3>. DEFINE x == Max(s)
    <3>1. x \in s /\ \A y \in s : y <= x
      BY <1>1, GreatestNumber, Zenon
    <3>. HIDE DEF x
    <3>2. /\ x \in D /\ x \in 0 .. N /\ x - 1 \in 0 .. N
          /\ s \in SUBSET (1 .. x) /\ s \ {x} \in SUBSET (1 .. x - 1)
      BY <1>1, <3>1
    <3>3. g[N][s] = g[x][s] /\ g[N][s \ {x}] = g[x - 1][s \ {x}]
      BY <1>6, <3>2, Zenon
    <3>4. g[x][s] = g[x - 1][s \ {x}] + v[x]
      BY <1>5, <3>1, <3>2, Zenon
    <3>. QED
      BY <3>3, <3>4 DEF x
  <2>2. g[N][{}] = 0
    <3>1. {} \in SUBSET (1 .. 0) /\ 0 \in 0 .. N /\ {} \in SUBSET D
      BY <1>1
    <3>. QED
      BY <1>5, <1>6, <3>1
  <2>3. g[N] \in X
    BY <1>1, <1>4
  <2>. HIDE DEF D
  <2>. QED
    BY <2>1, <2>2, <2>3, Zenon
<1>. DEFINE it == CHOOSE f : Is(f)
<1>8. Total(v) = it[DOMAIN v]
  <2>1. Total(v) =
          LET iter[t \in SUBSET (DOMAIN v)] ==
                IF t = {} THEN 0 ELSE iter[t \ {Max(t)}] + v[Max(t)]
          IN  iter[DOMAIN v]
    BY DEF Total, FoldLeft, MapThenFoldSet
  <2>. QED
    BY <1>1, <2>1, Zenon
<1>9. Is(it)
  <2>. HIDE DEF Is
  <2>. QED
    BY <1>7
<1>. HIDE DEF it
<1>10. it[{}] = 0 /\ \A n \in D : it[1 .. n] = it[1 .. n - 1] + v[n]
  <2>1. it[{}] = 0
    BY <1>9
  <2>2. ASSUME NEW n \in D PROVE it[1 .. n] = it[1 .. n - 1] + v[n]
    <3>1. 1 .. n \in SUBSET D /\ n \in 1 .. n /\ (1 .. n) \ {n} = 1 .. n - 1
      BY <1>1
    <3>2. Max(1 .. n) = n
      <4>1. n \in Nat /\ 1 .. n \in SUBSET (1 .. n) /\ 1 .. n # {}
        BY <3>1, <1>1
      <4>2. Max(1 .. n) \in 1 .. n /\ \A y \in 1 .. n : y <= Max(1 .. n)
        BY <4>1, GreatestNumber, Zenon
      <4>. QED
        BY <3>1, <4>2
    <3>3. it[1 .. n] = it[(1 .. n) \ {Max(1 .. n)}] + v[Max(1 .. n)]
      BY <1>9, <3>1, Zenon
    <3>. QED
      BY <3>1, <3>2, <3>3, Zenon
  <2>. QED
    BY <2>1, <2>2
<1>. DEFINE sums == [n \in 0 .. N |-> it[1 .. n]]
<1>11. sums[0] = 0 /\ \A n \in D : sums[n] = sums[n - 1] + v[n]
  <2>1. 1 .. 0 = {} /\ 0 \in 0 .. N
    BY <1>1
  <2>2. \A n \in D : n \in 0 .. N /\ n - 1 \in 0 .. N
    BY <1>1
  <2>. QED
    BY <1>10, <2>1, <2>2
<1>12. \A n \in 0 .. N : sums[n] \in Int
  <2>. DEFINE S == {n \in 0 .. N : sums[n] \in Int}
  <2>1. 0 \in S
    BY <1>1, <1>11
  <2>2. \A n \in 0 .. N - 1 : n \in S => n + 1 \in S
    <3>. TAKE n \in 0 .. N - 1
    <3>. HAVE n \in S
    <3>1. n + 1 \in D /\ (n + 1) - 1 = n /\ n + 1 \in 0 .. N /\ sums[n] \in Int
      BY <1>1
    <3>. HIDE DEF sums
    <3>2. sums[n + 1] = sums[n] + v[n + 1] /\ v[n + 1] \in Int
      BY <1>1, <1>11, <3>1
    <3>. QED
      BY <3>1, <3>2
  <2>. HIDE DEF S
  <2>3. 0 .. N \subseteq S
    BY <1>1, <2>1, <2>2, InductionTo, Zenon
  <2>. QED
    BY <2>3 DEF S
<1>13. RunningSums(v, sums)
  <2>1. sums \in [0 .. N -> Int]
    BY <1>12
  <2>. QED
    BY <1>11, <2>1, Zenon DEF RunningSums
<1>14. Total(v) = sums[N]
  BY <1>1, <1>8
<1>. QED
  BY <1>13, <1>14, Zenon

(* The time of a row, of which its last entry is not the start.            *)
LEMMA TotalOfTwo ==
  ASSUME NEW a \in Int, NEW b \in Int
  PROVE  Total(<<a, b>>) = a + b
<1>. DEFINE v == <<a, b>>
<1>1. v \in Seq(Int) /\ Len(v) = 2 /\ v[1] = a /\ v[2] = b
  OBVIOUS
<1>. HIDE DEF v
<1>2. PICK sums : RunningSums(v, sums) /\ Total(v) = sums[Len(v)]
  BY <1>1, TotalIsSum, Zenon
<1>3. /\ sums[0] = 0 /\ Total(v) = sums[2]
      /\ \A n \in 1 .. 2 : sums[n] = sums[n - 1] + v[n]
  BY <1>1, <1>2 DEF RunningSums
<1>4. sums[1] = sums[0] + v[1] /\ sums[2] = sums[1] + v[2]
  <2>1. 1 \in 1 .. 2 /\ 2 \in 1 .. 2 /\ 1 - 1 = 0 /\ 2 - 1 = 1
    OBVIOUS
  <2>. QED
    BY <1>3, <2>1
<1>5. Total(v) = a + b
  BY <1>1, <1>3, <1>4
<1>. QED
  BY <1>5 DEF v

(* And of three, as in a row of the fine measurement.                      *)
LEMMA TotalOfThree ==
  ASSUME NEW a \in Int, NEW b \in Int, NEW c \in Int
  PROVE  Total(<<a, b, c>>) = a + b + c
<1>. DEFINE v == <<a, b, c>>
<1>1. v \in Seq(Int) /\ Len(v) = 3 /\ v[1] = a /\ v[2] = b /\ v[3] = c
  OBVIOUS
<1>. HIDE DEF v
<1>2. PICK sums : RunningSums(v, sums) /\ Total(v) = sums[Len(v)]
  BY <1>1, TotalIsSum, Zenon
<1>3. /\ sums[0] = 0 /\ Total(v) = sums[3]
      /\ \A n \in 1 .. 3 : sums[n] = sums[n - 1] + v[n]
  BY <1>1, <1>2 DEF RunningSums
<1>4. sums[1] = sums[0] + v[1] /\ sums[2] = sums[1] + v[2] /\ sums[3] = sums[2] + v[3]
  <2>1. /\ 1 \in 1 .. 3 /\ 2 \in 1 .. 3 /\ 3 \in 1 .. 3
        /\ 1 - 1 = 0 /\ 2 - 1 = 1 /\ 3 - 1 = 2
    OBVIOUS
  <2>. QED
    BY <1>3, <2>1
<1>5. Total(v) = a + b + c
  BY <1>1, <1>3, <1>4
<1>. QED
  BY <1>5 DEF v

(* What bounds every value bounds their average.                           *)
LEMMA TotalIsBounded ==
  ASSUME NEW v \in Seq(Int), NEW lo \in Int, NEW hi \in Int,
         \A n \in 1 .. Len(v) : lo <= v[n] /\ v[n] <= hi
  PROVE  /\ Total(v) \in Int
         /\ Len(v) * lo <= Total(v) /\ Total(v) <= Len(v) * hi
<1>. DEFINE N == Len(v)
<1>1. PICK sums : RunningSums(v, sums) /\ Total(v) = sums[N]
  BY TotalIsSum
<1>2. /\ sums \in [0 .. N -> Int] /\ sums[0] = 0 /\ N \in Nat
      /\ \A n \in 1 .. N : sums[n] = sums[n - 1] + v[n] /\ v[n] \in Int
  BY <1>1 DEF RunningSums
<1>. DEFINE S == {n \in 0 .. N : n * lo <= sums[n] /\ sums[n] <= n * hi}
<1>. HIDE DEF N
<1>3. 0 \in S
  BY <1>2
<1>4. \A n \in 0 .. N - 1 : n \in S => n + 1 \in S
  <2>. TAKE n \in 0 .. N - 1
  <2>. HAVE n \in S
  <2>. DEFINE k == n + 1
  <2>1. k \in 1 .. N /\ k \in 0 .. N /\ k - 1 = n /\ n \in Int /\ n \in 0 .. N
    BY <1>2
  <2>2. n * lo <= sums[n] /\ sums[n] <= n * hi /\ sums[n] \in Int
    BY <1>2, <2>1
  <2>3. k * lo = n * lo + lo /\ k * hi = n * hi + hi
    BY <2>1
  <2>4. n * lo \in Int /\ n * hi \in Int
    BY <2>1
  <2>. HIDE DEF k
  <2>5. sums[k] = sums[n] + v[k] /\ v[k] \in Int /\ lo <= v[k] /\ v[k] <= hi
    BY <1>2, <2>1 DEF N
  <2>6. k * lo <= sums[k] /\ sums[k] <= k * hi
    BY <2>2, <2>3, <2>4, <2>5
  <2>7. k \in S
    BY <2>1, <2>6
  <2>. QED
    BY <2>7 DEF k
<1>5. N \in S
  <2>. HIDE DEF S
  <2>1. 0 .. N \subseteq S
    BY <1>2, <1>3, <1>4, InductionTo, Zenon
  <2>2. N \in 0 .. N
    BY <1>2
  <2>. QED
    BY <2>1, <2>2
<1>6. sums[N] \in Int
  BY <1>2
<1>. QED
  BY <1>1, <1>5, <1>6 DEF N

(* Integer division keeps bounds that are integers.                        *)
LEMMA QuotientIsBounded ==
  ASSUME NEW n \in Nat \ {0}, NEW t \in Int, NEW lo \in Int, NEW hi \in Int,
         n * lo <= t, t <= n * hi
  PROVE  t \div n \in Int /\ lo <= t \div n /\ t \div n <= hi
<1>1. t \div n \in Int /\ t % n \in 0 .. n - 1 /\ t = n * (t \div n) + (t % n)
  OBVIOUS
<1>. DEFINE q == t \div n
            r == t % n
<1>2. q \in Int /\ r \in Int /\ 0 <= r /\ r < n /\ t = n * q + r
  BY <1>1
<1>. HIDE DEF q, r
<1>3. lo <= q
  <2>. SUFFICES ASSUME q + 1 <= lo PROVE FALSE
    BY <1>2
  <2>1. n * (q + 1) <= n * lo
    <3>1. \A x, y \in Int : x <= y => n * x <= n * y
      OBVIOUS
    <3>. QED
      BY <1>2, <3>1
  <2>2. n * (q + 1) = n * q + n
    BY <1>2
  <2>3. n * q \in Int /\ n * lo \in Int
    BY <1>2
  <2>. QED
    BY <1>2, <2>1, <2>2, <2>3
<1>4. q <= hi
  <2>. SUFFICES ASSUME hi + 1 <= q PROVE FALSE
    BY <1>2
  <2>1. n * (hi + 1) <= n * q
    <3>1. \A x, y \in Int : x <= y => n * x <= n * y
      OBVIOUS
    <3>. QED
      BY <1>2, <3>1
  <2>2. n * (hi + 1) = n * hi + n
    OBVIOUS
  <2>3. n * q \in Int /\ n * hi \in Int
    BY <1>2
  <2>. QED
    BY <1>2, <2>1, <2>2, <2>3
<1>. QED
  BY <1>2, <1>3, <1>4 DEF q

(* So an average lies where the values do.                                 *)
LEMMA AverageIsBounded ==
  ASSUME NEW v \in Seq(Int), v # <<>>, NEW lo \in Int, NEW hi \in Int,
         \A n \in 1 .. Len(v) : lo <= v[n] /\ v[n] <= hi
  PROVE  GetAverage(v) \in Int /\ lo <= GetAverage(v) /\ GetAverage(v) <= hi
<1>1. Len(v) \in Nat \ {0}
  OBVIOUS
<1>. DEFINE n == Len(v)
            t == Total(v)
<1>2. t \in Int /\ n * lo <= t /\ t <= n * hi /\ n \in Nat \ {0}
  BY <1>1, TotalIsBounded, Zenon
<1>3. GetAverage(v) = t \div n
  BY DEF GetAverage
<1>. HIDE DEF n, t
<1>. QED
  BY <1>2, <1>3, QuotientIsBounded, Zenon

(* A greatest and a least value at finitely many places.                   *)
LEMMA GreatestAt ==
  ASSUME NEW J, IsFiniteSet(J), J # {}, NEW v, \A j \in J : v[j] \in Int
  PROVE  \E j \in J : \A i \in J : v[i] <= v[j]
<1>. DEFINE above(j) == {i \in J : v[i] > v[j]}
            F == {above(j) : j \in J}
<1>1. \A j \in J : IsFiniteSet(above(j))
  <2>. TAKE j \in J
  <2>1. above(j) \subseteq J
    OBVIOUS
  <2>. HIDE DEF above
  <2>. QED
    BY <2>1, FS_Subset
<1>2. PICK S \in F : \A T \in F : Cardinality(S) <= Cardinality(T)
  <2>1. F # {} /\ \A S \in F : IsFiniteSet(S)
    <3>. HIDE DEF above
    <3>. QED
      BY <1>1
  <2>. HIDE DEF F
  <2>. QED
    BY <2>1, FewestElements
<1>3. PICK j \in J : S = above(j)
  BY <1>2
<1>4. ASSUME NEW i \in J, v[i] > v[j] PROVE FALSE
  <2>1. above(i) \subseteq above(j)
    BY <1>4
  <2>2. i \in above(j) /\ i \notin above(i)
    BY <1>4
  <2>3. above(i) \in F
    OBVIOUS
  <2>. HIDE DEF above, F
  <2>4. Cardinality(above(j)) <= Cardinality(above(i))
    BY <1>2, <1>3, <2>3
  <2>5. Cardinality(above(i)) < Cardinality(above(j))
    <3>1. IsFiniteSet(above(j)) /\ IsFiniteSet(above(i))
      BY <1>1
    <3>2. above(i) # above(j)
      BY <2>2
    <3>3. Cardinality(above(i)) <= Cardinality(above(j))
      BY <2>1, <3>1, FS_Subset
    <3>4. Cardinality(above(i)) # Cardinality(above(j))
      BY <2>1, <3>1, <3>2, FS_Subset
    <3>5. Cardinality(above(i)) \in Nat /\ Cardinality(above(j)) \in Nat
      BY <3>1, FS_CardinalityType
    <3>. QED
      BY <3>3, <3>4, <3>5
  <2>6. Cardinality(above(i)) \in Nat /\ Cardinality(above(j)) \in Nat
    BY <1>1, FS_CardinalityType
  <2>. QED
    BY <2>4, <2>5, <2>6
<1>. QED
  BY <1>4

(* And a least one.                                                        *)
LEMMA LeastAt ==
  ASSUME NEW J, IsFiniteSet(J), J # {}, NEW v, \A j \in J : v[j] \in Int
  PROVE  \E j \in J : \A i \in J : v[j] <= v[i]
<1>. DEFINE w == [j \in J |-> 0 - v[j]]
<1>1. \A j \in J : w[j] \in Int /\ w[j] = 0 - v[j]
  OBVIOUS
<1>2. PICK j \in J : \A i \in J : w[i] <= w[j]
  <2>. HIDE DEF w
  <2>. QED
    BY <1>1, GreatestAt
<1>. QED
  BY <1>1, <1>2

(* What std::sort leaves at a place.                                       *)
AtMost(v, x) == {i \in DOMAIN v : v[i] <= x}
Below(v, x) == {i \in DOMAIN v : v[i] < x}

(* They are finite, and can be counted.                                    *)
LEMMA PlacesAreFinite ==
  ASSUME NEW v \in Seq(Int), NEW x
  PROVE  /\ IsFiniteSet(AtMost(v, x)) /\ Cardinality(AtMost(v, x)) \in Nat
         /\ IsFiniteSet(Below(v, x)) /\ Cardinality(Below(v, x)) \in Nat
<1>1. IsFiniteSet(DOMAIN v)
  BY DomainIsFinite
<1>2. AtMost(v, x) \subseteq DOMAIN v /\ Below(v, x) \subseteq DOMAIN v
  BY DEF AtMost, Below
<1>. QED
  BY <1>1, <1>2, FS_Subset, FS_CardinalityType

(* A place holds a value, which fewer values are below than places come    *)
(* before, and enough are not above.                                       *)
LEMMA SortedPlace ==
  ASSUME NEW v \in Seq(Int), NEW k \in 1 .. Len(v)
  PROVE  /\ Sorted(v)[k] \in Range(v) /\ Sorted(v)[k] \in Int
         /\ Cardinality(Below(v, Sorted(v)[k])) < k
         /\ k <= Cardinality(AtMost(v, Sorted(v)[k]))
<1>. DEFINE N == Len(v)
            J == {j \in 1 .. N : k <= Cardinality(AtMost(v, v[j]))}
<1>1. N \in Nat /\ DOMAIN v = 1 .. N /\ \A n \in 1 .. N : v[n] \in Int
  OBVIOUS
<1>2. IsFiniteSet(1 .. N) /\ Cardinality(1 .. N) = N
  <2>1. N \in Int /\ 1 \in Int
    BY <1>1
  <2>. HIDE DEF N
  <2>. QED
    BY <1>1, <2>1, FS_Interval
<1>3. J # {}
  <2>. HIDE DEF N
  <2>1. 1 .. N # {}
    BY DEF N
  <2>2. PICK g \in 1 .. N : \A i \in 1 .. N : v[i] <= v[g]
    BY <1>1, <1>2, <2>1, GreatestAt, Zenon
  <2>3. AtMost(v, v[g]) = 1 .. N
    BY <1>1, <2>2 DEF AtMost
  <2>4. k <= N
    BY DEF N
  <2>5. k <= Cardinality(AtMost(v, v[g]))
    BY <1>2, <2>3, <2>4
  <2>. QED
    BY <2>5
<1>4. PICK j \in J : \A i \in J : v[j] <= v[i]
  <2>1. J \subseteq 1 .. N
    OBVIOUS
  <2>. HIDE DEF J, N
  <2>2. IsFiniteSet(J) /\ \A i \in J : v[i] \in Int
    BY <1>1, <1>2, <2>1, FS_Subset, Zenon
  <2>. QED
    BY <1>3, <2>2, LeastAt, Zenon
<1>. DEFINE x == v[j]
<1>5. x \in Range(v) /\ x \in Int /\ k <= Cardinality(AtMost(v, x))
  BY <1>1, <1>4, Zenon DEF Range
<1>6. Cardinality(Below(v, x)) < k
  <2>1. CASE Below(v, x) = {}
    BY <2>1, FS_EmptySet
  <2>2. CASE Below(v, x) # {}
    <3>1. Below(v, x) \subseteq 1 .. N /\ IsFiniteSet(Below(v, x))
      BY <1>1, PlacesAreFinite, Zenon DEF Below
    <3>2. PICK g \in Below(v, x) : \A i \in Below(v, x) : v[i] <= v[g]
      <4>1. \A i \in Below(v, x) : v[i] \in Int
        BY <1>1, <3>1
      <4>. HIDE DEF x
      <4>. QED
        BY <2>2, <3>1, <4>1, GreatestAt, Zenon
    <3>3. g \in 1 .. N /\ v[g] < x /\ v[g] \in Int
      BY <1>1, <3>1, <3>2 DEF Below
    <3>4. AtMost(v, v[g]) = Below(v, x)
      <4>1. \A i \in DOMAIN v : v[i] \in Int
        BY <1>1
      <4>2. \A i \in DOMAIN v : v[i] < x => v[i] <= v[g]
        BY <3>2 DEF Below
      <4>3. \A i \in DOMAIN v : v[i] <= v[g] => v[i] < x
        BY <1>5, <3>3, <4>1
      <4>. QED
        BY <4>2, <4>3, Zenon DEF AtMost, Below
    <3>5. ~(k <= Cardinality(AtMost(v, v[g])))
      <4>1. g \in J => x <= v[g]
        BY <1>4
      <4>. QED
        BY <1>5, <3>3, <4>1
    <3>6. Cardinality(AtMost(v, v[g])) \in Nat
      BY PlacesAreFinite
    <3>. QED
      BY <3>4, <3>5, <3>6
  <2>. QED
    BY <2>1, <2>2
<1>. DEFINE at(y) == /\ Cardinality({i \in DOMAIN v : v[i] < y}) < k
                     /\ k <= Cardinality({i \in DOMAIN v : v[i] <= y})
            s == CHOOSE y \in Range(v) : at(y)
<1>7. Sorted(v)[k] = s
  <2>1. k \in DOMAIN v
    BY <1>1
  <2>. QED
    BY <2>1, Zenon DEF Sorted
<1>8. s \in Range(v) /\ at(s)
  <2>1. at(x)
    BY <1>5, <1>6 DEF AtMost, Below
  <2>2. \E y \in Range(v) : at(y)
    <3>. HIDE DEF at, x
    <3>. QED
      BY <1>5, <2>1
  <2>. HIDE DEF at
  <2>. QED
    BY <2>2
<1>. HIDE DEF s
<1>9. s \in Int
  BY <1>1, <1>8 DEF Range
<1>. QED
  BY <1>7, <1>8, <1>9 DEF AtMost, Below

(* A value that many do not exceed bounds a place, and so does a value     *)
(* below all.                                                              *)
LEMMA SortedBelow ==
  ASSUME NEW v \in Seq(Int), NEW k \in 1 .. Len(v), NEW x \in Int,
         k <= Cardinality(AtMost(v, x))
  PROVE  Sorted(v)[k] <= x
<1>. DEFINE s == Sorted(v)[k]
<1>1. s \in Int /\ Cardinality(Below(v, s)) < k
  BY SortedPlace
<1>. HIDE DEF s
<1>. SUFFICES ASSUME x < s PROVE FALSE
  BY <1>1 DEF s
<1>2. AtMost(v, x) \subseteq Below(v, s)
  <2>1. \A i \in DOMAIN v : v[i] \in Int
    OBVIOUS
  <2>. QED
    BY <1>1, <2>1 DEF AtMost, Below
<1>3. Cardinality(AtMost(v, x)) <= Cardinality(Below(v, s))
  BY <1>2, PlacesAreFinite, FS_Subset
<1>. QED
  BY <1>1, <1>3, PlacesAreFinite

(* Sorting leaves the values within their bounds,                          *)
LEMMA SortedWithin ==
  ASSUME NEW v \in Seq(Int), NEW lo \in Int, NEW hi \in Int,
         \A n \in 1 .. Len(v) : lo <= v[n] /\ v[n] <= hi,
         NEW k \in 1 .. Len(v)
  PROVE  Sorted(v)[k] \in Int /\ lo <= Sorted(v)[k] /\ Sorted(v)[k] <= hi
<1>1. Sorted(v)[k] \in Range(v) /\ Sorted(v)[k] \in Int
  BY SortedPlace
<1>2. PICK n \in 1 .. Len(v) : Sorted(v)[k] = v[n]
  BY <1>1 DEF Range
<1>. QED
  BY <1>1, <1>2

(* The places of the median.                                               *)
LEMMA Middle ==
  ASSUME NEW n \in Nat \ {0}
  PROVE  /\ n \div 2 \in Nat
         /\ n % 2 = 0 => n \div 2 \in 1 .. n /\ n \div 2 + 1 \in 1 .. n
         /\ n % 2 # 0 => n \div 2 + 1 \in 1 .. n
OBVIOUS

(* and the median lies there, be it one value or halfway between two.      *)
LEMMA MedianWithin ==
  ASSUME NEW v \in Seq(Int), v # <<>>, NEW lo \in Int, NEW hi \in Int,
         \A n \in 1 .. Len(v) : lo <= v[n] /\ v[n] <= hi
  PROVE  GetMedian(v) \in Int /\ lo <= GetMedian(v) /\ GetMedian(v) <= hi
<1>. DEFINE n == Len(v)
            a == Sorted(v)[n \div 2]
            b == Sorted(v)[n \div 2 + 1]
<1>1. n \in Nat \ {0}
  OBVIOUS
<1>2. CASE n % 2 = 0
  <2>1. n \div 2 \in 1 .. n /\ n \div 2 + 1 \in 1 .. n
    BY <1>1, <1>2, Middle
  <2>2. a \in Int /\ b \in Int /\ lo <= a /\ a <= hi /\ lo <= b /\ b <= hi
    BY <2>1, SortedWithin, Zenon
  <2>3. GetMedian(v) = (a + b) \div 2
    BY <1>2 DEF GetMedian
  <2>. HIDE DEF a, b
  <2>4. a + b \in Int /\ 2 * lo <= a + b /\ a + b <= 2 * hi
    BY <2>2
  <2>5. /\ (a + b) \div 2 \in Int
        /\ lo <= (a + b) \div 2 /\ (a + b) \div 2 <= hi
    BY <2>2, <2>4
  <2>. QED
    BY <2>3, <2>5
<1>3. CASE n % 2 # 0
  <2>1. n \div 2 + 1 \in 1 .. n
    BY <1>1, <1>3, Middle
  <2>2. b \in Int /\ lo <= b /\ b <= hi
    BY <2>1, SortedWithin, Zenon
  <2>3. GetMedian(v) = b
    BY <1>3 DEF GetMedian
  <2>. QED
    BY <2>2, <2>3
<1>. QED
  BY <1>2, <1>3

(* All statistics lie between bounds of the values.                        *)
LEMMA StatisticsWithin ==
  ASSUME NEW v \in Seq(Int), v # <<>>, NEW lo \in Int, NEW hi \in Int,
         \A n \in 1 .. Len(v) : lo <= v[n] /\ v[n] <= hi
  PROVE  \A n \in 1 .. 4 : /\ GetStatistics(v)[n] \in Int
                           /\ lo <= GetStatistics(v)[n] /\ GetStatistics(v)[n] <= hi
<1>1. /\ GetAverage(v) \in Int /\ lo <= GetAverage(v) /\ GetAverage(v) <= hi
      /\ GetMedian(v) \in Int /\ lo <= GetMedian(v) /\ GetMedian(v) <= hi
  BY AverageIsBounded, MedianWithin, Zenon
<1>2. 1 \in 1 .. Len(v) /\ Len(v) \in 1 .. Len(v)
  OBVIOUS
<1>3. /\ Sorted(v)[1] \in Int /\ lo <= Sorted(v)[1] /\ Sorted(v)[1] <= hi
      /\ Sorted(v)[Len(v)] \in Int /\ lo <= Sorted(v)[Len(v)] /\ Sorted(v)[Len(v)] <= hi
  BY <1>2, SortedWithin, Zenon
<1>4. GetStatistics(v) =
        <<GetAverage(v), GetMedian(v), Sorted(v)[1], Sorted(v)[Len(v)]>>
  BY DEF GetStatistics
<1>. QED
  BY <1>1, <1>3, <1>4

-----------------------------------------------------------------------------
(* The moments at which refreshes of the ranks of a leg begin.             *)
Moments(leg) == {u \in Int : Begins(u, leg)}

IsLoop(legs) ==
  /\ \/ Len(legs) = 1
     \/ Len(legs) = 2 /\ legs[2].time \in Nat \ {0}
  /\ legs[1].time \in Nat \ {0}

Starts(at, histogram, n, legs) ==
  /\ at \in [1 .. n + 1 -> Nat] /\ at[1] = 0
  /\ DOMAIN histogram = 1 .. n
  /\ \A i \in 1 .. n : /\ histogram[i] = Row(at[i] + FlushTime, legs)
                       /\ at[i + 1] = Total(histogram[i])

(* What is left of a refresh that began at t, and the longest that a leg   *)
(* of time d waits.                                                        *)
Left(at, t) == IF t < at THEN t + RefreshTime - at ELSE RefreshTime

InReach(at, M, d) == {t \in M : at - RefreshTime < t /\ t < at + d}

LongestWait(at, M, d, wait) ==
  /\ wait \in 0 .. RefreshTime
  /\ \A t \in InReach(at, M, d) : Left(at, t) <= wait
  /\ wait > 0 => \E t \in InReach(at, M, d) : wait = Left(at, t)

(* The greatest of some numbers up to N.                                   *)
LEMMA GreatestUpTo ==
  ASSUME NEW N \in Nat, NEW s \in SUBSET (0 .. N), s # {}
  PROVE  Max(s) \in s /\ \A y \in s : y <= Max(s)
<1>. DEFINE T == {N - y : y \in s}
<1>1. T \in SUBSET Nat /\ T # {}
  <2>1. \A y \in s : y \in 0 .. N /\ N - y \in Nat
    OBVIOUS
  <2>. QED
    BY <2>1
<1>2. PICK t \in T : \A y \in T : t <= y
  <2>. HIDE DEF T
  <2>. QED
    BY <1>1, LeastNumber
<1>3. PICK x \in s : t = N - x
  BY <1>2
<1>4. \A y \in s : x >= y
  <2>1. x \in 0 .. N /\ \A y \in s : y \in 0 .. N /\ N - x <= N - y
    BY <1>2, <1>3
  <2>. QED
    BY <2>1
<1>5. Max(s) \in s /\ \A y \in s : Max(s) >= y
  <2>1. \E z \in s : \A y \in s : z >= y
    BY <1>4
  <2>. QED
    BY <2>1, Zenon DEF Max
<1>6. \A y \in s : y \in Int
  OBVIOUS
<1>. QED
  BY <1>5, <1>6

(* A leg takes its time, and waits for the refreshes that it meets.        *)
LEMMA LegTakes ==
  ASSUME NEW at \in Nat, NEW leg, leg.time \in Nat \ {0}
  PROVE  /\ \E wait : /\ LongestWait(at, Moments(leg), leg.time, wait)
                      /\ LegTime(at, leg) = leg.time + wait
         /\ LegTime(at, leg) \in Nat \ {0}
<1>. DEFINE M == Moments(leg)
            d == leg.time
            R == RefreshTime
            S == {0} \cup Waits(at, leg)
            wait == Max(S)
<1>1. R \in Nat
  BY MeasurementAssumption
<1>2. \A t : t \in InReach(at, M, d)
               <=> t \in at - R + 1 .. at + d - 1 /\ Begins(t, leg)
  BY <1>1 DEF InReach, Moments
<1>3. Waits(at, leg) = {Left(at, t) : t \in InReach(at, M, d)}
  <2>1. InReach(at, M, d) = {x \in at - R + 1 .. at + d - 1 : Begins(x, leg)}
    <3>. HIDE DEF M, d, R
    <3>. QED
      BY <1>2
  <2>. QED
    BY <2>1 DEF Waits, Left
<1>4. \A t \in InReach(at, M, d) : Left(at, t) \in 0 .. R
  <2>1. \A t \in InReach(at, M, d) : t \in Int /\ at - R < t
    BY DEF InReach, Moments
  <2>. HIDE DEF M, d
  <2>. QED
    BY <1>1, <2>1 DEF Left
<1>. HIDE DEF M, d
<1>5. S \in SUBSET (0 .. R) /\ S # {}
  BY <1>1, <1>3, <1>4
<1>. HIDE DEF S
<1>6. wait \in S /\ \A y \in S : y <= wait
  BY <1>1, <1>5, GreatestUpTo
<1>. HIDE DEF wait
<1>7. LongestWait(at, M, d, wait)
  <2>1. wait \in 0 .. R
    BY <1>5, <1>6
  <2>2. \A t \in InReach(at, M, d) : Left(at, t) <= wait
    BY <1>3, <1>6 DEF S
  <2>3. wait > 0 => \E t \in InReach(at, M, d) : wait = Left(at, t)
    BY <1>3, <1>6 DEF S
  <2>. QED
    BY <2>1, <2>2, <2>3 DEF LongestWait
<1>8. LegTime(at, leg) = d + wait
  BY DEF LegTime, wait, S, d
<1>9. d + wait \in Nat \ {0}
  BY <1>1, <1>5, <1>6 DEF d
<1>. QED
  BY <1>7, <1>8, <1>9 DEF M, d

-----------------------------------------------------------------------------
(* A row is its start and its legs, and adds up to the start of the next.  *)
LEMMA RowTakes ==
  ASSUME NEW at \in Nat, NEW legs, IsLoop(legs)
  PROVE  /\ Total(Row(at, legs)) \in Nat
         /\ Len(legs) = 1 =>
              /\ Row(at, legs) = <<at, LegTime(at, legs[1])>>
              /\ Total(Row(at, legs)) = at + LegTime(at, legs[1])
         /\ Len(legs) = 2 =>
              LET lead == LegTime(at, legs[1])
              IN  /\ Row(at, legs) = <<at, lead, LegTime(at + lead, legs[2])>>
                  /\ Total(Row(at, legs)) = at + lead + LegTime(at + lead, legs[2])
<1>. DEFINE lead == LegTime(at, legs[1])
            tail == LegTime(at + lead, legs[2])
<1>1. lead \in Nat \ {0}
  BY LegTakes DEF IsLoop
<1>2. CASE Len(legs) = 1
  <2>1. Row(at, legs) = <<at, lead>>
    BY <1>2 DEF Row
  <2>2. Total(<<at, lead>>) = at + lead
    <3>. HIDE DEF lead
    <3>. QED
      BY <1>1, TotalOfTwo
  <2>. QED
    BY <1>1, <1>2, <2>1, <2>2
<1>3. CASE Len(legs) = 2
  <2>1. Row(at, legs) = <<at, lead, tail>>
    BY <1>3 DEF Row
  <2>2. tail \in Nat \ {0}
    <3>1. at + lead \in Nat /\ legs[2].time \in Nat \ {0}
      BY <1>1, <1>3 DEF IsLoop
    <3>. HIDE DEF lead
    <3>. QED
      BY <3>1, LegTakes
  <2>3. Total(<<at, lead, tail>>) = at + lead + tail
    <3>. HIDE DEF lead, tail
    <3>. QED
      BY <1>1, <2>2, TotalOfThree
  <2>. HIDE DEF tail
  <2>4. at + lead + tail \in Nat
    BY <1>1, <2>2
  <2>. QED
    BY <1>3, <2>1, <2>3, <2>4 DEF tail
<1>. QED
  BY <1>2, <1>3 DEF IsLoop

(* A loop starts row after row from 0.                                     *)
LEMMA LoopStarts ==
  ASSUME NEW n \in Nat \ {0}, NEW legs, IsLoop(legs)
  PROVE  \E at : Starts(at, Measure(n, legs), n, legs)
<1>. DEFINE Is(r) == r = [i \in 1 .. n |->
                            Row((IF i = 1 THEN 0 ELSE Total(r[i - 1])) + FlushTime, legs)]
            step == [yn \in Nat \X (1 .. n) |-> Total(Row(yn[1] + FlushTime, legs))]
<1>1. \A a \in Nat : Total(Row(a + FlushTime, legs)) \in Nat
  <2>1. \A a \in Nat : Total(Row(a, legs)) \in Nat
    BY RowTakes
  <2>2. \A a \in Nat : a + FlushTime \in Nat
    BY MeasurementAssumption
  <2>. QED
    BY <2>1, <2>2
<1>2. PICK f \in [0 .. n -> Nat] : Follows(f, n, 0, step)
  <2>1. \A y \in Nat, i \in 1 .. n : step[<<y, i>>] \in Nat
    BY <1>1
  <2>2. 0 \in Nat /\ n \in Nat
    OBVIOUS
  <2>. HIDE DEF step
  <2>. QED
    BY <2>1, <2>2, RecursionExists, Zenon
<1>3. f[0] = 0 /\ \A i \in 1 .. n : f[i] = Total(Row(f[i - 1] + FlushTime, legs))
  <2>1. \A i \in 1 .. n : f[i] = step[<<f[i - 1], i>>] /\ f[i - 1] \in Nat
    <3>1. \A i \in 1 .. n : i - 1 \in 0 .. n
      OBVIOUS
    <3>2. \A i \in 1 .. n : f[i - 1] \in Nat
      BY <1>2, <3>1
    <3>. HIDE DEF step
    <3>. QED
      BY <1>2, <3>2 DEF Follows
  <2>2. \A y \in Nat, i \in 1 .. n : step[<<y, i>>] = Total(Row(y + FlushTime, legs))
    OBVIOUS
  <2>3. f[0] = 0
    BY <1>2 DEF Follows
  <2>. HIDE DEF step
  <2>4. \A i \in 1 .. n : f[i] = Total(Row(f[i - 1] + FlushTime, legs))
    BY <2>1, <2>2, Zenon
  <2>. QED
    BY <2>3, <2>4
<1>. DEFINE r == [i \in 1 .. n |-> Row(f[i - 1] + FlushTime, legs)]
<1>4. Is(r)
  <2>1. \A i \in 1 .. n :
          Row(f[i - 1] + FlushTime, legs)
            = Row((IF i = 1 THEN 0 ELSE Total(r[i - 1])) + FlushTime, legs)
    <3>. TAKE i \in 1 .. n
    <3>1. CASE i = 1
      <4>1. i - 1 = 0
        BY <3>1
      <4>. QED
        BY <1>3, <3>1, <4>1
    <3>2. CASE i # 1
      <4>1. i - 1 \in 1 .. n
        BY <3>2
      <4>2. r[i - 1] = Row(f[(i - 1) - 1] + FlushTime, legs)
        BY <4>1
      <4>. HIDE DEF r
      <4>3. f[i - 1] = Total(r[i - 1])
        BY <1>3, <4>1, <4>2
      <4>. QED
        BY <3>2, <4>3
    <3>. QED
      BY <3>1, <3>2
  <2>. QED
    BY <2>1, Zenon
<1>. DEFINE h == CHOOSE x : Is(x)
<1>5. Is(h)
  <2>. HIDE DEF Is
  <2>. QED
    BY <1>4
<1>6. Measure(n, legs) = h
  BY Zenon DEF Measure
<1>. HIDE DEF h
<1>. DEFINE at == [i \in 1 .. n + 1 |-> IF i = 1 THEN 0 ELSE Total(h[i - 1])]
<1>7. /\ at[1] = 0 /\ DOMAIN h = 1 .. n
      /\ \A i \in 1 .. n : h[i] = Row(at[i] + FlushTime, legs) /\ at[i + 1] = Total(h[i])
  <2>1. DOMAIN h = 1 .. n
    BY <1>5
  <2>2. at[1] = 0
    OBVIOUS
  <2>3. ASSUME NEW i \in 1 .. n
        PROVE  h[i] = Row(at[i] + FlushTime, legs) /\ at[i + 1] = Total(h[i])
    <3>1. i \in 1 .. n + 1 /\ i + 1 \in 1 .. n + 1 /\ i + 1 # 1 /\ (i + 1) - 1 = i
      OBVIOUS
    <3>2. h[i] = Row((IF i = 1 THEN 0 ELSE Total(h[i - 1])) + FlushTime, legs)
      BY <1>5
    <3>3. at[i] = IF i = 1 THEN 0 ELSE Total(h[i - 1])
      BY <3>1
    <3>4. at[i + 1] = Total(h[i])
      BY <3>1
    <3>. QED
      BY <3>2, <3>3, <3>4
  <2>. QED
    BY <2>1, <2>2, <2>3, Zenon
<1>8. at \in [1 .. n + 1 -> Nat]
  <2>. DEFINE S == {i \in 0 .. n : at[i + 1] \in Nat}
  <2>1. 0 \in S
    BY <1>7
  <2>2. \A i \in 0 .. n - 1 : i \in S => i + 1 \in S
    <3>. TAKE i \in 0 .. n - 1
    <3>. HAVE i \in S
    <3>. DEFINE k == i + 1
    <3>1. k \in 1 .. n /\ k \in 0 .. n /\ at[k] \in Nat
      OBVIOUS
    <3>. HIDE DEF k, at
    <3>2. at[k + 1] = Total(Row(at[k] + FlushTime, legs))
      BY <1>7, <3>1, Zenon
    <3>3. k \in S
      BY <1>1, <3>1, <3>2, Zenon
    <3>. QED
      BY <3>3 DEF k
  <2>3. n \in Nat
    OBVIOUS
  <2>4. 0 .. n \subseteq S
    <3>. HIDE DEF S
    <3>. QED
      BY <2>1, <2>2, <2>3, InductionTo, Zenon
  <2>5. \A i \in 1 .. n + 1 : at[i] \in Nat
    <3>. TAKE i \in 1 .. n + 1
    <3>1. i - 1 \in 0 .. n /\ (i - 1) + 1 = i
      OBVIOUS
    <3>2. i - 1 \in S
      BY <2>4, <3>1, Zenon
    <3>. HIDE DEF at
    <3>. QED
      BY <3>1, <3>2
  <2>. QED
    BY <2>5
<1>9. Starts(at, h, n, legs)
  <2>. HIDE DEF at
  <2>. QED
    BY <1>7, <1>8 DEF Starts
<1>. QED
  BY <1>6, <1>9

-----------------------------------------------------------------------------
SpacedBy(M, d) == \A u, v \in M : u < v => u + d <= v

(* No refresh of before is left at b.                                      *)
Clear(M, b) == \A t \in M : t < b => t + RefreshTime <= b

(* A row that begins at b when none is left, and has ended at e.           *)
RowOf(M, b, e, d, wait) ==
  /\ LongestWait(b + FlushTime, M, d, wait)
  /\ e = b + FlushTime + d + wait

(* It waits for the refresh that begins in it, all of it or what is left   *)
(* when the lines are flushed, and for none otherwise.                     *)
LEMMA ClearRow ==
  ASSUME NEW M \in SUBSET Int, NEW d \in Nat \ {0}, FlushTime < RefreshTime,
         SpacedBy(M, FlushTime + d + RefreshTime),
         NEW b \in Nat, NEW e, NEW wait, RowOf(M, b, e, d, wait), Clear(M, b)
  PROVE  /\ e \in Nat /\ Clear(M, e)
         /\ \A u \in M : b <= u /\ u < e =>
              /\ u < b + FlushTime + d
              /\ e <= u + FlushTime + d + RefreshTime
              /\ RefreshTime - FlushTime <= wait
         /\ wait > 0 => \E u \in M : b <= u /\ u < e
<1>. DEFINE F == FlushTime
            R == RefreshTime
            at == b + F
<1>1. F \in Nat /\ R \in Nat
  BY MeasurementAssumption
<1>2. /\ wait \in 0 .. R /\ e = b + F + d + wait
      /\ \A t \in M : at - R < t /\ t < at + d => Left(at, t) <= wait
      /\ wait > 0 => \E t \in M : /\ at - R < t /\ t < at + d
                                  /\ wait = Left(at, t)
  BY DEF RowOf, LongestWait, InReach
<1>. HIDE DEF at
<1>3. e \in Nat /\ at \in Nat /\ at = b + F
  BY <1>1, <1>2 DEF at
<1>4. ASSUME wait > 0
      PROVE  \E t \in M : /\ t \in Int /\ b <= t /\ t < b + F + d
                          /\ (t < at => e = t + R + d)
                          /\ (at <= t => e = b + F + d + R)
  <2>1. PICK t \in M : at - R < t /\ t < at + d /\ wait = Left(at, t)
    BY <1>2, <1>4
  <2>2. t \in Int /\ (t < b => t + R <= b)
    BY DEF Clear
  <2>3. b <= t /\ t < b + F + d
    BY <1>1, <1>3, <2>1, <2>2
  <2>4. (t < at => wait = t + R - at) /\ (at <= t => wait = R)
    BY <1>3, <2>1, <2>2 DEF Left
  <2>5. (t < at => e = t + R + d) /\ (at <= t => e = b + F + d + R)
    BY <1>1, <1>2, <1>3, <2>2, <2>4
  <2>. QED
    BY <2>2, <2>3, <2>5
<1>5. \A t, u \in M : t < u => t \in Int /\ u \in Int /\ t + F + d + R <= u
  <2>1. \A t, u \in M : t \in Int /\ u \in Int /\ (t < u => t + (F + d + R) <= u)
    BY DEF SpacedBy
  <2>. QED
    BY <1>1, <2>1
<1>6. ASSUME NEW u \in M, b <= u, u < e
      PROVE  u < b + F + d /\ e <= u + F + d + R /\ R - F <= wait
  <2>1. u \in Int
    OBVIOUS
  <2>2. wait > 0
    <3>1. CASE u < b + F + d
      <4>1. at - R < u /\ u < at + d
        BY <1>1, <1>3, <1>6, <2>1, <3>1
      <4>2. Left(at, u) <= wait
        BY <1>2, <4>1
      <4>3. Left(at, u) > 0
        BY <1>1, <1>3, <2>1, <4>1 DEF Left
      <4>4. Left(at, u) \in Int
        BY <1>1, <1>3, <2>1 DEF Left
      <4>. QED
        BY <1>1, <1>2, <4>2, <4>3, <4>4
    <3>2. CASE ~(u < b + F + d)
      BY <1>1, <1>2, <1>6, <2>1, <3>2
    <3>. QED
      BY <3>1, <3>2
  <2>3. PICK t \in M : /\ t \in Int /\ b <= t /\ t < b + F + d
                       /\ (t < at => e = t + R + d)
                       /\ (at <= t => e = b + F + d + R)
    BY <1>4, <2>2
  <2>4. ~(t < u)
    <3>1. t < u => t + F + d + R <= u
      BY <1>5
    <3>. QED
      BY <1>1, <1>3, <1>6, <2>1, <2>3, <3>1
  <2>5. ~(u < t)
    <3>1. u < t => u + F + d + R <= t
      BY <1>5
    <3>. QED
      BY <1>1, <1>3, <1>6, <2>1, <2>3, <3>1
  <2>6. u = t
    BY <2>1, <2>3, <2>4, <2>5
  <2>. QED
    BY <1>1, <1>2, <1>3, <2>3, <2>6
<1>7. Clear(M, e)
  <2>. SUFFICES ASSUME NEW t \in M, t < e PROVE t + R <= e
    BY DEF Clear
  <2>1. t \in Int /\ (t < b => t + R <= b)
    BY DEF Clear
  <2>2. CASE t < b
    BY <1>1, <1>2, <1>3, <2>1, <2>2
  <2>3. CASE ~(t < b)
    <3>1. b <= t /\ t < b + F + d
      BY <1>3, <1>6, <2>1, <2>3
    <3>2. at - R < t /\ t < at + d
      BY <1>1, <1>3, <2>1, <3>1
    <3>3. Left(at, t) <= wait
      BY <1>2, <3>2
    <3>4. CASE t < at
      <4>1. t + R - at <= wait
        BY <3>3, <3>4 DEF Left
      <4>. QED
        BY <1>1, <1>2, <1>3, <2>1, <4>1
    <3>5. CASE ~(t < at)
      <4>1. R <= wait
        BY <3>3, <3>5 DEF Left
      <4>. QED
        BY <1>1, <1>2, <1>3, <2>1, <3>1, <4>1
    <3>. QED
      BY <3>4, <3>5
  <2>. QED
    BY <2>2, <2>3
<1>8. ASSUME wait > 0 PROVE \E u \in M : b <= u /\ u < e
  <2>1. PICK t \in M : t \in Int /\ b <= t /\ t < b + F + d
    BY <1>4, <1>8
  <2>2. t < e
    BY <1>1, <1>2, <2>1
  <2>. QED
    BY <2>1, <2>2
<1>. QED
  BY <1>3, <1>6, <1>7, <1>8

(* The first row may also wait for a refresh that began before the loop.   *)
LEMMA FirstRow ==
  ASSUME NEW M \in SUBSET Int, NEW d \in Nat \ {0}, FlushTime < RefreshTime,
         SpacedBy(M, FlushTime + d + RefreshTime),
         NEW e, NEW wait, RowOf(M, 0, e, d, wait),
         NEW t \in M, t < 0, 0 < t + RefreshTime
  PROVE  /\ e \in Nat /\ Clear(M, e)
         /\ e <= t + FlushTime + d + RefreshTime
         /\ \A u \in M : -RefreshTime <= u /\ u < e => u = t
<1>. DEFINE F == FlushTime
            R == RefreshTime
<1>1. F \in Nat /\ R \in Nat /\ t \in Int
  BY MeasurementAssumption
<1>2. 0 + F = F
  BY <1>1
<1>3. /\ wait \in 0 .. R /\ e = F + d + wait
      /\ \A u \in M : F - R < u /\ u < F + d => Left(F, u) <= wait
      /\ wait > 0 => \E u \in M : F - R < u /\ u < F + d /\ wait = Left(F, u)
  BY <1>1, <1>2 DEF RowOf, LongestWait, InReach
<1>4. \A x, u \in M : x < u => x \in Int /\ u \in Int /\ x + F + d + R <= u
  <2>1. \A x, u \in M : x \in Int /\ u \in Int /\ (x < u => x + (F + d + R) <= u)
    BY DEF SpacedBy
  <2>. QED
    BY <1>1, <2>1
<1>5. e \in Nat
  BY <1>1, <1>3
<1>6. ASSUME NEW u \in M, -R <= u, u < F + d PROVE u = t
  <2>1. u \in Int
    OBVIOUS
  <2>2. ~(t < u)
    BY <1>1, <1>4, <1>6, <2>1
  <2>3. ~(u < t)
    BY <1>1, <1>4, <1>6, <2>1
  <2>. QED
    BY <1>1, <2>1, <2>2, <2>3
<1>7. Left(F, t) = t + R - F
  BY <1>1 DEF Left
<1>8. wait > 0 => wait = t + R - F
  <2>. SUFFICES ASSUME wait > 0 PROVE wait = t + R - F
    OBVIOUS
  <2>1. PICK u \in M : F - R < u /\ u < F + d /\ wait = Left(F, u)
    BY <1>3
  <2>2. -R <= u
    BY <1>1, <2>1
  <2>3. u = t
    BY <1>6, <2>1, <2>2
  <2>. QED
    BY <1>7, <2>1, <2>3
<1>9. F - R < t => t + R - F <= wait
  BY <1>1, <1>3, <1>7
<1>10. e <= t + F + d + R
  BY <1>1, <1>3, <1>8
<1>11. \A u \in M : -R <= u /\ u < e => u = t
  <2>. SUFFICES ASSUME NEW u \in M, -R <= u, u < e PROVE u = t
    OBVIOUS
  <2>1. u \in Int
    OBVIOUS
  <2>2. ~(t < u)
    BY <1>1, <1>4, <1>5, <1>10, <2>1
  <2>3. ~(u < t)
    BY <1>1, <1>4, <2>1
  <2>. QED
    BY <1>1, <2>1, <2>2, <2>3
<1>12. t + R <= e
  <2>1. CASE F - R < t
    BY <1>1, <1>3, <1>9, <2>1
  <2>2. CASE ~(F - R < t)
    BY <1>1, <1>3, <2>2
  <2>. QED
    BY <2>1, <2>2
<1>13. Clear(M, e)
  <2>. SUFFICES ASSUME NEW u \in M, u < e PROVE u + R <= e
    BY DEF Clear
  <2>1. u \in Int
    OBVIOUS
  <2>2. CASE -R <= u
    BY <1>11, <1>12, <2>2
  <2>3. CASE ~(-R <= u)
    BY <1>1, <1>5, <2>1, <2>3
  <2>. QED
    BY <2>2, <2>3
<1>. QED
  BY <1>5, <1>10, <1>11, <1>13

-----------------------------------------------------------------------------
(* What a loop of single legs sees of the moments of refreshes, M.  Its    *)
(* rows take w without a refresh, flushes included.  A row meets the       *)
(* refreshes that begin in it; the first one reaches back for one that was *)
(* going on when the loop began, if it stands out.                         *)
BeginsIn(M, a, e) == \E u \in M : a <= u /\ u < e

Meeting(at, M, i) == BeginsIn(M, at[i], at[i + 1])

Start(at, i) == IF i = 1 THEN 0 ELSE at[i]

Walks(at, M, w, n) ==
  /\ at \in [1 .. n + 1 -> Int] /\ at[1] \in -RefreshTime .. 0
  /\ \A i \in 1 .. n :
       /\ at[i] + w <= at[i + 1]
       /\ 1 < i /\ ~Meeting(at, M, i) => at[i + 1] = at[i] + w
       /\ \A u \in M : at[i] <= u /\ u < at[i + 1] =>
            /\ u < Start(at, i) + w
            /\ at[i + 1] <= u + w + RefreshTime

Recorded(h, at, M, d, n, c) ==
  /\ Walks(at, M, FlushTime + d, n)
  /\ DOMAIN h = 1 .. n
  /\ \A i \in 1 .. n : /\ h[i][1] = Start(at, i) + FlushTime
                       /\ h[i][2] \in d .. d + RefreshTime
                       /\ h[i][2] > c <=> Meeting(at, M, i)

(* What is recorded of a row that begins at b and is counted from a on.    *)
RowIs(M, a, b, e, d, x, c) ==
  LET w == FlushTime + d
  IN  /\ a + w <= e
      /\ \A u \in M : a <= u /\ u < e => u < b + w /\ e <= u + w + RefreshTime
      /\ x \in d .. d + RefreshTime
      /\ x > c <=> BeginsIn(M, a, e)

(* By the two lemmas on rows, with a bound that a wait of the refresh      *)
(* without the flushes exceeds.                                            *)
LEMMA ClearRowIs ==
  ASSUME NEW M \in SUBSET Int, NEW d \in Nat \ {0}, FlushTime < RefreshTime,
         SpacedBy(M, FlushTime + d + RefreshTime),
         NEW b \in Nat, NEW e, NEW x \in Int, RowOf(M, b, e, d, x - d), Clear(M, b),
         NEW c \in Nat, d <= c, c < d + RefreshTime - FlushTime
  PROVE  /\ RowIs(M, b, b, e, d, x, c)
         /\ e \in Nat /\ Clear(M, e)
         /\ ~BeginsIn(M, b, e) => e = b + (FlushTime + d)
<1>. DEFINE wait == x - d
            F == FlushTime
            R == RefreshTime
            meets == BeginsIn(M, b, e)
<1>1. F \in Nat /\ R \in Nat
  BY MeasurementAssumption
<1>2. wait \in 0 .. R /\ e = b + F + d + wait
  BY DEF RowOf, LongestWait
<1>3. RowOf(M, b, e, d, wait)
  OBVIOUS
<1>4. x = d + wait
  BY <1>2
<1>. HIDE DEF wait
<1>5. /\ e \in Nat /\ Clear(M, e)
      /\ \A u \in M : b <= u /\ u < e =>
           /\ u < b + F + d /\ e <= u + F + d + R /\ R - F <= wait
      /\ wait > 0 => meets
  BY <1>3, ClearRow DEF BeginsIn
<1>6. x > c <=> meets
  <2>1. meets => R - F <= wait
    BY <1>5 DEF BeginsIn
  <2>2. R - F <= wait => x > c
    BY <1>1, <1>2, <1>4
  <2>3. x > c => wait > 0
    BY <1>1, <1>2, <1>4
  <2>. QED
    BY <1>5, <2>1, <2>2, <2>3
<1>7. ~meets => e = b + (F + d)
  BY <1>1, <1>2, <1>5
<1>8. \A u \in M : b <= u /\ u < e => u < b + (F + d) /\ e <= u + (F + d) + R
  <2>. TAKE u \in M
  <2>1. u \in Int
    OBVIOUS
  <2>. QED
    BY <1>1, <1>5, <2>1
<1>9. b + (F + d) <= e /\ x \in d .. d + R
  BY <1>1, <1>2, <1>4
<1>. QED
  BY <1>5, <1>6, <1>7, <1>8, <1>9 DEF RowIs

(* The first row, if a refresh is going on when the loop begins: it counts *)
(* from before that refresh if it shows the rest of it, and from 0 if not. *)
LEMMA FirstRowIs ==
  ASSUME NEW M \in SUBSET Int, NEW d \in Nat \ {0}, FlushTime < RefreshTime,
         SpacedBy(M, FlushTime + d + RefreshTime),
         NEW e, NEW x \in Int, RowOf(M, 0, e, d, x - d), ~Clear(M, 0),
         NEW c \in Nat, d <= c
  PROVE  RowIs(M, IF x > c THEN -RefreshTime ELSE 0, 0, e, d, x, c) /\ Clear(M, e)
<1>. DEFINE wait == x - d
            F == FlushTime
            R == RefreshTime
            a == IF x > c THEN -R ELSE 0
<1>1. F \in Nat /\ R \in Nat
  BY MeasurementAssumption
<1>2. wait \in 0 .. R /\ e = 0 + F + d + wait
  BY DEF RowOf, LongestWait
<1>3. RowOf(M, 0, e, d, wait)
  OBVIOUS
<1>4. x = d + wait
  BY <1>2
<1>. HIDE DEF wait
<1>5. PICK t \in M : t < 0 /\ 0 < t + R
  <2>1. PICK t \in M : t < 0 /\ ~(t + R <= 0)
    BY DEF Clear
  <2>2. t \in Int
    OBVIOUS
  <2>. QED
    BY <1>1, <2>1, <2>2
<1>6. /\ e \in Nat /\ Clear(M, e) /\ e <= t + F + d + R
      /\ \A u \in M : -R <= u /\ u < e => u = t
  BY <1>3, <1>5, FirstRow, Zenon
<1>7. t \in Int /\ -R <= t /\ t < e
  BY <1>1, <1>5, <1>6
<1>8. a \in -R .. 0
  BY <1>1
<1>9. \A u \in M : a <= u /\ u < e => u = t
  <2>. TAKE u \in M
  <2>1. u \in Int
    OBVIOUS
  <2>2. a <= u => -R <= u
    BY <1>1, <1>8, <2>1
  <2>. QED
    BY <1>6, <2>2
<1>10. x > c <=> BeginsIn(M, a, e)
  <2>1. CASE x > c
    <3>1. a = -R
      BY <2>1
    <3>. HIDE DEF a
    <3>2. a <= t /\ t < e
      BY <1>7, <3>1
    <3>. QED
      BY <2>1, <3>2 DEF BeginsIn
  <2>2. CASE ~(x > c)
    <3>1. a = 0
      BY <2>2
    <3>. HIDE DEF a
    <3>2. ~(a <= t)
      BY <1>5, <1>7, <3>1
    <3>. QED
      BY <1>9, <2>2, <3>2 DEF BeginsIn
  <2>. QED
    BY <2>1, <2>2
<1>. HIDE DEF a
<1>11. a + (F + d) <= e /\ x \in d .. d + R
  BY <1>1, <1>2, <1>4, <1>8
<1>12. \A u \in M : a <= u /\ u < e => u < 0 + (F + d) /\ e <= u + (F + d) + R
  <2>. TAKE u \in M
  <2>. HAVE a <= u /\ u < e
  <2>1. u = t
    BY <1>9
  <2>. QED
    BY <1>1, <1>5, <1>6, <1>7, <2>1
<1>13. RowIs(M, a, 0, e, d, x, c)
  BY <1>10, <1>11, <1>12 DEF RowIs
<1>. QED
  BY <1>6, <1>13 DEF a

(* So a loop of one leg is recorded.                                       *)
LEMMA LegRecorded ==
  ASSUME NEW n \in Nat \ {0}, NEW leg, leg.time \in Nat \ {0},
         FlushTime < RefreshTime,
         SpacedBy(Moments(leg), FlushTime + leg.time + RefreshTime),
         NEW c \in Nat, leg.time <= c, c < leg.time + RefreshTime - FlushTime
  PROVE  \E at : Recorded(Measure(n, <<leg>>), at, Moments(leg), leg.time, n, c)
<1>. DEFINE legs == <<leg>>
            h == Measure(n, legs)
            M == Moments(leg)
            d == leg.time
            F == FlushTime
            R == RefreshTime
<1>1. Len(legs) = 1 /\ legs[1] = leg
  OBVIOUS
<1>2. IsLoop(legs)
  BY <1>1 DEF IsLoop
<1>. HIDE DEF legs
<1>3. PICK b : Starts(b, h, n, legs)
  BY <1>2, LoopStarts
<1>. HIDE DEF h
<1>4. /\ b \in [1 .. n + 1 -> Nat] /\ b[1] = 0 /\ DOMAIN h = 1 .. n
      /\ F \in Nat /\ R \in Nat /\ M \in SUBSET Int
  BY <1>3, MeasurementAssumption DEF Starts, Moments
<1>5. ASSUME NEW i \in 1 .. n
      PROVE  /\ h[i][1] = b[i] + F /\ h[i][2] \in Int
             /\ RowOf(M, b[i], b[i + 1], d, h[i][2] - d)
  <2>1. h[i] = Row(b[i] + F, legs) /\ b[i + 1] = Total(h[i])
    BY <1>3 DEF Starts
  <2>2. i \in 1 .. n + 1
    OBVIOUS
  <2>3. b[i] \in Nat /\ b[i] + F \in Nat
    BY <1>4, <2>2
  <2>4. /\ Row(b[i] + F, legs) = <<b[i] + F, LegTime(b[i] + F, leg)>>
        /\ Total(Row(b[i] + F, legs)) = b[i] + F + LegTime(b[i] + F, leg)
    BY <1>1, <1>2, <2>3, RowTakes
  <2>5. PICK wait : /\ LongestWait(b[i] + F, M, d, wait)
                    /\ LegTime(b[i] + F, leg) = d + wait
    BY <2>3, LegTakes
  <2>6. wait \in Nat
    BY <1>4, <2>5 DEF LongestWait
  <2>. HIDE DEF d, M
  <2>7. h[i][1] = b[i] + F /\ h[i][2] = d + wait
    BY <2>1, <2>4, <2>5
  <2>8. d \in Nat
    BY DEF d
  <2>9. h[i][2] - d = wait /\ h[i][2] \in Int
    BY <2>6, <2>7, <2>8
  <2>10. b[i + 1] = b[i] + F + d + wait
    <3>1. b[i + 1] = b[i] + F + (d + wait)
      BY <2>1, <2>4, <2>5
    <3>. QED
      BY <1>4, <2>3, <2>6, <2>8, <3>1
  <2>11. RowOf(M, b[i], b[i + 1], d, wait)
    BY <2>5, <2>10 DEF RowOf
  <2>. QED
    BY <2>7, <2>9, <2>11
<1>. DEFINE a == IF ~Clear(M, 0) /\ h[1][2] > c THEN -R ELSE 0
            at == [i \in 1 .. n + 1 |-> IF i = 1 THEN a ELSE b[i]]
<1>6. /\ at \in [1 .. n + 1 -> Int] /\ at[1] = a /\ a \in -R .. 0
      /\ \A i \in 2 .. n + 1 : at[i] = b[i]
  <2>1. a \in -R .. 0
    BY <1>4
  <2>. HIDE DEF a
  <2>2. a \in Int
    BY <1>4, <2>1
  <2>. QED
    BY <1>4, <2>1, <2>2
<1>. HIDE DEF M, d
<1>7. d \in Nat \ {0} /\ F < R /\ SpacedBy(M, F + d + R) /\ d <= c /\ c < d + R - F
  BY DEF d, M
<1>8. RowIs(M, a, b[1], b[1 + 1], d, h[1][2], c) /\ Clear(M, b[1 + 1])
  <2>1. RowOf(M, b[1], b[1 + 1], d, h[1][2] - d) /\ h[1][2] \in Int
    BY <1>5
  <2>2. RowOf(M, 0, b[1 + 1], d, h[1][2] - d)
    BY <1>4, <2>1
  <2>. DEFINE e == b[1 + 1]
              x == h[1][2]
  <2>. HIDE DEF e, x, h
  <2>3. RowIs(M, a, 0, e, d, x, c) /\ Clear(M, e)
    <3>1. x \in Int /\ RowOf(M, 0, e, d, x - d)
      BY <2>1, <2>2 DEF e, x
    <3>2. CASE Clear(M, 0)
      <4>1. RowIs(M, 0, 0, e, d, x, c) /\ Clear(M, e)
        BY <1>4, <1>7, <3>1, <3>2, ClearRowIs
      <4>2. a = 0
        BY <3>2
      <4>. QED
        BY <4>1, <4>2
    <3>3. CASE ~Clear(M, 0)
      <4>1. RowIs(M, IF x > c THEN -R ELSE 0, 0, e, d, x, c) /\ Clear(M, e)
        BY <1>4, <1>7, <3>1, <3>3, FirstRowIs
      <4>2. a = IF x > c THEN -R ELSE 0
        BY <3>3 DEF x
      <4>. QED
        BY <4>1, <4>2
    <3>. QED
      BY <3>2, <3>3
  <2>. QED
    BY <1>4, <2>3 DEF e, x
<1>. HIDE DEF a, at
<1>9. \A i \in 1 .. n : Clear(M, b[i + 1])
  <2>. DEFINE S == {k \in 0 .. n : k >= 1 => Clear(M, b[k + 1])}
  <2>1. 0 \in S
    OBVIOUS
  <2>2. \A k \in 0 .. n - 1 : k \in S => k + 1 \in S
    <3>. TAKE k \in 0 .. n - 1
    <3>. HAVE k \in S
    <3>. DEFINE l == k + 1
    <3>1. l \in 1 .. n /\ l \in 0 .. n /\ l \in 1 .. n + 1
      OBVIOUS
    <3>2. Clear(M, b[l + 1])
      <4>1. CASE k = 0
        <5>1. l = 1
          BY <4>1
        <5>. QED
          BY <1>8, <5>1
      <4>2. CASE k # 0
        <5>. DEFINE b0 == b[l]
                    e == b[l + 1]
                    x == h[l][2]
        <5>1. Clear(M, b0)
          BY <4>2
        <5>2. b0 \in Nat
          BY <1>4, <3>1
        <5>3. RowOf(M, b0, e, d, x - d) /\ x \in Int
          BY <1>5, <3>1
        <5>. HIDE DEF b0, e, x
        <5>4. Clear(M, e)
          BY <1>4, <1>7, <5>1, <5>2, <5>3, ClearRowIs
        <5>. QED
          BY <5>4 DEF e
      <4>. QED
        BY <4>1, <4>2
    <3>3. l \in S
      BY <3>1, <3>2
    <3>. QED
      BY <3>3 DEF l
  <2>3. 0 .. n \subseteq S
    <3>. HIDE DEF S
    <3>. QED
      BY <2>1, <2>2, InductionTo
  <2>. QED
    BY <2>3
<1>10. ASSUME NEW i \in 1 .. n
       PROVE  /\ RowIs(M, at[i], Start(at, i), at[i + 1], d, h[i][2], c)
              /\ h[i][1] = Start(at, i) + F
              /\ 1 < i /\ ~Meeting(at, M, i) => at[i + 1] = at[i] + (F + d)
  <2>1. i + 1 \in 2 .. n + 1 /\ i \in 1 .. n + 1
    OBVIOUS
  <2>2. at[i + 1] = b[i + 1] /\ b[i] \in Nat
    BY <1>4, <1>6, <2>1
  <2>3. CASE i = 1
    <3>1. at[i] = a /\ Start(at, i) = 0 /\ b[i] = 0 /\ ~(1 < i)
      BY <1>4, <1>6, <2>3 DEF Start
    <3>2. RowIs(M, a, b[i], b[i + 1], d, h[i][2], c)
      BY <1>8, <2>3
    <3>3. h[i][1] = b[i] + F
      BY <1>5
    <3>. QED
      BY <2>2, <3>1, <3>2, <3>3
  <2>4. CASE i # 1
    <3>1. i \in 2 .. n + 1 /\ i - 1 \in 1 .. n /\ (i - 1) + 1 = i
      BY <2>4
    <3>2. at[i] = b[i] /\ Start(at, i) = b[i]
      BY <1>6, <2>4, <3>1 DEF Start
    <3>3. Clear(M, b[i])
      BY <1>9, <3>1
    <3>4. /\ RowOf(M, b[i], b[i + 1], d, h[i][2] - d) /\ h[i][2] \in Int
          /\ h[i][1] = b[i] + F
      BY <1>5
    <3>. HIDE DEF Start
    <3>5. /\ RowIs(M, b[i], b[i], b[i + 1], d, h[i][2], c)
          /\ ~BeginsIn(M, b[i], b[i + 1]) => b[i + 1] = b[i] + (F + d)
      BY <1>4, <1>7, <2>2, <3>3, <3>4, ClearRowIs
    <3>. QED
      BY <2>2, <3>2, <3>4, <3>5 DEF Meeting
  <2>. QED
    BY <2>3, <2>4
<1>11. Walks(at, M, F + d, n)
  <2>1. \A i \in 1 .. n :
          /\ at[i] + (F + d) <= at[i + 1]
          /\ \A u \in M : at[i] <= u /\ u < at[i + 1] =>
               u < Start(at, i) + (F + d) /\ at[i + 1] <= u + (F + d) + R
    BY <1>10, Zenon DEF RowIs
  <2>. QED
    BY <1>6, <1>10, <2>1, Zenon DEF Walks
<1>12. \A i \in 1 .. n : /\ h[i][1] = Start(at, i) + F /\ h[i][2] \in d .. d + R
                         /\ h[i][2] > c <=> Meeting(at, M, i)
  BY <1>10, Zenon DEF RowIs, Meeting
<1>13. Recorded(h, at, M, d, n, c)
  BY <1>4, <1>11, <1>12, Zenon DEF Recorded
<1>. QED
  BY <1>13 DEF h, legs, M, d

-----------------------------------------------------------------------------
(* Rows follow each other.                                                 *)
LEMMA RowsFollow ==
  ASSUME NEW n \in Nat, NEW M, NEW w \in Nat \ {0},
         NEW at, Walks(at, M, w, n), NEW i \in 1 .. n, NEW j \in i + 1 .. n + 1
  PROVE  at[i + 1] <= at[j] /\ at[i] + w <= at[j]
<1>. DEFINE S == {k \in 0 .. n : k >= i => at[i + 1] <= at[k + 1]}
<1>1. 0 \in S
  OBVIOUS
<1>2. \A k \in 0 .. n - 1 : k \in S => k + 1 \in S
  <2>. TAKE k \in 0 .. n - 1
  <2>. HAVE k \in S
  <2>. DEFINE l == k + 1
  <2>1. l \in 1 .. n /\ l \in 0 .. n /\ l + 1 \in 1 .. n + 1 /\ l \in 1 .. n + 1
    OBVIOUS
  <2>2. at[l] \in Int /\ at[l + 1] \in Int /\ at[l] <= at[l + 1]
    <3>1. at[l] + w <= at[l + 1] /\ at[l] \in Int /\ at[l + 1] \in Int
      BY <2>1, Zenon DEF Walks
    <3>. HIDE DEF l
    <3>. QED
      BY <3>1
  <2>3. i + 1 \in 1 .. n + 1 /\ at[i + 1] \in Int
    BY DEF Walks
  <2>4. l >= i => at[i + 1] <= at[l + 1]
    <3>1. CASE k >= i
      <4>1. at[i + 1] <= at[l]
        BY <3>1
      <4>. HIDE DEF l
      <4>. QED
        BY <2>2, <2>3, <4>1
    <3>2. CASE ~(k >= i)
      <4>1. l >= i => l = i
        BY <3>2
      <4>. HIDE DEF l
      <4>. QED
        BY <2>3, <4>1
    <3>. QED
      BY <3>1, <3>2
  <2>5. l \in S
    BY <2>1, <2>4
  <2>. QED
    BY <2>5 DEF l
<1>3. 0 .. n \subseteq S
  <2>. HIDE DEF S
  <2>. QED
    BY <1>1, <1>2, InductionTo
<1>4. j - 1 \in 0 .. n /\ j - 1 >= i /\ (j - 1) + 1 = j
  OBVIOUS
<1>5. at[i + 1] <= at[j]
  BY <1>3, <1>4
<1>6. at[i] + w <= at[i + 1] /\ at[i] \in Int /\ at[i + 1] \in Int
  <2>1. i + 1 \in 1 .. n + 1 /\ i \in 1 .. n + 1
    OBVIOUS
  <2>. QED
    BY <2>1, Zenon DEF Walks
<1>7. at[j] \in Int
  BY DEF Walks
<1>. QED
  BY <1>5, <1>6, <1>7

(* In a row that meets no refresh none begins, nor in several.             *)
LEMMA QuietRowsTile ==
  ASSUME NEW n \in Nat, NEW M \in SUBSET Int, NEW w \in Nat \ {0},
         NEW at, Walks(at, M, w, n),
         NEW i \in 1 .. n + 1, NEW j \in i .. n + 1,
         \A k \in i .. j - 1 : ~Meeting(at, M, k),
         NEW u \in M, at[i] <= u, u < at[j]
  PROVE  FALSE
<1>. DEFINE S == {k \in 0 .. n : i <= k + 1 /\ k + 1 <= j =>
                                  \A x \in M : ~(at[i] <= x /\ x < at[k + 1])}
<1>0. \A k \in 1 .. n + 1 : at[k] \in Int
  BY DEF Walks
<1>1. 0 \in S
  <2>1. i <= 1 => i = 1
    OBVIOUS
  <2>2. at[1] \in Int /\ 0 + 1 = 1
    BY <1>0
  <2>3. i = 1 => \A x \in M : ~(at[i] <= x /\ x < at[0 + 1])
    BY <2>2
  <2>. QED
    BY <2>1, <2>3
<1>2. \A k \in 0 .. n - 1 : k \in S => k + 1 \in S
  <2>. TAKE k \in 0 .. n - 1
  <2>. HAVE k \in S
  <2>. DEFINE l == k + 1
  <2>1. l \in 1 .. n /\ l \in 0 .. n /\ l + 1 \in 1 .. n + 1 /\ l \in 1 .. n + 1
    OBVIOUS
  <2>2. at[l] \in Int /\ at[l + 1] \in Int /\ at[i] \in Int
    BY <1>0, <2>1
  <2>3. ASSUME i <= l + 1, l + 1 <= j, NEW x \in M, at[i] <= x, x < at[l + 1]
        PROVE  FALSE
    <3>1. CASE i = l + 1
      BY <2>2, <2>3, <3>1
    <3>2. CASE i # l + 1
      <4>1. i <= l /\ l \in i .. j - 1
        BY <2>1, <2>3, <3>2
      <4>2. ~(at[i] <= x /\ x < at[l])
        <5>1. i <= k + 1 /\ k + 1 <= j
          BY <2>3, <4>1
        <5>. QED
          BY <5>1
      <4>3. ~Meeting(at, M, l)
        BY <4>1
      <4>4. ~(at[l] <= x /\ x < at[l + 1])
        BY <4>3 DEF Meeting, BeginsIn
      <4>. HIDE DEF l
      <4>. QED
        BY <2>2, <2>3, <4>2, <4>4
    <3>. QED
      BY <3>1, <3>2
  <2>4. l \in S
    BY <2>1, <2>3
  <2>. QED
    BY <2>4 DEF l
<1>3. 0 .. n \subseteq S
  <2>. HIDE DEF S
  <2>. QED
    BY <1>1, <1>2, InductionTo
<1>4. j - 1 \in 0 .. n /\ (j - 1) + 1 = j
  OBVIOUS
<1>. QED
  BY <1>3, <1>4

(* Two rows that meet a refresh, with none between that does: each meets   *)
(* one, and no refresh comes between those.                                *)
LEMMA NextRefresh ==
  ASSUME NEW n \in Nat, NEW M \in SUBSET Int, NEW w \in Nat \ {0},
         NEW at, Walks(at, M, w, n), SpacedBy(M, w + RefreshTime),
         NEW i \in 1 .. n, NEW j \in i + 1 .. n,
         \A k \in i + 1 .. j - 1 : ~Meeting(at, M, k),
         NEW u \in M, at[i] <= u, u < at[i + 1],
         NEW v \in M, at[j] <= v, v < at[j + 1]
  PROVE  /\ u + w + RefreshTime <= v
         /\ \A x \in M : ~(u < x /\ x < v)
<1>1. i + 1 \in 1 .. n + 1 /\ j \in i + 1 .. n + 1 /\ j \in 1 .. n /\ j # 1
  OBVIOUS
<1>2. at[i + 1] \in Int /\ at[j] \in Int /\ RefreshTime \in Nat
  BY <1>1, MeasurementAssumption DEF Walks
<1>3. at[i + 1] <= at[j]
  BY <1>1, RowsFollow
<1>4. u \in Int /\ v \in Int /\ u < v
  BY <1>2, <1>3
<1>5. at[i + 1] <= u + w + RefreshTime
  BY DEF Walks
<1>6. v < at[j] + w
  <2>1. v < Start(at, j) + w
    BY <1>1 DEF Walks
  <2>. QED
    BY <1>1, <2>1 DEF Start
<1>7. u + w + RefreshTime <= v
  <2>1. u + (w + RefreshTime) <= v
    BY <1>4 DEF SpacedBy
  <2>. QED
    BY <1>2, <1>4, <2>1
<1>8. ASSUME NEW x \in M, u < x, x < v PROVE FALSE
  <2>1. x \in Int /\ u + (w + RefreshTime) <= x /\ x + (w + RefreshTime) <= v
    BY <1>8 DEF SpacedBy
  <2>2. at[i + 1] <= x
    BY <1>2, <1>4, <1>5, <2>1
  <2>3. x < at[j]
    BY <1>2, <1>4, <1>6, <2>1
  <2>. DEFINE l == i + 1
  <2>4. l \in 1 .. n + 1 /\ j \in l .. n + 1
    BY <1>1
  <2>5. \A k \in l .. j - 1 : ~Meeting(at, M, k)
    OBVIOUS
  <2>6. at[l] <= x
    BY <2>2
  <2>. HIDE DEF l
  <2>. QED
    BY <2>3, <2>4, <2>5, <2>6, QuietRowsTile
<1>. QED
  BY <1>7, <1>8

-----------------------------------------------------------------------------
(* The moments of refreshes: one in a period, or two, s apart.             *)
IsMoment(u, p, s, T) == \E a \in Int : u = p + a * T \/ u = p + s + a * T

(* A multiple is one of any number a period away.                          *)
LEMMA MultipleIs ==
  ASSUME NEW d \in Int, NEW T \in Nat \ {0}
  PROVE  d % T = 0 <=> \E a \in Int : d = a * T
<1>1. d % T = 0 => \E a \in Int : d = a * T
  <2>1. d = T * (d \div T) + (d % T) /\ d \div T \in Int
    OBVIOUS
  <2>2. T * (d \div T) = (d \div T) * T
    BY <2>1
  <2>. QED
    BY <2>1, <2>2
<1>2. ASSUME NEW a \in Int, d = a * T PROVE d % T = 0
  BY <1>2
<1>. QED
  BY <1>1, <1>2, Zenon

(* Multiples of the period are not closer than the period.                 *)
LEMMA MultiplesApart ==
  ASSUME NEW a \in Int, NEW b \in Int, NEW T \in Nat \ {0}, a < b
  PROVE  a * T + T <= b * T /\ a * T \in Int /\ b * T \in Int
<1>1. \A x, y \in Int : x <= y => x * T <= y * T
  OBVIOUS
<1>2. (a + 1) * T <= b * T
  BY <1>1
<1>3. (a + 1) * T = a * T + T
  OBVIOUS
<1>. QED
  BY <1>2, <1>3

(* Two such moments differ by s, its complement or a period at least.      *)
LEMMA MomentsApart ==
  ASSUME NEW p \in Int, NEW T \in Nat \ {0}, NEW s \in 1 .. T - 1,
         NEW u \in Int, IsMoment(u, p, s, T), NEW v \in Int, IsMoment(v, p, s, T), u < v
  PROVE  \/ u + s <= v
         \/ u + (T - s) <= v
<1>1. PICK a \in Int : u = p + a * T \/ u = p + s + a * T
  BY DEF IsMoment
<1>2. PICK b \in Int : v = p + b * T \/ v = p + s + b * T
  BY DEF IsMoment
<1>. DEFINE x == a * T
            y == b * T
<1>3. x \in Int /\ y \in Int /\ (a < b => x + T <= y) /\ (b < a => y + T <= x)
      /\ (a = b => x = y)
  BY MultiplesApart
<1>4. a < b \/ b < a \/ a = b
  OBVIOUS
<1>5. (u = p + x \/ u = p + s + x) /\ (v = p + y \/ v = p + s + y)
  BY <1>1, <1>2
<1>. HIDE DEF x, y
<1>. QED
  BY <1>3, <1>4, <1>5

(* The next two moments.                                                   *)
LEMMA MomentsFollow ==
  ASSUME NEW p \in Int, NEW T \in Nat \ {0}, NEW s \in 1 .. T - 1,
         NEW u \in Int, IsMoment(u, p, s, T)
  PROVE  /\ IsMoment(u + T, p, s, T)
         /\ \/ IsMoment(u + s, p, s, T)
            \/ IsMoment(u + (T - s), p, s, T)
<1>1. PICK a \in Int : u = p + a * T \/ u = p + s + a * T
  BY DEF IsMoment
<1>2. (a + 1) * T = a * T + T /\ a + 1 \in Int /\ a * T \in Int
  OBVIOUS
<1>3. /\ u = p + a * T => u + T = p + (a + 1) * T /\ u + s = p + s + a * T
      /\ u = p + s + a * T =>
           u + T = p + s + (a + 1) * T /\ u + (T - s) = p + (a + 1) * T
  BY <1>2
<1>. QED
  BY <1>1, <1>2, <1>3, Zenon DEF IsMoment

-----------------------------------------------------------------------------
(* The rows that stand out come in the order of the histogram.             *)
LEMMA InOrderEnumerates ==
  ASSUME NEW N \in Nat, NEW H \in SUBSET (1 .. N)
  PROVE  /\ IsFiniteSet(H) /\ Cardinality(H) \in Nat
         /\ InOrder(H) \in [1 .. Cardinality(H) -> H]
         /\ \A k \in 1 .. Cardinality(H) - 1 :
              /\ InOrder(H)[k] < InOrder(H)[k + 1]
              /\ \A h \in H : ~(InOrder(H)[k] < h /\ h < InOrder(H)[k + 1])
<1>. DEFINE upto(i) == {j \in H : j <= i}
            m == Cardinality(H)
            rank == [i \in H |-> Cardinality(upto(i))]
<1>1. IsFiniteSet(H) /\ m \in Nat
  <2>1. IsFiniteSet(1 .. N)
    BY FS_Interval
  <2>. QED
    BY <2>1, FS_Subset, FS_CardinalityType, Zenon
<1>2. \A i \in H : /\ IsFiniteSet(upto(i)) /\ Cardinality(upto(i)) \in Nat
                   /\ Cardinality(upto(i)) <= m /\ upto(i) # {}
  <2>. TAKE i \in H
  <2>1. upto(i) \subseteq H /\ i \in upto(i)
    OBVIOUS
  <2>. HIDE DEF upto
  <2>. QED
    BY <1>1, <2>1, FS_Subset, FS_CardinalityType
<1>3. \A i, j \in H : i < j => Cardinality(upto(i)) < Cardinality(upto(j))
  <2>. TAKE i, j \in H
  <2>. HAVE i < j
  <2>1. upto(i) \subseteq upto(j) /\ j \in upto(j) /\ j \notin upto(i)
    <3>1. \A h \in H : h \in Int
      OBVIOUS
    <3>2. \A h \in H : h <= i => h <= j
      BY <3>1
    <3>3. j <= j /\ ~(j <= i)
      BY <3>1
    <3>. QED
      BY <3>2, <3>3, Zenon
  <2>. HIDE DEF upto
  <2>2. upto(i) # upto(j)
    BY <2>1
  <2>3. /\ Cardinality(upto(i)) <= Cardinality(upto(j))
        /\ Cardinality(upto(i)) # Cardinality(upto(j))
    BY <1>2, <2>1, <2>2, FS_Subset
  <2>4. Cardinality(upto(i)) \in Nat /\ Cardinality(upto(j)) \in Nat
    BY <1>2
  <2>. QED
    BY <2>3, <2>4
<1>4. rank \in Injection(H, 1 .. m)
  <2>1. rank \in [H -> 1 .. m]
    <3>1. \A i \in H : Cardinality(upto(i)) \in 1 .. m
      <4>. TAKE i \in H
      <4>. HIDE DEF upto
      <4>1. Cardinality(upto(i)) # 0
        BY <1>2, FS_EmptySet
      <4>. HIDE DEF m
      <4>. QED
        BY <1>1, <1>2, <4>1
    <3>. HIDE DEF upto
    <3>. QED
      BY <3>1
  <2>2. \A i, j \in H : rank[i] = rank[j] => i = j
    <3>. TAKE i, j \in H
    <3>1. i \in Int /\ j \in Int /\ rank[i] = Cardinality(upto(i))
          /\ rank[j] = Cardinality(upto(j))
      OBVIOUS
    <3>. HIDE DEF upto, rank
    <3>2. i < j => rank[i] < rank[j]
      BY <1>3, <3>1
    <3>3. j < i => rank[j] < rank[i]
      BY <1>3, <3>1
    <3>4. rank[i] \in Int /\ rank[j] \in Int
      BY <1>2, <3>1
    <3>. QED
      BY <3>1, <3>2, <3>3, <3>4
  <2>. HIDE DEF rank
  <2>. QED
    BY <2>1, <2>2 DEF Injection, IsInjective
<1>5. rank \in Surjection(H, 1 .. m)
  <2>1. IsFiniteSet(1 .. m) /\ Cardinality(1 .. m) = m
    <3>. HIDE DEF m
    <3>1. m \in Int /\ 1 \in Int
      BY <1>1
    <3>. QED
      BY <1>1, <3>1, FS_Interval
  <2>. HIDE DEF rank
  <2>. QED
    BY <1>4, <2>1, FS_Injection DEF m
<1>. DEFINE q == InOrder(H)
<1>6. \A k \in 1 .. m : q[k] \in H /\ Cardinality(upto(q[k])) = k
  <2>. TAKE k \in 1 .. m
  <2>1. PICK i \in H : rank[i] = k
    <3>. HIDE DEF rank, m
    <3>. QED
      BY <1>5 DEF Surjection
  <2>. DEFINE is(x) == Cardinality({j \in H : j <= x}) = k
              c == CHOOSE x \in H : is(x)
  <2>2. is(i)
    BY <2>1
  <2>3. c \in H /\ is(c)
    <3>. HIDE DEF is
    <3>. QED
      BY <2>2
  <2>4. q[k] = c
    BY DEF InOrder
  <2>. HIDE DEF c
  <2>. QED
    BY <2>3, <2>4
<1>7. q \in [1 .. m -> H]
  <2>1. q = [k \in 1 .. m |-> q[k]]
    BY DEF InOrder
  <2>. HIDE DEF q, m
  <2>. QED
    BY <1>6, <2>1, Zenon
<1>8. ASSUME NEW k \in 1 .. m - 1
      PROVE  /\ q[k] < q[k + 1]
             /\ \A h \in H : ~(q[k] < h /\ h < q[k + 1])
  <2>. DEFINE a == q[k]
              b == q[k + 1]
              card(i) == Cardinality(upto(i))
  <2>1. a \in H /\ b \in H /\ card(a) = k /\ card(b) = k + 1
    <3>1. k \in 1 .. m /\ k + 1 \in 1 .. m
      <4>. HIDE DEF m
      <4>. QED
        BY <1>1
    <3>. HIDE DEF q, upto, m
    <3>. QED
      BY <1>6, <3>1
  <2>2. \A i, j \in H : i < j => card(i) < card(j)
    <3>. HIDE DEF upto
    <3>. QED
      BY <1>3
  <2>3. \A i \in H : card(i) \in Int /\ i \in Int
    <3>. HIDE DEF upto
    <3>1. \A i \in H : card(i) \in Int
      BY <1>2
    <3>. QED
      BY <3>1
  <2>4. k \in Int
    OBVIOUS
  <2>. HIDE DEF a, b, card, upto
  <2>5. a < b
    <3>. SUFFICES ASSUME b <= a PROVE FALSE
      BY <2>1, <2>3
    <3>1. a = b \/ b < a
      BY <2>1, <2>3
    <3>2. b < a => card(b) < card(a)
      BY <2>1, <2>2
    <3>. QED
      BY <2>1, <2>4, <3>1, <3>2
  <2>6. ASSUME NEW h \in H, a < h, h < b PROVE FALSE
    <3>1. card(a) < card(h) /\ card(h) < card(b) /\ card(h) \in Int
      BY <2>1, <2>2, <2>3, <2>6
    <3>. QED
      BY <2>1, <2>4, <3>1
  <2>. QED
    BY <2>5, <2>6 DEF a, b
<1>. HIDE DEF q
<1>. QED
  BY <1>1, <1>7, <1>8 DEF q

(* The rows that show more than the bound, and the intervals between the   *)
(* times at which they start.                                              *)
Standing(h, c) == {i \in DOMAIN h : h[i][c] > REFRESH_CYCLE_LOWER_BOUND}

IntervalsOf(v, H, start) ==
  /\ v \in Seq(Int)
  /\ Len(v) = IF Cardinality(H) = 0 THEN 0 ELSE Cardinality(H) - 1
  /\ \A k \in 1 .. Cardinality(H) - 1 :
       v[k] = start[InOrder(H)[k + 1]] - start[InOrder(H)[k]]

(* What the filter and the differences leave is the intervals between the  *)
(* rows that stand out, in either form of the histogram.                   *)
LEMMA IntervalsAre ==
  ASSUME NEW n \in Nat \ {0}, NEW h, DOMAIN h = 1 .. n, NEW c,
         NEW start \in [1 .. n -> Int],
         \A i \in 1 .. n :
           start[i] = h[i][1] - h[1][1] + (IF c = 3 THEN h[i][2] ELSE 0)
  PROVE  IntervalsOf(Intervals(h, c), Standing(h, c), start)
<1>. DEFINE H == Standing(h, c)
            q == InOrder(H)
            m == Cardinality(H)
            refreshes == [k \in 1 .. m |-> start[q[k]]]
            deltas == [k \in 1 .. Len(refreshes) - 1 |->
                         refreshes[k + 1] - refreshes[k]]
<1>1. H \in SUBSET (1 .. n)
  BY DEF Standing
<1>2. m \in Nat /\ q \in [1 .. m -> 1 .. n]
  <2>. HIDE DEF H
  <2>1. Cardinality(H) \in Nat /\ InOrder(H) \in [1 .. Cardinality(H) -> H]
    BY <1>1, InOrderEnumerates, Zenon
  <2>. QED
    BY <1>1, <2>1, Zenon
<1>3. refreshes \in [1 .. m -> Int]
  <2>. HIDE DEF q, m
  <2>. QED
    BY <1>2
<1>4. FilterRefreshTiming(h, c) = refreshes
  <2>1. FilterRefreshTiming(h, c) =
          [k \in DOMAIN q |->
             h[q[k]][1] - h[1][1] + (IF c = 3 THEN h[q[k]][2] ELSE 0)]
    BY DEF FilterRefreshTiming, Standing
  <2>2. DOMAIN q = 1 .. m
    BY <1>2
  <2>3. \A k \in 1 .. m :
          start[q[k]] = h[q[k]][1] - h[1][1] + (IF c = 3 THEN h[q[k]][2] ELSE 0)
    <3>. HIDE DEF q, m
    <3>. QED
      BY <1>2, Zenon
  <2>. HIDE DEF q, m
  <2>. QED
    BY <2>1, <2>2, <2>3
<1>. HIDE DEF H, q, m
<1>5. refreshes \in Seq(Int) /\ Len(refreshes) = m
  BY <1>2, <1>3
<1>6. Intervals(h, c) = deltas
  BY <1>4 DEF Intervals, ComputeRefreshIntervals
<1>7. \A k \in 1 .. m - 1 : refreshes[k + 1] - refreshes[k] = start[q[k + 1]] - start[q[k]]
                             /\ refreshes[k + 1] - refreshes[k] \in Int
  <2>. TAKE k \in 1 .. m - 1
  <2>1. k \in 1 .. m /\ k + 1 \in 1 .. m
    BY <1>2
  <2>2. refreshes[k] = start[q[k]] /\ refreshes[k + 1] = start[q[k + 1]]
    BY <2>1
  <2>3. refreshes[k] \in Int /\ refreshes[k + 1] \in Int
    BY <1>3, <2>1
  <2>. HIDE DEF refreshes
  <2>. QED
    BY <2>2, <2>3
<1>. HIDE DEF refreshes
<1>8. deltas = [k \in 1 .. m - 1 |-> start[q[k + 1]] - start[q[k]]]
  BY <1>5, <1>7, Zenon
<1>9. deltas \in [1 .. m - 1 -> Int] /\ \A k \in 1 .. m - 1 : deltas[k] = start[q[k + 1]] - start[q[k]]
  BY <1>5, <1>7, Zenon
<1>. HIDE DEF deltas
<1>10. deltas \in Seq(Int) /\ Len(deltas) = IF m = 0 THEN 0 ELSE m - 1
  <2>1. CASE m = 0
    <3>1. 1 .. m - 1 = 1 .. 0
      BY <2>1
    <3>2. deltas \in [1 .. 0 -> Int]
      BY <1>9, <3>1, Zenon
    <3>. QED
      BY <2>1, <3>2
  <2>2. CASE m # 0
    <3>1. m - 1 \in Nat
      BY <1>2, <2>2
    <3>. DEFINE l == m - 1
    <3>2. deltas \in [1 .. l -> Int] /\ l \in Nat
      BY <1>9, <3>1
    <3>. HIDE DEF l
    <3>3. deltas \in Seq(Int) /\ Len(deltas) = l
      BY <3>2
    <3>. QED
      BY <2>2, <3>3 DEF l
  <2>. QED
    BY <2>1, <2>2
<1>. QED
  BY <1>6, <1>9, <1>10 DEF IntervalsOf, H, q, m

-----------------------------------------------------------------------------
(* The refreshes of one rank, and of two.                                  *)
OneRank(M, p, T) == M = {x \in Int : \E a \in Int : x = p + a * T}

TwoRanks(M, p, s, T) == M = {x \in Int : IsMoment(x, p, s, T)}

(* A leg of one rank meets the refreshes of one,                           *)
LEMMA PhaseOfOne ==
  ASSUME NEW p \in Int, NEW T \in Nat \ {0}, NEW leg,
         leg.phases = {p}, leg.period = T
  PROVE  OneRank(Moments(leg), p, T)
<1>1. ASSUME NEW x \in Int
      PROVE  (x - p) % T = 0 <=> \E a \in Int : x = p + a * T
  <2>1. x - p \in Int
    OBVIOUS
  <2>2. (x - p) % T = 0 <=> \E a \in Int : x - p = a * T
    BY <2>1, MultipleIs, Zenon
  <2>3. \A a \in Int : x - p = a * T <=> x = p + a * T
    <3>. TAKE a \in Int
    <3>1. a * T \in Int
      OBVIOUS
    <3>. QED
      BY <3>1
  <2>. QED
    BY <2>2, <2>3
<1>. QED
  BY <1>1, Zenon DEF OneRank, Moments, Begins

(* and a leg of two ranks those of both.                                   *)
LEMMA PhasesOfTwo ==
  ASSUME NEW p \in Int, NEW T \in Nat \ {0}, NEW leg,
         leg.phases = {p, p + Stagger}, leg.period = T
  PROVE  TwoRanks(Moments(leg), p, Stagger % T, T)
<1>. DEFINE s == Stagger % T
            d == Stagger \div T
<1>1. s \in Int /\ d \in Int /\ Stagger \in Int /\ Stagger = d * T + s
  <2>1. Stagger \in Nat
    BY MeasurementAssumption
  <2>. QED
    BY <2>1, DivMod
<1>. HIDE DEF s, d
<1>2. ASSUME NEW x \in Int
      PROVE  (x - p) % T = 0 <=> \E a \in Int : x = p + a * T
  <2>1. x - p \in Int
    OBVIOUS
  <2>2. (x - p) % T = 0 <=> \E a \in Int : x - p = a * T
    BY <2>1, MultipleIs, Zenon
  <2>3. \A a \in Int : x - p = a * T <=> x = p + a * T
    <3>. TAKE a \in Int
    <3>1. a * T \in Int
      OBVIOUS
    <3>. QED
      BY <3>1
  <2>. QED
    BY <2>2, <2>3
<1>3. ASSUME NEW x \in Int
      PROVE  (x - (p + Stagger)) % T = 0 <=> \E a \in Int : x = p + s + a * T
  <2>1. x - (p + Stagger) \in Int
    BY <1>1
  <2>2. (x - (p + Stagger)) % T = 0 <=> \E a \in Int : x - (p + Stagger) = a * T
    BY <2>1, MultipleIs, Zenon
  <2>3. \A a \in Int : (a + d) * T = a * T + d * T /\ a * T \in Int
    BY <1>1
  <2>4. d * T \in Int
    BY <1>1
  <2>5. ASSUME NEW a \in Int, x - (p + Stagger) = a * T
        PROVE  x = p + s + (a + d) * T /\ a + d \in Int
    <3>. DEFINE y == a * T
                z == d * T
    <3>1. y \in Int /\ z \in Int /\ (a + d) * T = y + z /\ x - (p + Stagger) = y
      BY <2>3, <2>4, <2>5
    <3>2. Stagger = z + s
      BY <1>1
    <3>. HIDE DEF y, z
    <3>3. x = p + s + (y + z)
      BY <1>1, <3>1, <3>2
    <3>. QED
      BY <1>1, <3>1, <3>3
  <2>6. ASSUME NEW a \in Int, x = p + s + a * T
        PROVE  x - (p + Stagger) = (a - d) * T /\ a - d \in Int
    <3>. DEFINE y == a * T
                z == d * T
    <3>1. y \in Int /\ z \in Int /\ (a - d) * T = y - z /\ x = p + s + y
      BY <1>1, <2>3, <2>4, <2>6
    <3>2. Stagger = z + s
      BY <1>1
    <3>. HIDE DEF y, z
    <3>3. x - (p + Stagger) = y - z
      BY <1>1, <3>1, <3>2
    <3>. QED
      BY <1>1, <3>1, <3>3
  <2>. QED
    BY <2>2, <2>5, <2>6, Zenon
<1>4. Moments(leg) = {x \in Int : IsMoment(x, p, s, T)}
  <2>1. \A x \in Int : (\E phase \in leg.phases : (x - phase) % leg.period = 0)
                       <=> IsMoment(x, p, s, T)
    BY <1>2, <1>3, Zenon DEF IsMoment
  <2>. QED
    BY <2>1 DEF Moments, Begins
<1>. QED
  BY <1>4 DEF TwoRanks, s

(* They are spaced by a period, or by the least distance,                  *)
LEMMA OneRankSpaced ==
  ASSUME NEW p \in Int, NEW T \in Nat \ {0}, NEW M, OneRank(M, p, T)
  PROVE  M \in SUBSET Int /\ SpacedBy(M, T)
<1>1. M \in SUBSET Int
  BY DEF OneRank
<1>2. ASSUME NEW u \in M, NEW v \in M, u < v PROVE u + T <= v
  <2>1. PICK a \in Int : u = p + a * T
    BY DEF OneRank
  <2>2. PICK b \in Int : v = p + b * T
    BY DEF OneRank
  <2>. DEFINE x == a * T
              y == b * T
  <2>3. x \in Int /\ y \in Int /\ (a < b => x + T <= y) /\ (b < a => y + T <= x)
        /\ (a = b => x = y)
    BY MultiplesApart
  <2>4. a < b \/ b < a \/ a = b
    OBVIOUS
  <2>5. u = p + x /\ v = p + y
    BY <2>1, <2>2
  <2>. HIDE DEF x, y
  <2>. QED
    BY <1>2, <2>3, <2>4, <2>5
<1>. QED
  BY <1>1, <1>2 DEF SpacedBy

(* Refreshes of two ranks are no closer than their ranks are staggered,    *)
(* either way round.                                                       *)
LEMMA TwoRanksSpaced ==
  ASSUME NEW p \in Int, NEW T \in Nat \ {0}, NEW s \in 1 .. T - 1,
         NEW g \in Int, g <= s, g <= T - s,
         NEW M, TwoRanks(M, p, s, T)
  PROVE  M \in SUBSET Int /\ SpacedBy(M, g)
<1>1. M \in SUBSET Int
  BY DEF TwoRanks
<1>2. ASSUME NEW u \in M, NEW v \in M, u < v PROVE u + g <= v
  <2>1. u \in Int /\ v \in Int /\ IsMoment(u, p, s, T) /\ IsMoment(v, p, s, T)
    BY DEF TwoRanks
  <2>2. u + s <= v \/ u + (T - s) <= v
    BY <1>2, <2>1, MomentsApart
  <2>. QED
    BY <2>1, <2>2
<1>. QED
  BY <1>1, <1>2 DEF SpacedBy

(* and follow each other after a period, or the second after the one.      *)
LEMMA OneRankFollows ==
  ASSUME NEW p \in Int, NEW T \in Nat \ {0}, NEW M, OneRank(M, p, T),
         NEW u \in M, NEW v \in M, u < v, \A x \in M : ~(u < x /\ x < v)
  PROVE  v = u + T
<1>1. u \in Int /\ v \in Int /\ u + T <= v
  BY OneRankSpaced DEF SpacedBy
<1>2. u + T \in M
  <2>1. PICK a \in Int : u = p + a * T
    BY DEF OneRank
  <2>. DEFINE b == a + 1
  <2>2. b * T = a * T + T /\ a * T \in Int /\ b \in Int
    OBVIOUS
  <2>. HIDE DEF b
  <2>3. u + T = p + b * T /\ u + T \in Int
    BY <1>1, <2>1, <2>2
  <2>. QED
    BY <2>2, <2>3 DEF OneRank
<1>. QED
  BY <1>1, <1>2

First(u, p, T) == \E a \in Int : u = p + a * T

InTurn(u, v, p, s, T) ==
  \/ First(u, p, T) /\ First(v, p + s, T) /\ v = u + s
  \/ First(u, p + s, T) /\ First(v, p, T) /\ v = u + (T - s)

(* Of two ranks, one after the other in turn.                              *)
LEMMA TwoRanksFollow ==
  ASSUME NEW p \in Int, NEW T \in Nat \ {0}, NEW s \in 1 .. T - 1,
         NEW M, TwoRanks(M, p, s, T),
         NEW u \in M, NEW v \in M, u < v, \A x \in M : ~(u < x /\ x < v)
  PROVE  InTurn(u, v, p, s, T)
<1>1. u \in Int /\ v \in Int /\ IsMoment(u, p, s, T) /\ IsMoment(v, p, s, T)
  BY DEF TwoRanks
<1>2. PICK b \in Int : v = p + b * T \/ v = p + s + b * T
  BY <1>1 DEF IsMoment
<1>3. PICK a \in Int : u = p + a * T \/ u = p + s + a * T
  BY <1>1 DEF IsMoment
<1>. DEFINE x == a * T
            y == b * T
            z == (a + 1) * T
<1>4. x \in Int /\ y \in Int /\ z = x + T /\ a + 1 \in Int
  OBVIOUS
<1>5. (a < b => z <= y) /\ (b < a => y + T <= x) /\ (a = b => y = x)
      /\ (a + 1 < b => z + T <= y) /\ (b = a + 1 => y = z)
  <2>1. a < b => x + T <= y
    BY MultiplesApart
  <2>2. b < a => y + T <= x
    BY MultiplesApart
  <2>3. a + 1 < b => z + T <= y
    BY <1>4, MultiplesApart
  <2>. HIDE DEF x, y, z
  <2>4. (a = b => y = x) /\ (b = a + 1 => y = z)
    BY DEF x, y, z
  <2>. QED
    BY <1>4, <2>1, <2>2, <2>3, <2>4
<1>6. b < a \/ a = b \/ b = a + 1 \/ a + 1 < b
  OBVIOUS
<1>7. (v = p + y \/ v = p + s + y) /\ (u = p + x \/ u = p + s + x)
  BY <1>2, <1>3
<1>8. /\ IsMoment(p + x, p, s, T) /\ IsMoment(p + s + x, p, s, T)
      /\ IsMoment(p + z, p, s, T)
  BY <1>4 DEF IsMoment
<1>9. p + x \in M /\ p + s + x \in M /\ p + z \in M
  BY <1>4, <1>8 DEF TwoRanks
<1>10. CASE u = p + x
  <2>1. v = p + s + x
    <3>1. ~(u < p + s + x /\ p + s + x < v)
      BY <1>9
    <3>. HIDE DEF x, y, z
    <3>. QED
      BY <1>1, <1>4, <1>5, <1>6, <1>7, <1>10, <3>1
  <2>2. First(u, p, T) /\ First(v, p + s, T)
    BY <1>10, <2>1 DEF First
  <2>. HIDE DEF x
  <2>. QED
    BY <1>4, <1>10, <2>1, <2>2 DEF InTurn
<1>11. CASE u = p + s + x
  <2>1. v = p + z
    <3>1. ~(u < p + z /\ p + z < v)
      BY <1>9
    <3>. HIDE DEF x, y, z
    <3>. QED
      BY <1>1, <1>4, <1>5, <1>6, <1>7, <1>11, <3>1
  <2>2. First(u, p + s, T) /\ First(v, p, T)
    BY <1>4, <1>11, <2>1 DEF First
  <2>. HIDE DEF x, z
  <2>. QED
    BY <1>4, <1>11, <2>1, <2>2 DEF InTurn
<1>. QED
  BY <1>7, <1>10, <1>11

(* A moment is of one rank only.                                           *)
LEMMA RanksDiffer ==
  ASSUME NEW p \in Int, NEW T \in Nat \ {0}, NEW s \in 1 .. T - 1,
         NEW u, First(u, p, T), First(u, p + s, T)
  PROVE  FALSE
<1>1. PICK a \in Int : u = p + a * T
  BY Zenon DEF First
<1>2. PICK b \in Int : u = p + s + b * T
  BY Zenon DEF First
<1>. DEFINE x == a * T
            y == b * T
<1>3. x \in Int /\ y \in Int /\ (a < b => x + T <= y) /\ (b < a => y + T <= x)
      /\ (a = b => x = y)
  BY MultiplesApart
<1>4. a < b \/ b < a \/ a = b
  OBVIOUS
<1>5. p + x = p + s + y
  BY <1>1, <1>2
<1>. HIDE DEF x, y
<1>. QED
  BY <1>3, <1>4, <1>5

-----------------------------------------------------------------------------
(* The rows of such a loop that meet a refresh, m of them, and which they  *)
(* meet.                                                                   *)
Met(at, M, n) == {i \in 1 .. n : Meeting(at, M, i)}

Meetings(at, M, w, n, q, u) ==
  LET m == Cardinality(Met(at, M, n))
  IN  /\ m \in Nat /\ q \in [1 .. m -> 1 .. n] /\ u \in [1 .. m -> M]
      /\ \A k \in 1 .. m : at[q[k]] <= u[k] /\ u[k] < at[q[k] + 1]
      /\ \A k \in 1 .. m - 1 :
           /\ q[k] < q[k + 1]
           /\ \A i \in q[k] + 1 .. q[k + 1] - 1 : ~Meeting(at, M, i)
           /\ u[k] + w + RefreshTime <= u[k + 1]
           /\ \A x \in M : ~(u[k] < x /\ x < u[k + 1])

(* The intervals that the loop shows are those between them.               *)
Hits(v, at, M, w, n, q, u) ==
  LET m == Cardinality(Met(at, M, n))
  IN  /\ Meetings(at, M, w, n, q, u)
      /\ v \in Seq(Int) /\ Len(v) = IF m = 0 THEN 0 ELSE m - 1
      /\ \A k \in 1 .. m - 1 : v[k] = Start(at, q[k + 1]) - Start(at, q[k])

(* The rows that stand out are those that meet a refresh.                  *)
LEMMA RowsThatMeet ==
  ASSUME NEW n \in Nat \ {0}, NEW M, NEW d, NEW h, NEW at,
         Recorded(h, at, M, d, n, REFRESH_CYCLE_LOWER_BOUND)
  PROVE  Standing(h, 2) = Met(at, M, n)
<1>1. \A i \in 1 .. n : h[i][2] > REFRESH_CYCLE_LOWER_BOUND <=> Meeting(at, M, i)
  BY DEF Recorded
<1>2. DOMAIN h = 1 .. n
  BY DEF Recorded
<1>. QED
  BY <1>1, <1>2, Zenon DEF Standing, Met

(* Each of them meets a refresh of its own, as refreshes are further apart *)
(* than a row is long, and between two of them none goes unseen.           *)
LEMMA RowsMeet ==
  ASSUME NEW n \in Nat \ {0}, NEW M \in SUBSET Int, NEW w \in Nat \ {0},
         SpacedBy(M, w + RefreshTime), NEW at, Walks(at, M, w, n)
  PROVE  \E u : Meetings(at, M, w, n, InOrder(Met(at, M, n)), u)
<1>. DEFINE H == Met(at, M, n)
            m == Cardinality(H)
            q == InOrder(H)
            meets(i, x) == at[i] <= x /\ x < at[i + 1]
            u == [k \in 1 .. m |-> CHOOSE x \in M : meets(q[k], x)]
<1>1. H \in SUBSET (1 .. n) /\ n \in Nat
  BY DEF Met
<1>2. /\ m \in Nat /\ q \in [1 .. m -> H]
      /\ \A k \in 1 .. m - 1 :
           /\ q[k] < q[k + 1]
           /\ \A i \in H : ~(q[k] < i /\ i < q[k + 1])
  <2>. HIDE DEF H
  <2>. QED
    BY <1>1, InOrderEnumerates, Zenon
<1>3. \A k \in 1 .. m : q[k] \in 1 .. n /\ u[k] \in M /\ meets(q[k], u[k])
  <2>. TAKE k \in 1 .. m
  <2>1. q[k] \in H
    BY <1>2
  <2>2. q[k] \in 1 .. n /\ Meeting(at, M, q[k])
    BY <2>1 DEF Met
  <2>3. \E x \in M : meets(q[k], x)
    BY <2>2 DEF Meeting, BeginsIn
  <2>4. u[k] = CHOOSE x \in M : meets(q[k], x)
    OBVIOUS
  <2>. HIDE DEF q, m, H, u, meets
  <2>5. u[k] \in M /\ meets(q[k], u[k])
    BY <2>3, <2>4
  <2>. QED
    BY <2>2, <2>5
<1>4. u \in [1 .. m -> M]
  <2>1. u = [k \in 1 .. m |-> u[k]]
    OBVIOUS
  <2>. HIDE DEF u, m, q, meets
  <2>. QED
    BY <1>3, <2>1
<1>. HIDE DEF u
<1>5. ASSUME NEW k \in 1 .. m - 1
      PROVE  /\ q[k] < q[k + 1]
             /\ \A i \in q[k] + 1 .. q[k + 1] - 1 : ~Meeting(at, M, i)
             /\ u[k] + w + RefreshTime <= u[k + 1]
             /\ \A x \in M : ~(u[k] < x /\ x < u[k + 1])
  <2>. DEFINE a == q[k]
              b == q[k + 1]
  <2>1. k \in 1 .. m /\ k + 1 \in 1 .. m
    <3>. HIDE DEF m
    <3>. QED
      BY <1>2
  <2>2. /\ a \in 1 .. n /\ b \in 1 .. n /\ a < b
        /\ \A i \in H : ~(a < i /\ i < b)
    <3>. HIDE DEF q, m, H
    <3>. QED
      BY <1>2, <1>3, <2>1
  <2>3. \A i \in a + 1 .. b - 1 : ~Meeting(at, M, i)
    <3>. TAKE i \in a + 1 .. b - 1
    <3>. HIDE DEF a, b
    <3>1. i \in 1 .. n /\ a < i /\ i < b
      BY <2>2
    <3>2. i \notin H
      BY <2>2, <3>1
    <3>. QED
      BY <3>1, <3>2 DEF Met
  <2>. DEFINE x == u[k]
              y == u[k + 1]
  <2>4. x \in M /\ at[a] <= x /\ x < at[a + 1] /\ y \in M /\ at[b] <= y /\ y < at[b + 1]
    <3>. HIDE DEF q, m, H
    <3>. QED
      BY <1>3, <2>1
  <2>. HIDE DEF a, b, H, x, y
  <2>5. b \in a + 1 .. n
    BY <2>2
  <2>6. /\ x + w + RefreshTime <= y
        /\ \A z \in M : ~(x < z /\ z < y)
    BY <1>1, <2>2, <2>3, <2>4, <2>5, NextRefresh
  <2>. QED
    BY <2>2, <2>3, <2>6 DEF a, b, x, y
<1>6. q \in [1 .. m -> 1 .. n]
  <2>. HIDE DEF q, m, H
  <2>. QED
    BY <1>1, <1>2, Zenon
<1>7. Meetings(at, M, w, n, q, u)
  <2>. HIDE DEF q
  <2>. QED
    BY <1>2, <1>3, <1>4, <1>5, <1>6, Zenon DEF Meetings
<1>. QED
  BY <1>7

(* So the intervals of a loop are those between the rows that meet one.    *)
LEMMA HitsOfLoop ==
  ASSUME NEW n \in Nat \ {0}, NEW M \in SUBSET Int, NEW d \in Nat \ {0},
         NEW w \in Nat \ {0}, w = FlushTime + d, SpacedBy(M, w + RefreshTime),
         NEW h, NEW at, Recorded(h, at, M, d, n, REFRESH_CYCLE_LOWER_BOUND)
  PROVE  \E q, u : Hits(Intervals(h, 2), at, M, w, n, q, u)
<1>. DEFINE H == Met(at, M, n)
            m == Cardinality(H)
            q == InOrder(H)
            v == Intervals(h, 2)
            start == [i \in 1 .. n |-> Start(at, i)]
<1>1. Walks(at, M, w, n) /\ DOMAIN h = 1 .. n
  BY DEF Recorded
<1>2. PICK u : Meetings(at, M, w, n, q, u)
  BY <1>1, RowsMeet
<1>3. \A i \in 1 .. n : Start(at, i) \in Int
  <2>1. \A i \in 1 .. n + 1 : at[i] \in Int
    BY <1>1, Zenon DEF Walks
  <2>. QED
    BY <2>1 DEF Start
<1>4. IntervalsOf(v, H, start)
  <2>1. start \in [1 .. n -> Int]
    BY <1>3
  <2>2. Start(at, 1) = 0 /\ 1 \in 1 .. n
    BY DEF Start
  <2>3. \A i \in 1 .. n : h[i][1] = Start(at, i) + FlushTime
    BY DEF Recorded
  <2>4. \A i \in 1 .. n :
          start[i] = h[i][1] - h[1][1] + (IF 2 = 3 THEN h[i][2] ELSE 0)
    <3>. TAKE i \in 1 .. n
    <3>1. start[i] = Start(at, i) /\ Start(at, i) \in Int
      BY <1>3
    <3>2. h[i][1] = start[i] + FlushTime /\ h[1][1] = 0 + FlushTime
      BY <2>2, <2>3, <3>1
    <3>3. FlushTime \in Nat
      BY MeasurementAssumption
    <3>. HIDE DEF start
    <3>. QED
      BY <3>1, <3>2, <3>3
  <2>5. H = Standing(h, 2)
    BY RowsThatMeet
  <2>. HIDE DEF start, H, v
  <2>. QED
    BY <1>1, <2>1, <2>4, <2>5, IntervalsAre, Zenon DEF v
<1>. HIDE DEF v
<1>5. q \in [1 .. m -> 1 .. n] /\ m \in Nat
  <2>. HIDE DEF q
  <2>. QED
    BY <1>2, Zenon DEF Meetings
<1>6. \A k \in 1 .. m - 1 : v[k] = Start(at, q[k + 1]) - Start(at, q[k])
  <2>. HIDE DEF q, m
  <2>. TAKE k \in 1 .. m - 1
  <2>1. k \in 1 .. m /\ k + 1 \in 1 .. m
    BY <1>5
  <2>2. q[k] \in 1 .. n /\ q[k + 1] \in 1 .. n
    BY <1>5, <2>1
  <2>3. start[q[k]] = Start(at, q[k]) /\ start[q[k + 1]] = Start(at, q[k + 1])
    BY <2>2
  <2>4. v[k] = start[q[k + 1]] - start[q[k]]
    <3>. HIDE DEF start, H
    <3>. QED
      BY <1>4 DEF IntervalsOf, q, m
  <2>. QED
    BY <2>3, <2>4
<1>7. v \in Seq(Int) /\ Len(v) = IF m = 0 THEN 0 ELSE m - 1
  BY <1>4 DEF IntervalsOf
<1>. HIDE DEF q
<1>8. Hits(v, at, M, w, n, q, u)
  BY <1>2, <1>6, <1>7, Zenon DEF Hits
<1>. QED
  BY <1>8 DEF v

-----------------------------------------------------------------------------
(* The intervals between the rows that meet refreshes are those between    *)
(* the refreshes, give or take a row, and less by what the loop saw of a   *)
(* refresh that began before it.                                           *)
LEMMA IntervalNear ==
  ASSUME NEW n \in Nat \ {0}, NEW M \in SUBSET Int, NEW w \in Nat \ {0},
         NEW at, Walks(at, M, w, n),
         NEW v, NEW q, NEW u, Hits(v, at, M, w, n, q, u), NEW k \in 1 .. Len(v)
  PROVE  /\ u[k] \in M /\ u[k + 1] \in M /\ u[k] < u[k + 1]
         /\ \A x \in M : ~(u[k] < x /\ x < u[k + 1])
         /\ v[k] \in Int
         /\ (u[k + 1] - u[k]) - (w + RefreshTime - 1) <= v[k]
         /\ v[k] <= (u[k + 1] - u[k]) + (w - 1)
         /\ k + 1 \in 1 .. Len(v) =>
              /\ (u[k + 2] - u[k]) - (w + RefreshTime - 1) <= v[k] + v[k + 1]
              /\ v[k] + v[k + 1] <= (u[k + 2] - u[k]) + (w - 1)
<1>. DEFINE m == Cardinality(Met(at, M, n))
            R == RefreshTime
            start(l) == Start(at, q[l])
<1>1. m \in Nat /\ Len(v) = IF m = 0 THEN 0 ELSE m - 1
  BY DEF Hits, Meetings
<1>2. k \in 1 .. m - 1 /\ k \in 1 .. m /\ k + 1 \in 1 .. m /\ 1 <= k
  <2>. HIDE DEF m
  <2>. QED
    BY <1>1
<1>3. /\ q \in [1 .. m -> 1 .. n] /\ u \in [1 .. m -> M]
      /\ \A l \in 1 .. m : at[q[l]] <= u[l] /\ u[l] < at[q[l] + 1]
      /\ \A l \in 1 .. m - 1 :
           /\ q[l] < q[l + 1]
           /\ v[l] = start(l + 1) - start(l)
           /\ u[l] + w + R <= u[l + 1]
           /\ \A x \in M : ~(u[l] < x /\ x < u[l + 1])
  BY Zenon DEF Hits, Meetings
<1>. HIDE DEF m
<1>4. R \in Nat
  BY MeasurementAssumption
<1>5. \A l \in 1 .. m : /\ start(l) \in Int /\ u[l] \in Int /\ u[l] \in M
                        /\ start(l) - R <= u[l] /\ u[l] <= start(l) + (w - 1)
                        /\ q[l] # 1 => start(l) <= u[l]
  <2>. TAKE l \in 1 .. m
  <2>. DEFINE i == q[l]
              x == u[l]
  <2>1. i \in 1 .. n /\ x \in M /\ x \in Int /\ at[i] <= x /\ x < at[i + 1]
    BY <1>3
  <2>. HIDE DEF i, x
  <2>2. i \in 1 .. n + 1
    BY <2>1
  <2>3. /\ at[i] \in Int /\ at[1] \in -R .. 0
        /\ x < Start(at, i) + w
    BY <2>1, <2>2 DEF Walks
  <2>4. /\ Start(at, i) \in Int /\ Start(at, i) - R <= x
        /\ x <= Start(at, i) + (w - 1)
        /\ i # 1 => Start(at, i) <= x
    <3>1. CASE i = 1
      <4>1. Start(at, i) = 0 /\ at[1] <= x
        BY <2>1, <3>1 DEF Start
      <4>. QED
        BY <1>4, <2>1, <2>3, <3>1, <4>1
    <3>2. CASE i # 1
      <4>1. Start(at, i) = at[i]
        BY <3>2 DEF Start
      <4>. QED
        BY <1>4, <2>1, <2>3, <4>1
    <3>. QED
      BY <3>1, <3>2
  <2>. QED
    BY <2>1, <2>4 DEF i, x
<1>6. \A l \in 1 .. m - 1 : q[l + 1] # 1 /\ l \in 1 .. m /\ l + 1 \in 1 .. m
  <2>. TAKE l \in 1 .. m - 1
  <2>1. l \in 1 .. m /\ l + 1 \in 1 .. m
    BY <1>1
  <2>2. q[l] \in 1 .. n /\ q[l] < q[l + 1]
    BY <1>3, <2>1
  <2>. QED
    BY <2>1, <2>2
<1>. HIDE DEF start
<1>. DEFINE x == u[k]
            y == u[k + 1]
            a == start(k)
            b == start(k + 1)
            d == v[k]
<1>7. /\ x \in M /\ y \in M /\ x \in Int /\ y \in Int /\ a \in Int /\ b \in Int
      /\ a - R <= x /\ x <= a + (w - 1) /\ b <= y /\ y <= b + (w - 1)
      /\ d = b - a /\ x + w + R <= y
      /\ \A z \in M : ~(x < z /\ z < y)
  BY <1>2, <1>3, <1>5, <1>6
<1>8. ASSUME k + 1 \in 1 .. Len(v)
      PROVE  /\ (u[k + 2] - u[k]) - (w + R - 1) <= v[k] + v[k + 1]
             /\ v[k] + v[k + 1] <= (u[k + 2] - u[k]) + (w - 1)
  <2>. DEFINE l == k + 1
              z == u[l + 1]
              c == start(l + 1)
              f == v[l]
  <2>1. l \in 1 .. m - 1 /\ l + 1 = k + 2
    BY <1>1, <1>8
  <2>2. z \in Int /\ c \in Int /\ c <= z /\ z <= c + (w - 1) /\ f = c - b
    BY <1>3, <1>5, <1>6, <2>1
  <2>. HIDE DEF x, y, z, a, b, c, d, f
  <2>3. (z - x) - (w + R - 1) <= d + f /\ d + f <= (z - x) + (w - 1)
    BY <1>4, <1>7, <2>2
  <2>4. u[k + 2] = z /\ v[k + 1] = f
    BY <2>1 DEF z, f
  <2>. QED
    BY <2>3, <2>4 DEF x, d
<1>. HIDE DEF x, y, a, b, d
<1>9. /\ d \in Int /\ x < y
      /\ (y - x) - (w + R - 1) <= d /\ d <= (y - x) + (w - 1)
  BY <1>4, <1>7
<1>. QED
  BY <1>7, <1>8, <1>9 DEF x, y, d

Around(x, y, w) == y - (w + RefreshTime - 1) <= x /\ x <= y + (w - 1)

(* For one rank every interval is a period, give or take a row.            *)
LEMMA IntervalsOfOneRank ==
  ASSUME NEW n \in Nat \ {0}, NEW M \in SUBSET Int, NEW w \in Nat \ {0},
         NEW at, Walks(at, M, w, n),
         NEW v, NEW q, NEW u, Hits(v, at, M, w, n, q, u),
         NEW p \in Int, NEW T \in Nat \ {0}, OneRank(M, p, T)
  PROVE  \A k \in 1 .. Len(v) : v[k] \in Int /\ Around(v[k], T, w)
<1>. TAKE k \in 1 .. Len(v)
<1>1. /\ u[k] \in M /\ u[k + 1] \in M /\ u[k] < u[k + 1]
      /\ \A x \in M : ~(u[k] < x /\ x < u[k + 1])
      /\ v[k] \in Int
      /\ (u[k + 1] - u[k]) - (w + RefreshTime - 1) <= v[k]
      /\ v[k] <= (u[k + 1] - u[k]) + (w - 1)
  BY IntervalNear, Zenon
<1>2. u[k + 1] = u[k] + T
  BY <1>1, OneRankFollows, Zenon
<1>3. u[k + 1] - u[k] = T
  <2>. DEFINE x == u[k]
              y == u[k + 1]
  <2>1. x \in Int /\ y = x + T
    BY <1>1, <1>2, Zenon
  <2>. HIDE DEF x, y
  <2>2. y - x = T
    BY <2>1
  <2>. QED
    BY <2>2 DEF x, y
<1>. QED
  BY <1>1, <1>3 DEF Around

Alternates(v, g, T, w) ==
  /\ \A k \in 1 .. Len(v) :
       v[k] \in Int /\ g - (w + RefreshTime - 1) <= v[k] /\ v[k] <= (T - g) + (w - 1)
  /\ \A k \in 1 .. Len(v) - 1 : Around(v[k] + v[k + 1], T, w)

(* For two ranks the intervals are those between them, in turn, and two in *)
(* a row make up a period.                                                 *)
LEMMA IntervalsOfTwoRanks ==
  ASSUME NEW n \in Nat \ {0}, NEW M \in SUBSET Int, NEW w \in Nat \ {0},
         NEW at, Walks(at, M, w, n),
         NEW v, NEW q, NEW u, Hits(v, at, M, w, n, q, u),
         NEW p \in Int, NEW T \in Nat \ {0}, NEW s \in 1 .. T - 1,
         TwoRanks(M, p, s, T),
         NEW g \in Int, g <= s, g <= T - s
  PROVE  Alternates(v, g, T, w)
<1>1. ASSUME NEW k \in 1 .. Len(v)
      PROVE  /\ u[k] \in Int /\ u[k + 1] \in Int
             /\ InTurn(u[k], u[k + 1], p, s, T)
             /\ v[k] \in Int
             /\ (u[k + 1] - u[k]) - (w + RefreshTime - 1) <= v[k]
             /\ v[k] <= (u[k + 1] - u[k]) + (w - 1)
  <2>1. /\ u[k] \in M /\ u[k + 1] \in M /\ u[k] < u[k + 1]
        /\ \A x \in M : ~(u[k] < x /\ x < u[k + 1])
        /\ v[k] \in Int
        /\ (u[k + 1] - u[k]) - (w + RefreshTime - 1) <= v[k]
        /\ v[k] <= (u[k + 1] - u[k]) + (w - 1)
    BY IntervalNear
  <2>2. InTurn(u[k], u[k + 1], p, s, T)
    BY <2>1, TwoRanksFollow, Zenon
  <2>. QED
    BY <2>1, <2>2, Zenon
<1>2. ASSUME NEW k \in 1 .. Len(v)
      PROVE  v[k] \in Int /\ g - (w + RefreshTime - 1) <= v[k] /\ v[k] <= (T - g) + (w - 1)
  <2>. DEFINE x == u[k]
              y == u[k + 1]
              d == v[k]
  <2>1. /\ x \in Int /\ y \in Int /\ d \in Int /\ (y = x + s \/ y = x + (T - s))
        /\ (y - x) - (w + RefreshTime - 1) <= d /\ d <= (y - x) + (w - 1)
    BY <1>1 DEF InTurn
  <2>. HIDE DEF x, y, d
  <2>2. RefreshTime \in Nat
    BY MeasurementAssumption
  <2>3. g <= y - x /\ y - x <= T - g /\ y - x \in Int
    BY <2>1
  <2>. DEFINE gap == y - x
              low == w + RefreshTime - 1
              high == w - 1
  <2>4. /\ gap - low <= d /\ d <= gap + high /\ g <= gap /\ gap <= T - g
        /\ gap \in Int /\ low \in Int /\ high \in Int /\ d \in Int
    BY <2>1, <2>2, <2>3
  <2>. HIDE DEF gap, low, high
  <2>5. d \in Int /\ g - low <= d /\ d <= (T - g) + high
    BY <2>4
  <2>. QED
    BY <2>5 DEF d, low, high
<1>3. ASSUME NEW k \in 1 .. Len(v) - 1
      PROVE  Around(v[k] + v[k + 1], T, w)
  <2>. DEFINE l == k + 1
  <2>1. Len(v) \in Nat
    <3>1. v \in Seq(Int)
      BY DEF Hits
    <3>. QED
      BY <3>1
  <2>2. k \in 1 .. Len(v) /\ l \in 1 .. Len(v) /\ l + 1 = k + 2
    BY <2>1
  <2>3. /\ (u[k + 2] - u[k]) - (w + RefreshTime - 1) <= v[k] + v[k + 1]
        /\ v[k] + v[k + 1] <= (u[k + 2] - u[k]) + (w - 1)
    BY <2>2, IntervalNear, Zenon
  <2>4. \/ First(u[k], p, T) /\ First(u[l], p + s, T) /\ u[l] = u[k] + s
        \/ First(u[k], p + s, T) /\ First(u[l], p, T) /\ u[l] = u[k] + (T - s)
    BY <1>1, <2>2 DEF InTurn
  <2>5. \/ First(u[l], p, T) /\ First(u[l + 1], p + s, T) /\ u[l + 1] = u[l] + s
        \/ First(u[l], p + s, T) /\ First(u[l + 1], p, T) /\ u[l + 1] = u[l] + (T - s)
    BY <1>1, <2>2 DEF InTurn
  <2>6. ~(First(u[l], p, T) /\ First(u[l], p + s, T))
    BY RanksDiffer, Zenon
  <2>7. u[k] \in Int /\ u[l] \in Int /\ u[k + 2] \in Int
    <3>1. u[l + 1] \in Int
      BY <1>1, <2>2
    <3>. QED
      BY <1>1, <2>2, <3>1
  <2>8. u[k + 2] = u[k] + T
    <3>1. \/ u[l] = u[k] + s /\ u[l + 1] = u[l] + (T - s)
          \/ u[l] = u[k] + (T - s) /\ u[l + 1] = u[l] + s
      BY <2>4, <2>5, <2>6
    <3>2. u[l + 1] = u[k + 2]
      BY <2>2
    <3>. HIDE DEF l
    <3>. QED
      BY <2>7, <3>1, <3>2
  <2>9. u[k + 2] - u[k] = T
    BY <2>7, <2>8
  <2>. QED
    BY <2>3, <2>9 DEF Around
<1>. QED
  BY <1>2, <1>3 DEF Alternates

-----------------------------------------------------------------------------
(* The refreshes of two ranks: a row with a refresh fits between any two.  *)
Suits(T, s, g) ==
  /\ T \in Nat \ {0} /\ s \in 1 .. T - 1 /\ g \in Nat \ {0}
  /\ g <= s /\ g <= T - s /\ RowTime + RefreshTime <= g

(* They are, if the loops suit the memory.                                 *)
LEMMA PeriodSuits ==
  ASSUME LoopsSuit, NEW T \in Periods
  PROVE  Suits(T, Stagger % T, Closest(T))
<1>1. /\ T \in Nat \ {0} /\ Stagger \in Nat /\ AccessTime \in Nat \ {0}
      /\ ConflictTime \in Nat /\ RefreshTime \in Nat /\ FlushTime \in Nat
  BY MeasurementAssumption
<1>. DEFINE s == Stagger % T
            g == Closest(T)
<1>2. s \in 0 .. T - 1
  BY <1>1, DivMod
<1>3. g = Nearer(s, T)
  BY DEF Closest
<1>4. RowTime + RefreshTime <= g /\ RowTime + RefreshTime \in Nat \ {0}
  BY <1>1 DEF LoopsSuit, RowTime, LoopTime
<1>. HIDE DEF s, g
<1>5. g \in Nat /\ g <= s /\ g <= T - s
  BY <1>1, <1>2, <1>3 DEF Nearer
<1>6. s \in 1 .. T - 1 /\ g \in Nat \ {0}
  BY <1>1, <1>2, <1>4, <1>5
<1>7. Suits(T, s, g)
  BY <1>1, <1>4, <1>5, <1>6 DEF Suits
<1>. QED
  BY <1>7 DEF s, g

(* What an exposure is, and the time of a slow row.                        *)
LEMMA Exposed ==
  ASSUME NEW e \in Exposures
  PROVE  /\ e.period \in Periods /\ e.period \in Nat \ {0}
         /\ e.apart \in BOOLEAN /\ e.slow \in BOOLEAN
         /\ LoopTime \in Nat \ {0} /\ AccessTime \in Nat \ {0}
         /\ ConflictTime \in Nat /\ RefreshTime \in Nat
         /\ FlushTime \in Nat /\ RowTime \in Nat \ {0}
<1>1. e.period \in Periods /\ e.apart \in BOOLEAN /\ e.slow \in BOOLEAN
  BY DEF Exposures
<1>2. /\ AccessTime \in Nat \ {0} /\ ConflictTime \in Nat /\ RefreshTime \in Nat
      /\ Periods \subseteq Nat \ {0} /\ FlushTime \in Nat
  BY MeasurementAssumption
<1>3. LoopTime \in Nat \ {0} /\ RowTime \in Nat \ {0}
  BY <1>2 DEF LoopTime, RowTime
<1>. QED
  BY <1>1, <1>2, <1>3, Zenon

(* A loop for a pair of addresses, whose refreshes a bound c tells.        *)
PairTime(e) == AccessTime + (IF e.slow THEN ConflictTime ELSE 0)

OfPair(h, at, M, d, n, e, p, c) ==
  /\ Recorded(h, at, M, d, n, c)
  /\ d = PairTime(e) /\ d \in Nat \ {0} /\ AccessTime <= d /\ d <= LoopTime
  /\ M \in SUBSET Int /\ SpacedBy(M, Closest(e.period))
  /\ SpacedBy(M, FlushTime + d + RefreshTime)
  /\ ~e.apart => OneRank(M, p, e.period)
  /\ e.apart => TwoRanks(M, p, Stagger % e.period, e.period)

(* Every loop for a pair of addresses is one.  A refresh stands out, even  *)
(* if it begins while the lines are flushed: so the loops suit.            *)
LEMMA LoopOfPair ==
  ASSUME LoopsSuit, NEW e \in Exposures, NEW p \in Int, NEW n \in Nat \ {0},
         NEW c \in Nat, PairTime(e) <= c, c <= REFRESH_CYCLE_LOWER_BOUND
  PROVE  \E at, M, d : OfPair(Measure(n, PairLegs(e, p)), at, M, d, n, e, p, c)
<1>. DEFINE leg == [time |-> PairTime(e), phases |-> Phases(e, p), period |-> e.period]
            M == Moments(leg)
            d == PairTime(e)
            T == e.period
            g == Closest(T)
            s == Stagger % T
            h == Measure(n, PairLegs(e, p))
<1>1. e.apart \in BOOLEAN /\ e.slow \in BOOLEAN /\ T \in Periods
  BY DEF Exposures
<1>2. /\ T \in Nat \ {0} /\ s \in 1 .. T - 1 /\ g \in Nat \ {0}
      /\ g <= s /\ g <= T - s /\ RowTime + RefreshTime <= g
  <2>1. Suits(T, s, g)
    BY <1>1, PeriodSuits
  <2>. HIDE DEF T, s, g
  <2>. QED
    BY <2>1 DEF Suits
<1>3. /\ d \in Nat \ {0} /\ AccessTime <= d /\ d <= LoopTime /\ d <= c
      /\ FlushTime \in Nat /\ RefreshTime \in Nat /\ LoopTime \in Nat /\ AccessTime \in Nat
      /\ RowTime = FlushTime + LoopTime
  BY Exposed DEF PairTime, LoopTime, RowTime
<1>4. PairLegs(e, p) = <<leg>> /\ leg.time = d /\ leg.period = T
      /\ leg.phases = Phases(e, p)
  BY DEF PairLegs, PairTime
<1>. HIDE DEF leg, d, g, s, T
<1>5. FlushTime < RefreshTime /\ c < d + RefreshTime - FlushTime
  <2>1. /\ LoopTime <= REFRESH_CYCLE_LOWER_BOUND /\ REFRESH_CYCLE_LOWER_BOUND \in Nat
        /\ REFRESH_CYCLE_LOWER_BOUND < AccessTime + RefreshTime - FlushTime
    BY MeasurementAssumption DEF LoopsSuit
  <2>. QED
    BY <1>3, <2>1
<1>6. /\ M \in SUBSET Int /\ SpacedBy(M, g)
      /\ ~e.apart => OneRank(M, p, T)
      /\ e.apart => TwoRanks(M, p, s, T)
  <2>1. CASE e.apart
    <3>1. leg.phases = {p, p + Stagger}
      BY <1>4, <2>1 DEF Phases
    <3>2. TwoRanks(M, p, s, T)
      BY <1>2, <1>4, <3>1, PhasesOfTwo DEF s
    <3>. HIDE DEF M
    <3>3. M \in SUBSET Int /\ SpacedBy(M, g)
      BY <1>2, <3>2, TwoRanksSpaced
    <3>. QED
      BY <2>1, <3>2, <3>3
  <2>2. CASE ~e.apart
    <3>1. leg.phases = {p}
      BY <1>4, <2>2 DEF Phases
    <3>2. OneRank(M, p, T)
      BY <1>2, <1>4, <3>1, PhaseOfOne
    <3>. HIDE DEF M
    <3>3. M \in SUBSET Int /\ SpacedBy(M, T)
      BY <1>2, <3>2, OneRankSpaced
    <3>4. SpacedBy(M, g)
      <4>1. \A x, y \in Int : x + T <= y => x + g <= y
        BY <1>2
      <4>. QED
        BY <3>3, <4>1 DEF SpacedBy
    <3>. QED
      BY <2>2, <3>2, <3>3, <3>4
  <2>. QED
    BY <2>1, <2>2
<1>7. SpacedBy(M, FlushTime + d + RefreshTime)
  <2>. HIDE DEF M
  <2>1. \A x, y \in Int : x + g <= y => x + (FlushTime + d + RefreshTime) <= y
    <3>1. FlushTime + d + RefreshTime <= g
      BY <1>2, <1>3
    <3>. QED
      BY <1>2, <1>3, <3>1
  <2>. QED
    BY <1>6, <2>1 DEF SpacedBy
<1>8. PICK at : Recorded(h, at, M, d, n, c)
  BY <1>3, <1>4, <1>5, <1>7, LegRecorded
<1>. HIDE DEF M, h
<1>9. OfPair(h, at, M, d, n, e, p, c)
  BY <1>3, <1>6, <1>7, <1>8 DEF OfPair, T, g, s, d
<1>. QED
  BY <1>9 DEF h

(* The threshold of the refreshes is such a bound, and so is the time of   *)
(* the pair.                                                               *)
LEMMA BoundsOfPair ==
  ASSUME LoopsSuit, NEW e \in Exposures
  PROVE  /\ PairTime(e) \in Nat \ {0} /\ PairTime(e) <= REFRESH_CYCLE_LOWER_BOUND
         /\ REFRESH_CYCLE_LOWER_BOUND \in Nat
<1>1. /\ LoopTime <= REFRESH_CYCLE_LOWER_BOUND /\ REFRESH_CYCLE_LOWER_BOUND \in Nat
  BY MeasurementAssumption DEF LoopsSuit
<1>2. e.slow \in BOOLEAN /\ AccessTime \in Nat \ {0} /\ ConflictTime \in Nat
  BY Exposed
<1>. QED
  BY <1>1, <1>2 DEF PairTime, LoopTime

(* One address is accessed as a fast pair in one rank is.                  *)
Alone(e) == [apart |-> FALSE, slow |-> FALSE, period |-> e.period]

(* So what is shown of pairs is shown of single accesses.                  *)
LEMMA SingleIsPair ==
  ASSUME NEW e \in Exposures, NEW p \in Int
  PROVE  /\ Alone(e) \in Exposures /\ SingleLegs(e, p) = PairLegs(Alone(e), p)
<1>1. AccessTime + 0 = AccessTime
  BY MeasurementAssumption
<1>. QED
  BY <1>1 DEF Alone, Exposures, SingleLegs, PairLegs, Phases

-----------------------------------------------------------------------------
(* What the statistics of the intervals of a loop are.                     *)
LEMMA IntervalsOfPair ==
  ASSUME LoopsSuit, NEW e \in Exposures, NEW p \in Int, NEW n \in Nat \ {0},
         NEW v, v = Intervals(Measure(n, PairLegs(e, p)), 2)
  PROVE  /\ v \in Seq(Int)
         /\ \A k \in 1 .. Len(v) : v[k] \in Int
         /\ ~e.apart => \A k \in 1 .. Len(v) : Around(v[k], e.period, RowTime)
         /\ e.apart => Alternates(v, Closest(e.period), e.period, RowTime)
<1>. DEFINE h == Measure(n, PairLegs(e, p))
            T == e.period
            s == Stagger % T
            g == Closest(T)
            L == RowTime
            R == RefreshTime
<1>1. T \in Periods
  BY DEF Exposures
<1>2. /\ T \in Nat \ {0} /\ s \in 1 .. T - 1 /\ g \in Nat \ {0}
      /\ g <= s /\ g <= T - s
  <2>1. Suits(T, s, g)
    BY <1>1, PeriodSuits
  <2>. HIDE DEF T, s, g
  <2>. QED
    BY <2>1 DEF Suits
<1>3. PICK at, M, d : OfPair(h, at, M, d, n, e, p, REFRESH_CYCLE_LOWER_BOUND)
  <2>1. REFRESH_CYCLE_LOWER_BOUND <= REFRESH_CYCLE_LOWER_BOUND
    BY BoundsOfPair
  <2>. QED
    BY <2>1, BoundsOfPair, LoopOfPair
<1>. HIDE DEF h
<1>. DEFINE w == FlushTime + d
<1>4. /\ d \in Nat \ {0} /\ w \in Nat \ {0} /\ w <= L /\ L \in Nat /\ R \in Nat
      /\ M \in SUBSET Int /\ SpacedBy(M, w + R)
      /\ Recorded(h, at, M, d, n, REFRESH_CYCLE_LOWER_BOUND)
  BY <1>3, Exposed DEF OfPair, RowTime
<1>6. Walks(at, M, w, n)
  BY <1>4 DEF Recorded
<1>. HIDE DEF w
<1>5. PICK q, u : Hits(v, at, M, w, n, q, u)
  BY <1>4, HitsOfLoop DEF h, w
<1>7. v \in Seq(Int) /\ \A k \in 1 .. Len(v) : v[k] \in Int
  BY <1>5 DEF Hits
<1>8. ASSUME NEW x \in Int, Around(x, T, w) PROVE Around(x, T, L)
  <2>. HIDE DEF L
  <2>. QED
    BY <1>2, <1>4, <1>8 DEF Around
<1>9. CASE ~e.apart
  <2>1. OneRank(M, p, T)
    BY <1>3, <1>9 DEF OfPair
  <2>. HIDE DEF T, L
  <2>2. \A k \in 1 .. Len(v) : v[k] \in Int /\ Around(v[k], T, w)
    BY <1>2, <1>4, <1>5, <1>6, <2>1, IntervalsOfOneRank, Zenon
  <2>3. \A k \in 1 .. Len(v) : Around(v[k], T, L)
    BY <1>8, <2>2
  <2>. QED
    BY <1>7, <1>9, <2>3 DEF T, L
<1>10. CASE e.apart
  <2>1. TwoRanks(M, p, s, T)
    BY <1>3, <1>10 DEF OfPair
  <2>. HIDE DEF T, L, s, g
  <2>2. Alternates(v, g, T, w)
    BY <1>2, <1>4, <1>5, <1>6, <2>1, IntervalsOfTwoRanks
  <2>3. ASSUME NEW k \in 1 .. Len(v)
        PROVE  g - (L + R - 1) <= v[k] /\ v[k] <= (T - g) + (L - 1)
    <3>. DEFINE x == v[k]
    <3>1. x \in Int /\ g - (w + R - 1) <= x /\ x <= (T - g) + (w - 1)
      BY <2>2 DEF Alternates
    <3>. HIDE DEF x
    <3>2. g - (L + R - 1) <= x /\ x <= (T - g) + (L - 1)
      BY <1>2, <1>4, <3>1
    <3>. QED
      BY <3>2 DEF x
  <2>4. \A k \in 1 .. Len(v) - 1 : Around(v[k] + v[k + 1], T, L)
    <3>. TAKE k \in 1 .. Len(v) - 1
    <3>1. Len(v) \in Nat
      BY <1>7
    <3>2. k \in 1 .. Len(v) /\ k + 1 \in 1 .. Len(v)
      BY <3>1
    <3>3. v[k] + v[k + 1] \in Int
      BY <1>7, <3>2
    <3>. QED
      BY <1>8, <2>2, <3>3 DEF Alternates
  <2>5. Alternates(v, g, T, L)
    BY <1>7, <2>3, <2>4 DEF Alternates
  <2>. QED
    BY <1>7, <1>10, <2>5 DEF T, L, g
<1>11. e.apart \in BOOLEAN
  BY DEF Exposures
<1>. QED
  BY <1>9, <1>10, <1>11

(* A number around the period is near it.                                  *)
LEMMA AroundIsNear ==
  ASSUME NEW x \in Int, NEW T \in Nat, Around(x, T, RowTime)
  PROVE  NearPeriod(x, T)
<1>1. RowTime \in Nat /\ RefreshTime \in Nat
  BY MeasurementAssumption DEF LoopTime, RowTime
<1>. QED
  BY <1>1 DEF Around, NearPeriod

(* Average, median, least and greatest interval of a pair in one rank are  *)
(* all near the period.                                                    *)
LEMMA StatisticsOfPair ==
  ASSUME LoopsSuit, NEW e \in Exposures, NEW p \in Int, NEW n \in Nat \ {0}, ~e.apart,
         NEW v, v = Intervals(Measure(n, PairLegs(e, p)), 2), v # <<>>
  PROVE  \A k \in 1 .. 4 : NearPeriod(GetStatistics(v)[k], e.period)
<1>. DEFINE T == e.period
            lo == T - (RowTime + RefreshTime - 1)
            hi == T + (RowTime - 1)
<1>1. T \in Nat /\ RowTime \in Nat /\ RefreshTime \in Nat
  BY Exposed
<1>2. v \in Seq(Int) /\ \A k \in 1 .. Len(v) : v[k] \in Int /\ Around(v[k], T, RowTime)
  BY IntervalsOfPair, Zenon
<1>3. \A k \in 1 .. Len(v) : lo <= v[k] /\ v[k] <= hi
  BY <1>2, Zenon DEF Around
<1>4. lo \in Int /\ hi \in Int
  BY <1>1
<1>5. \A k \in 1 .. 4 : /\ GetStatistics(v)[k] \in Int
                        /\ lo <= GetStatistics(v)[k] /\ GetStatistics(v)[k] <= hi
  <2>. HIDE DEF lo, hi
  <2>. QED
    BY <1>2, <1>3, <1>4, StatisticsWithin, Zenon
<1>. TAKE k \in 1 .. 4
<1>. DEFINE x == GetStatistics(v)[k]
<1>6. x \in Int /\ lo <= x /\ x <= hi
  BY <1>5
<1>. HIDE DEF x, T
<1>7. NearPeriod(x, T)
  BY <1>1, <1>6, AroundIsNear DEF Around
<1>. QED
  BY <1>7 DEF x, T

-----------------------------------------------------------------------------
(* A loop for a pair, in which any wait tells a refresh.                   *)
LEMMA LoopShows ==
  ASSUME LoopsSuit, NEW e \in Exposures, NEW p \in Int, NEW n \in Nat \ {0},
         NEW d, d = IF e.slow THEN LoopTime ELSE AccessTime
  PROVE  \E at, M : OfPair(Measure(n, PairLegs(e, p)), at, M, d, n, e, p, d)
<1>1. PairTime(e) = d
  <2>1. AccessTime + 0 = AccessTime
    BY Exposed
  <2>. QED
    BY <2>1 DEF PairTime, LoopTime
<1>2. PICK at, M, w : OfPair(Measure(n, PairLegs(e, p)), at, M, w, n, e, p, d)
  <2>1. d \in Nat /\ d <= d /\ d <= REFRESH_CYCLE_LOWER_BOUND
    BY <1>1, BoundsOfPair
  <2>. QED
    BY <1>1, <2>1, LoopOfPair, Zenon
<1>3. w = d
  BY <1>1, <1>2 DEF OfPair
<1>. QED
  BY <1>2, <1>3

(* A row of a loop for a pair takes the time of its accesses, and what it  *)
(* waits if it meets a refresh.                                            *)
LEMMA ColumnOfPair ==
  ASSUME LoopsSuit, NEW e \in Exposures, NEW p \in Int, NEW n \in Nat \ {0},
         NEW at, NEW M, NEW d, NEW h, OfPair(h, at, M, d, n, e, p, d)
  PROVE  /\ Column(h, 2) \in Seq(Int) /\ Len(Column(h, 2)) = n
         /\ \A i \in 1 .. n :
              /\ d <= Column(h, 2)[i] /\ Column(h, 2)[i] <= d + RefreshTime
              /\ i \notin Met(at, M, n) => Column(h, 2)[i] = d
<1>. DEFINE v == Column(h, 2)
<1>1. d \in Nat /\ RefreshTime \in Nat
  BY MeasurementAssumption DEF OfPair
<1>2. DOMAIN v = 1 .. n /\ v = [i \in 1 .. n |-> v[i]]
  BY DEF OfPair, Recorded, Column
<1>3. ASSUME NEW i \in 1 .. n
      PROVE  /\ v[i] \in Int /\ d <= v[i] /\ v[i] <= d + RefreshTime
             /\ i \notin Met(at, M, n) => v[i] = d
  <2>. DEFINE x == h[i][2]
  <2>1. x \in d .. d + RefreshTime /\ (x > d <=> Meeting(at, M, i))
    BY DEF OfPair, Recorded
  <2>2. v[i] = x
    BY DEF OfPair, Recorded, Column
  <2>3. i \in Met(at, M, n) <=> Meeting(at, M, i)
    BY DEF Met
  <2>. HIDE DEF x, v
  <2>4. x \in Int /\ d <= x /\ x <= d + RefreshTime /\ (~(x > d) => x = d)
    BY <1>1, <2>1
  <2>. QED
    BY <2>1, <2>2, <2>3, <2>4
<1>. HIDE DEF v
<1>4. v \in [1 .. n -> Int]
  BY <1>2, <1>3
<1>5. v \in Seq(Int) /\ Len(v) = n
  BY <1>4
<1>. QED
  BY <1>3, <1>5 DEF v

(* Rows without a refresh take w each.                                     *)
LEMMA QuietRowsTake ==
  ASSUME NEW n \in Nat, NEW M, NEW w \in Nat \ {0}, NEW at, Walks(at, M, w, n),
         NEW i \in 2 .. n + 1, NEW j \in i .. n + 1,
         \A k \in i .. j - 1 : ~Meeting(at, M, k)
  PROVE  at[j] = at[i] + (j - i) * w
<1>. DEFINE S == {k \in 0 .. n : i <= k + 1 /\ k + 1 <= j =>
                                  at[k + 1] = at[i] + ((k + 1) - i) * w}
<1>1. 0 \in S
  OBVIOUS
<1>2. \A k \in 0 .. n - 1 : k \in S => k + 1 \in S
  <2>. TAKE k \in 0 .. n - 1
  <2>. HAVE k \in S
  <2>. DEFINE l == k + 1
  <2>1. l \in 1 .. n /\ l \in 0 .. n /\ l + 1 \in 1 .. n + 1 /\ l \in 1 .. n + 1
        /\ i \in 1 .. n + 1
    OBVIOUS
  <2>2. at[l] \in Int /\ at[l + 1] \in Int /\ at[i] \in Int
    BY <2>1, Zenon DEF Walks
  <2>3. ASSUME i <= l + 1, l + 1 <= j PROVE at[l + 1] = at[i] + ((l + 1) - i) * w
    <3>1. CASE i = l + 1
      <4>1. ((l + 1) - i) * w = 0
        BY <3>1
      <4>. HIDE DEF l
      <4>. QED
        BY <2>2, <3>1, <4>1
    <3>2. CASE i # l + 1
      <4>1. i <= k + 1 /\ k + 1 <= j /\ l \in i .. j - 1 /\ 1 < l
        BY <2>1, <2>3, <3>2
      <4>2. at[l] = at[i] + (l - i) * w
        BY <4>1
      <4>3. at[l + 1] = at[l] + w
        BY <2>1, <4>1, Zenon DEF Walks
      <4>. DEFINE x == (l - i) * w
                  y == ((l + 1) - i) * w
      <4>4. y = x + w /\ x \in Int
        BY <2>1
      <4>. HIDE DEF x, y, l
      <4>5. at[l + 1] = at[i] + y
        BY <2>2, <4>2, <4>3, <4>4 DEF x
      <4>. QED
        BY <4>5 DEF y
    <3>. QED
      BY <3>1, <3>2
  <2>4. l \in S
    BY <2>1, <2>3
  <2>. QED
    BY <2>4 DEF l
<1>3. 0 .. n \subseteq S
  <2>. HIDE DEF S
  <2>. QED
    BY <1>1, <1>2, InductionTo
<1>4. j - 1 \in 0 .. n /\ i <= (j - 1) + 1 /\ (j - 1) + 1 = j
  OBVIOUS
<1>. QED
  BY <1>3, <1>4

(* A quotient is below what exceeds it as a product.                       *)
LEMMA QuotientBelow ==
  ASSUME NEW a \in Nat, NEW b \in Nat \ {0}, NEW c \in Nat, a < (c + 1) * b
  PROVE  a \div b <= c
<1>. DEFINE q == a \div b
            r == a % b
<1>1. q \in Nat /\ r \in 0 .. b - 1 /\ a = q * b + r
  BY DivMod, Zenon
<1>. HIDE DEF q, r
<1>2. q * b < (c + 1) * b
  <2>1. q * b \in Nat /\ (c + 1) * b \in Nat
    BY <1>1
  <2>. QED
    BY <1>1, <2>1
<1>3. q < c + 1
  BY <1>1, <1>2, Cancel
<1>. QED
  BY <1>1, <1>3 DEF q

(* Numbers that grow by d at least exceed the multiples of d.              *)
LEMMA GrowsBy ==
  ASSUME NEW m \in Nat, NEW q, \A k \in 1 .. m : q[k] \in Nat \ {0},
         NEW d \in Nat, \A k \in 1 .. m - 1 : q[k] + d <= q[k + 1],
         NEW k \in 1 .. m
  PROVE  (k - 1) * d + 1 <= q[k]
<1>. DEFINE S == {l \in 0 .. m : l >= 1 => (l - 1) * d + 1 <= q[l]}
<1>1. 0 \in S
  OBVIOUS
<1>2. \A l \in 0 .. m - 1 : l \in S => l + 1 \in S
  <2>. TAKE l \in 0 .. m - 1
  <2>. HAVE l \in S
  <2>. DEFINE j == l + 1
  <2>1. j \in 1 .. m /\ j \in 0 .. m /\ j - 1 = l
    OBVIOUS
  <2>2. l * d + 1 <= q[j]
    <3>1. CASE l = 0
      <4>1. l * d = 0
        BY <3>1
      <4>2. q[j] \in Nat \ {0}
        BY <2>1
      <4>. HIDE DEF j
      <4>. QED
        BY <4>1, <4>2
    <3>2. CASE l # 0
      <4>1. l \in 1 .. m - 1 /\ l \in 1 .. m
        BY <3>2
      <4>2. q[l] + d <= q[j] /\ q[l] \in Nat /\ q[j] \in Nat
        BY <2>1, <4>1
      <4>3. (l - 1) * d + 1 <= q[l]
        BY <4>1
      <4>4. l * d = (l - 1) * d + d /\ (l - 1) * d \in Int
        OBVIOUS
      <4>. DEFINE x == (l - 1) * d
                  y == l * d
      <4>. HIDE DEF j, x, y
      <4>5. y + 1 <= q[j]
        BY <4>2, <4>3, <4>4 DEF x, y
      <4>. QED
        BY <4>5 DEF y
    <3>. QED
      BY <3>1, <3>2
  <2>3. j \in S
    BY <2>1, <2>2
  <2>. QED
    BY <2>3 DEF j
<1>3. 0 .. m \subseteq S
  <2>. HIDE DEF S
  <2>. QED
    BY <1>1, <1>2, InductionTo
<1>. QED
  BY <1>3

-----------------------------------------------------------------------------
(* The rows of a loop that meet a refresh are few, if the accesses are     *)
(* fast: so many rows come between two of them as fit between two          *)
(* refreshes.                                                              *)
LEMMA HitsAreFew ==
  ASSUME LoopsSuit, NEW e \in Exposures, ~e.slow, NEW p \in Int, NEW n \in Nat \ {0},
         NEW at, NEW M, NEW h, OfPair(h, at, M, AccessTime, n, e, p, AccessTime)
  PROVE  /\ Cardinality(Met(at, M, n)) \in Nat
         /\ Cardinality(Met(at, M, n)) <= MostHits(n, e.period)
         /\ MostHits(n, e.period) \in Nat \ {0}
<1>. DEFINE T == e.period
            s == Stagger % T
            g == Closest(T)
            m == Cardinality(Met(at, M, n))
            w == FlushTime + AccessTime
            R == RefreshTime
            room == g - R
            d == room \div w
<1>1. /\ w \in Nat \ {0} /\ R \in Nat /\ RowTime \in Nat \ {0} /\ w <= RowTime
      /\ T \in Periods
  BY Exposed DEF RowTime, LoopTime
<1>2. g \in Nat \ {0} /\ RowTime + R <= g
  <2>1. Suits(T, s, g)
    BY <1>1, PeriodSuits
  <2>. HIDE DEF T, s, g
  <2>. QED
    BY <2>1 DEF Suits
<1>3. /\ M \in SUBSET Int /\ SpacedBy(M, w + R) /\ SpacedBy(M, g)
      /\ Walks(at, M, w, n)
  BY DEF OfPair, Recorded
<1>. HIDE DEF w
<1>. DEFINE q == InOrder(Met(at, M, n))
<1>4. PICK u : Meetings(at, M, w, n, q, u)
  BY <1>1, <1>3, RowsMeet
<1>. HIDE DEF q
<1>5. /\ m \in Nat /\ q \in [1 .. m -> 1 .. n] /\ u \in [1 .. m -> M]
      /\ \A k \in 1 .. m : at[q[k]] <= u[k] /\ u[k] < at[q[k] + 1]
      /\ \A k \in 1 .. m - 1 :
           /\ q[k] < q[k + 1]
           /\ \A i \in q[k] + 1 .. q[k + 1] - 1 : ~Meeting(at, M, i)
           /\ u[k] + w + R <= u[k + 1]
  BY <1>4 DEF Meetings
<1>. HIDE DEF T, s, g, m
<1>6. room \in Nat /\ d \in Nat \ {0}
  <2>1. room \in Nat /\ w <= room
    BY <1>1, <1>2
  <2>2. 1 * w <= room
    BY <1>1, <2>1
  <2>. HIDE DEF room
  <2>3. d \in Nat /\ 1 <= d
    BY <1>1, <2>1, <2>2, AverageTells
  <2>. HIDE DEF d
  <2>. QED
    BY <2>1, <2>3
<1>7. ASSUME NEW k \in 1 .. m - 1 PROVE q[k] + d <= q[k + 1]
  <2>. DEFINE i == q[k]
              j == q[k + 1]
              x == u[k]
              y == u[k + 1]
  <2>1. k \in 1 .. m /\ k + 1 \in 1 .. m
    BY <1>5
  <2>2. /\ i \in 1 .. n /\ j \in 1 .. n /\ i < j /\ x \in M /\ y \in M
        /\ at[i] <= x /\ x < at[i + 1] /\ at[j] <= y /\ y < at[j + 1]
        /\ x + w + R <= y
        /\ \A l \in i + 1 .. j - 1 : ~Meeting(at, M, l)
    BY <1>5, <2>1
  <2>. HIDE DEF i, j, x, y
  <2>. DEFINE b == i + 1
  <2>3. b \in 2 .. n + 1 /\ j \in b .. n + 1 /\ j # 1 /\ b \in 1 .. n + 1 /\ j \in 1 .. n + 1
    BY <2>2
  <2>4. /\ at[b] \in Int /\ at[j] \in Int
        /\ at[b] <= x + w + R /\ y < at[j] + w
    <3>1. at[b] \in Int /\ at[j] \in Int
      BY <1>3, <2>3, Zenon DEF Walks
    <3>2. at[b] <= x + w + R
      BY <1>3, <2>2 DEF Walks
    <3>3. y < Start(at, j) + w
      BY <1>3, <2>2 DEF Walks
    <3>. HIDE DEF b
    <3>. QED
      BY <2>3, <3>1, <3>2, <3>3 DEF Start
  <2>5. at[j] = at[b] + (j - b) * w
    <3>1. \A l \in b .. j - 1 : ~Meeting(at, M, l)
      BY <2>2
    <3>. HIDE DEF b
    <3>. QED
      BY <1>1, <1>3, <2>3, <3>1, QuietRowsTake
  <2>6. x \in Int /\ y \in Int /\ x < y
    <3>. HIDE DEF b
    <3>. QED
      BY <1>1, <1>3, <2>2
  <2>7. x + g <= y
    BY <1>3, <2>2, <2>6 DEF SpacedBy
  <2>. DEFINE c == j - i
              z == (j - b) * w
  <2>8. c \in Nat /\ z \in Int /\ (c + 1) * w = z + w + w
    <3>1. c \in Nat
      BY <2>2
    <3>2. j - b = c - 1
      BY <2>2
    <3>. HIDE DEF c, b
    <3>3. z = (c - 1) * w
      BY <3>2
    <3>. HIDE DEF z
    <3>4. z \in Int /\ (c + 1) * w = z + w + w
      BY <1>1, <3>1, <3>3
    <3>. QED
      BY <3>1, <3>4
  <2>. HIDE DEF c, z
  <2>9. room < (c + 1) * w
    <3>1. at[j] = at[b] + z
      BY <2>5 DEF z
    <3>. HIDE DEF b
    <3>2. room < z + w + w
      BY <1>1, <1>2, <2>4, <2>6, <2>7, <2>8, <3>1
    <3>. HIDE DEF room
    <3>. QED
      BY <2>8, <3>2
  <2>. HIDE DEF room, b
  <2>10. d <= c
    BY <1>1, <1>6, <2>8, <2>9, QuotientBelow
  <2>. HIDE DEF d
  <2>11. i + d <= j
    BY <1>6, <2>2, <2>10 DEF c
  <2>. QED
    BY <2>11 DEF i, j
<1>. HIDE DEF room
<1>8. MostHits(n, T) = 1 + (n - 1) \div d
  BY DEF MostHits, d, room, w, g
<1>. HIDE DEF d
<1>9. n - 1 \in Nat /\ (n - 1) \div d \in Nat
  <2>1. n - 1 \in Nat
    OBVIOUS
  <2>. QED
    BY <1>6, <2>1, DivMod, Zenon
<1>10. m <= 1 + (n - 1) \div d
  <2>1. CASE m = 0
    BY <1>9, <2>1
  <2>2. CASE m # 0
    <3>1. m \in 1 .. m /\ m - 1 \in Nat
      BY <1>5, <2>2
    <3>2. \A k \in 1 .. m : q[k] \in Nat \ {0}
      BY <1>5
    <3>3. (m - 1) * d + 1 <= q[m]
      BY <1>5, <1>6, <1>7, <3>1, <3>2, GrowsBy, Zenon
    <3>4. q[m] \in 1 .. n
      BY <1>5, <3>1
    <3>. DEFINE c == m - 1
                b == n - 1
    <3>5. c * d <= b /\ c \in Nat /\ b \in Nat
      <4>1. c * d + 1 <= q[m] /\ c \in Nat /\ c * d \in Nat
        BY <1>6, <3>1, <3>3
      <4>. HIDE DEF c
      <4>. QED
        BY <3>4, <4>1
    <3>. HIDE DEF c, b
    <3>6. d * c <= b
      BY <1>6, <3>5
    <3>7. c <= b \div d
      BY <1>6, <3>5, <3>6, AverageTells
    <3>8. b \div d \in Nat
      BY <1>9 DEF b
    <3>9. m <= 1 + b \div d
      <4>. DEFINE f == b \div d
      <4>. HIDE DEF f
      <4>1. f \in Nat /\ c <= f
        BY <3>7, <3>8 DEF f
      <4>2. m <= 1 + f
        BY <1>5, <4>1 DEF c
      <4>. QED
        BY <4>2 DEF f
    <3>. QED
      BY <3>9 DEF b
  <2>. QED
    BY <2>1, <2>2
<1>11. 1 + (n - 1) \div d \in Nat \ {0}
  <2>. DEFINE f == (n - 1) \div d
  <2>. HIDE DEF f
  <2>1. f \in Nat
    BY <1>9 DEF f
  <2>2. 1 + f \in Nat \ {0}
    BY <2>1
  <2>. QED
    BY <2>2 DEF f
<1>. QED
  BY <1>5, <1>8, <1>10, <1>11 DEF m, T

(* The values that a loop of fast accesses shows at its middle places.     *)
LEMMA MostAreFast ==
  ASSUME LoopsSuit, NEW e \in Exposures, ~e.slow, NEW p \in Int, NEW n \in Nat \ {0},
         NEW at, NEW M, NEW h, OfPair(h, at, M, AccessTime, n, e, p, AccessTime),
         NEW k \in 1 .. n, k + MostHits(n, e.period) <= n
  PROVE  Sorted(Column(h, 2))[k] <= AccessTime
<1>. DEFINE v == Column(h, 2)
            H == Met(at, M, n)
            f == MostHits(n, e.period)
            m == Cardinality(H)
            F == (1 .. n) \ H
<1>1. /\ v \in Seq(Int) /\ Len(v) = n
      /\ \A i \in 1 .. n : i \notin H => v[i] = AccessTime
  BY ColumnOfPair
<1>2. AccessTime \in Nat
  BY Exposed
<1>3. m \in Nat /\ m <= f /\ f \in Nat
  BY HitsAreFew
<1>4. H \subseteq 1 .. n /\ IsFiniteSet(1 .. n) /\ Cardinality(1 .. n) = n
  <2>1. H \subseteq 1 .. n
    BY DEF Met
  <2>2. 1 \in Int /\ n \in Int
    OBVIOUS
  <2>. QED
    BY <2>1, <2>2, FS_Interval
<1>. HIDE DEF v, H, f
<1>5. Cardinality(F) = n - m
  <2>1. H = (1 .. n) \cap H
    BY <1>4, Zenon
  <2>2. Cardinality((1 .. n) \ H)
          = Cardinality(1 .. n) - Cardinality((1 .. n) \cap H)
    BY <1>4, FS_Difference, Zenon
  <2>. QED
    BY <1>4, <2>1, <2>2, Zenon
<1>6. F \subseteq AtMost(v, AccessTime)
  <2>1. \A i \in F : i \in 1 .. n /\ v[i] = AccessTime
    BY <1>1
  <2>2. DOMAIN v = 1 .. n
    BY <1>1
  <2>. QED
    BY <1>2, <2>1, <2>2 DEF AtMost
<1>. HIDE DEF F, m
<1>7. /\ Cardinality(F) <= Cardinality(AtMost(v, AccessTime))
      /\ Cardinality(AtMost(v, AccessTime)) \in Nat
  BY <1>1, <1>6, PlacesAreFinite, FS_Subset
<1>8. k <= Cardinality(AtMost(v, AccessTime))
  <2>1. k + f <= n
    BY DEF f
  <2>. QED
    BY <1>3, <1>5, <1>7, <2>1
<1>9. k \in 1 .. Len(v) /\ AccessTime \in Int
  BY <1>1, <1>2
<1>10. Sorted(v)[k] <= AccessTime
  BY <1>1, <1>8, <1>9, SortedBelow
<1>. QED
  BY <1>10 DEF v

(* The median of a fast pair is below the time of a slow row: more than    *)
(* half of the rows take no more than their accesses, or exactly a half    *)
(* and the refresh weighs less than two conflicts.                         *)
LEMMA FastMedian ==
  ASSUME LoopsSuit, NEW e \in Exposures, ~e.slow, NEW p \in Int, NEW n \in Nat \ {0},
         FewHits(n, e.period)
  PROVE  /\ GetMedian(Column(Measure(n, PairLegs(e, p)), 2)) \in Int
         /\ GetMedian(Column(Measure(n, PairLegs(e, p)), 2)) < LoopTime
<1>. DEFINE h == Measure(n, PairLegs(e, p))
            v == Column(h, 2)
            f == MostHits(n, e.period)
            j == n \div 2
            a == Sorted(v)[j]
            b == Sorted(v)[j + 1]
<1>1. PICK at, M : OfPair(h, at, M, AccessTime, n, e, p, AccessTime)
  BY LoopShows, Zenon
<1>. HIDE DEF h
<1>2. /\ v \in Seq(Int) /\ Len(v) = n /\ v # <<>>
      /\ \A i \in 1 .. n : AccessTime <= v[i] /\ v[i] <= AccessTime + RefreshTime
  <2>1. /\ v \in Seq(Int) /\ Len(v) = n
        /\ \A i \in 1 .. n : AccessTime <= v[i] /\ v[i] <= AccessTime + RefreshTime
    BY <1>1, ColumnOfPair
  <2>. HIDE DEF v
  <2>. QED
    BY <2>1
<1>3. /\ AccessTime \in Nat /\ RefreshTime \in Nat /\ ConflictTime \in Nat
      /\ LoopTime = AccessTime + ConflictTime /\ 0 < ConflictTime
  BY Exposed DEF LoopTime, LoopsSuit
<1>5. f \in Nat \ {0}
  BY <1>1, HitsAreFew
<1>6. 2 * f < n \/ (2 * f = n /\ RefreshTime < 2 * ConflictTime)
  BY DEF FewHits
<1>7. \A k \in 1 .. n : k + f <= n => Sorted(v)[k] <= AccessTime
  BY <1>1, MostAreFast
<1>8. \A k \in 1 .. n : Sorted(v)[k] \in Int /\ Sorted(v)[k] <= AccessTime + RefreshTime
  <2>. DEFINE lo == AccessTime
              hi == AccessTime + RefreshTime
  <2>1. lo \in Int /\ hi \in Int
    BY <1>3
  <2>2. \A i \in 1 .. Len(v) : lo <= v[i] /\ v[i] <= hi
    <3>. HIDE DEF v
    <3>. QED
      BY <1>2, <1>3
  <2>. HIDE DEF v, lo, hi
  <2>3. \A k \in 1 .. Len(v) : Sorted(v)[k] \in Int /\ Sorted(v)[k] <= hi
    BY <1>2, <2>1, <2>2, SortedWithin
  <2>. QED
    BY <1>2, <2>3 DEF hi
<1>. HIDE DEF f
<1>9. CASE n % 2 = 0
  <2>1. j \in 1 .. n /\ j + 1 \in 1 .. n /\ j + j = n
    <3>1. n \div 2 \in 1 .. n /\ n \div 2 + 1 \in 1 .. n
      BY <1>9, Middle
    <3>2. n = 2 * (n \div 2) + (n % 2)
      OBVIOUS
    <3>. QED
      BY <1>9, <3>1, <3>2
  <2>2. GetMedian(v) = (a + b) \div 2
    <3>. HIDE DEF v
    <3>. QED
      BY <1>2, <1>9 DEF GetMedian
  <2>. HIDE DEF v, j
  <2>3. a \in Int /\ b \in Int /\ b <= AccessTime + RefreshTime
    BY <1>8, <2>1
  <2>4. a <= AccessTime
    <3>1. j + f <= n
      BY <1>5, <1>6, <2>1
    <3>. QED
      BY <1>7, <2>1, <3>1
  <2>5. 2 * f < n => b <= AccessTime
    <3>1. 2 * f < n => (j + 1) + f <= n
      BY <1>5, <2>1
    <3>. QED
      BY <1>7, <2>1, <3>1
  <2>. HIDE DEF a, b
  <2>6. a + b \in Int /\ a + b < 2 * LoopTime /\ LoopTime \in Int
    BY <1>3, <1>6, <2>3, <2>4, <2>5
  <2>7. \A x, y \in Int : x < 2 * y => x \div 2 \in Int /\ x \div 2 < y
    OBVIOUS
  <2>8. (a + b) \div 2 \in Int /\ (a + b) \div 2 < LoopTime
    BY <2>6, <2>7
  <2>. QED
    BY <2>2, <2>8 DEF v, h
<1>10. CASE n % 2 # 0
  <2>1. j + 1 \in 1 .. n /\ (j + j) + 1 = n
    <3>1. n \div 2 + 1 \in 1 .. n
      BY <1>10, Middle
    <3>2. n = 2 * (n \div 2) + (n % 2) /\ n % 2 = 1
      BY <1>10
    <3>. QED
      BY <3>1, <3>2
  <2>2. GetMedian(v) = b
    <3>. HIDE DEF v
    <3>. QED
      BY <1>2, <1>10 DEF GetMedian
  <2>. HIDE DEF v, j
  <2>3. b \in Int
    BY <1>8, <2>1
  <2>4. b <= AccessTime
    <3>1. 2 * f <= n /\ f \in Nat /\ j \in Nat
      <4>1. f \in Nat /\ n \in Nat
        BY <1>5
      <4>2. 2 * f <= n
        BY <1>6, <4>1
      <4>3. j \in Nat
        BY <4>1 DEF j
      <4>. QED
        BY <4>1, <4>2, <4>3
    <3>2. f <= j
      BY <2>1, <3>1
    <3>3. (j + 1) + f <= n
      BY <2>1, <3>1, <3>2
    <3>. QED
      BY <1>7, <2>1, <3>3
  <2>. HIDE DEF b
  <2>5. b < LoopTime
    BY <1>3, <2>3, <2>4
  <2>. QED
    BY <2>2, <2>3, <2>5 DEF v, h
<1>. QED
  BY <1>9, <1>10

(* The median of a slow pair is not.                                       *)
LEMMA SlowMedian ==
  ASSUME LoopsSuit, NEW e \in Exposures, e.slow, NEW p \in Int, NEW n \in Nat \ {0}
  PROVE  /\ GetMedian(Column(Measure(n, PairLegs(e, p)), 2)) \in Int
         /\ LoopTime <= GetMedian(Column(Measure(n, PairLegs(e, p)), 2))
<1>. DEFINE h == Measure(n, PairLegs(e, p))
            v == Column(h, 2)
            hi == LoopTime + RefreshTime
<1>1. PICK at, M : OfPair(h, at, M, LoopTime, n, e, p, LoopTime)
  BY LoopShows, Zenon
<1>. HIDE DEF h
<1>2. /\ v \in Seq(Int) /\ Len(v) = n
      /\ \A i \in 1 .. n : LoopTime <= v[i] /\ v[i] <= LoopTime + RefreshTime
  BY <1>1, ColumnOfPair
<1>3. LoopTime \in Int /\ RefreshTime \in Nat /\ hi \in Int
  BY Exposed
<1>. HIDE DEF v
<1>4. \A i \in 1 .. Len(v) : LoopTime <= v[i] /\ v[i] <= hi
  BY <1>2, <1>3
<1>5. v # <<>>
  BY <1>2
<1>. HIDE DEF hi
<1>6. GetMedian(v) \in Int /\ LoopTime <= GetMedian(v)
  BY <1>2, <1>3, <1>4, <1>5, MedianWithin, Zenon
<1>. QED
  BY <1>6 DEF v, h

(* Numbers of which none exceeds the next.                                 *)
LEMMA Monotone ==
  ASSUME NEW n \in Nat, NEW f, \A i \in 1 .. n + 1 : f[i] \in Int,
         \A i \in 1 .. n : f[i] <= f[i + 1],
         NEW i \in 1 .. n + 1, NEW j \in i .. n + 1
  PROVE  f[i] <= f[j]
<1>. DEFINE S == {k \in 0 .. n : i <= k + 1 => f[i] <= f[k + 1]}
<1>1. 0 \in S
  <2>1. i <= 0 + 1 => i = 1
    OBVIOUS
  <2>2. f[i] \in Int
    OBVIOUS
  <2>3. i <= 0 + 1 => f[i] <= f[0 + 1]
    BY <2>1, <2>2
  <2>. QED
    BY <2>3
<1>2. \A k \in 0 .. n - 1 : k \in S => k + 1 \in S
  <2>. TAKE k \in 0 .. n - 1
  <2>. HAVE k \in S
  <2>. DEFINE l == k + 1
  <2>1. l \in 1 .. n /\ l \in 0 .. n /\ l + 1 \in 1 .. n + 1 /\ l \in 1 .. n + 1
    OBVIOUS
  <2>2. f[l] \in Int /\ f[l + 1] \in Int /\ f[i] \in Int /\ f[l] <= f[l + 1]
    BY <2>1
  <2>3. i <= l + 1 => f[i] <= f[l + 1]
    <3>1. CASE i = l + 1
      <4>. HIDE DEF l
      <4>. QED
        BY <2>2, <3>1
    <3>2. CASE i # l + 1
      <4>1. i <= l + 1 => f[i] <= f[l]
        BY <3>2
      <4>. HIDE DEF l
      <4>. QED
        BY <2>2, <4>1
    <3>. QED
      BY <3>1, <3>2
  <2>4. l \in S
    BY <2>1, <2>3
  <2>. QED
    BY <2>4 DEF l
<1>3. 0 .. n \subseteq S
  <2>. HIDE DEF S
  <2>. QED
    BY <1>1, <1>2, InductionTo
<1>4. j - 1 \in 0 .. n /\ i <= (j - 1) + 1 /\ (j - 1) + 1 = j
  OBVIOUS
<1>. QED
  BY <1>3, <1>4, Zenon

-----------------------------------------------------------------------------
(* The legs of a fine measurement.                                         *)
FineLegs(e, p) ==
  SingleLegs(e, p) \o SingleLegs(e, IF e.apart THEN p + Stagger ELSE p)

(* When the second leg of a row starts, after the flushes of a row, and    *)
(* which refresh it meets: one that is over before the leg of a later row. *)
Seconds(h, start, M, n) ==
  /\ DOMAIN h = 1 .. n /\ start \in [1 .. n -> Int]
  /\ \A i \in 1 .. n :
       /\ start[i] = h[i][1] - h[1][1] + h[i][2]
       /\ h[i][3] > REFRESH_CYCLE_LOWER_BOUND =>
            \E x \in M : /\ start[i] + FlushTime - RefreshTime < x
                         /\ x < start[i] + FlushTime + AccessTime
                         /\ \A j \in i + 1 .. n :
                              x + RefreshTime < start[j] + FlushTime

(* The second legs of a fine measurement are such rows.                    *)
LEMMA SecondLegs ==
  ASSUME LoopsSuit, NEW e \in Exposures, NEW p \in Int, NEW n \in Nat \ {0}
  PROVE  \E start, M, r : /\ Seconds(Measure(n, FineLegs(e, p)), start, M, n)
                          /\ r \in Int /\ OneRank(M, r, e.period)
<1>. DEFINE r == IF e.apart THEN p + Stagger ELSE p
            one == [time |-> AccessTime, phases |-> {p}, period |-> e.period]
            two == [time |-> AccessTime, phases |-> {r}, period |-> e.period]
            legs == <<one, two>>
            h == Measure(n, legs)
            M == Moments(two)
            A == AccessTime
            F == FlushTime
            R == RefreshTime
<1>1. /\ A \in Nat \ {0} /\ e.period \in Nat \ {0} /\ R \in Nat /\ F \in Nat
      /\ A <= REFRESH_CYCLE_LOWER_BOUND /\ REFRESH_CYCLE_LOWER_BOUND \in Nat
  <2>1. /\ LoopTime = A + ConflictTime /\ LoopTime <= REFRESH_CYCLE_LOWER_BOUND
        /\ REFRESH_CYCLE_LOWER_BOUND \in Nat
    BY MeasurementAssumption DEF LoopTime, LoopsSuit
  <2>. QED
    BY <2>1, Exposed
<1>2. r \in Int
  BY MeasurementAssumption
<1>3. FineLegs(e, p) = legs
  <2>1. SingleLegs(e, p) = <<one>> /\ SingleLegs(e, r) = <<two>>
    BY Zenon DEF SingleLegs
  <2>. HIDE DEF one, two
  <2>2. ASSUME NEW x, NEW y PROVE <<x>> \o <<y>> = <<x, y>>
    <3>. DEFINE X == {x, y}
                a == <<x>>
                b == <<y>>
    <3>1. /\ a \in Seq(X) /\ Len(a) = 1 /\ a[1] = x
          /\ b \in Seq(X) /\ Len(b) = 1 /\ b[1] = y
      OBVIOUS
    <3>2. /\ <<x, y>> \in Seq(X) /\ Len(<<x, y>>) = 2
          /\ <<x, y>>[1] = x /\ <<x, y>>[2] = y
      OBVIOUS
    <3>. HIDE DEF X, a, b
    <3>3. /\ a \o b \in Seq(X) /\ Len(a \o b) = 2
          /\ \A i \in 1 .. 2 : (a \o b)[i] = IF i <= 1 THEN a[i] ELSE b[i - 1]
      BY <3>1, ConcatProperties
    <3>4. (a \o b)[1] = x /\ (a \o b)[2] = y
      <4>1. 1 \in 1 .. 2 /\ 2 \in 1 .. 2 /\ 1 <= 1 /\ ~(2 <= 1) /\ 2 - 1 = 1
        OBVIOUS
      <4>. QED
        BY <3>1, <3>3, <4>1
    <3>. DEFINE c == a \o b
                d == <<x, y>>
    <3>5. /\ c \in Seq(X) /\ d \in Seq(X) /\ Len(c) = 2 /\ Len(d) = 2
          /\ c[1] = d[1] /\ c[2] = d[2]
      BY <3>2, <3>3, <3>4
    <3>. HIDE DEF c, d
    <3>6. c = d
      <4>1. \A i \in 1 .. 2 : c[i] = d[i]
        <5>1. \A i \in 1 .. 2 : i = 1 \/ i = 2
          OBVIOUS
        <5>. QED
          BY <3>5, <5>1
      <4>. QED
        BY <3>5, <4>1, SeqEqual
    <3>. QED
      BY <3>6 DEF a, b, c, d
  <2>. QED
    BY <2>1, <2>2, Zenon DEF FineLegs
<1>4. two.time = A /\ one.time = A /\ two.phases = {r} /\ two.period = e.period
  OBVIOUS
<1>. HIDE DEF one, two, r
<1>5. Len(legs) = 2 /\ legs[1] = one /\ legs[2] = two
  OBVIOUS
<1>. HIDE DEF legs
<1>6. IsLoop(legs)
  BY <1>1, <1>4, <1>5 DEF IsLoop
<1>7. PICK at : Starts(at, h, n, legs)
  BY <1>6, LoopStarts
<1>. HIDE DEF h
<1>8. OneRank(M, r, e.period)
  BY <1>1, <1>2, <1>4, PhaseOfOne
<1>. DEFINE lead(i) == LegTime(at[i] + F, one)
            start == [i \in 1 .. n |-> at[i] + lead(i)]
            over(i, x) == /\ start[i] + F - R < x /\ x < start[i] + F + A
                          /\ x + R < at[i + 1]
<1>9. /\ DOMAIN h = 1 .. n /\ at[1] = 0
      /\ \A i \in 1 .. n + 1 : at[i] \in Nat
  BY <1>7 DEF Starts
<1>10. ASSUME NEW i \in 1 .. n
       PROVE  /\ lead(i) \in Nat /\ start[i] \in Int /\ at[i] <= start[i]
              /\ start[i] = h[i][1] - h[1][1] + h[i][2]
              /\ at[i] <= at[i + 1]
              /\ h[i][3] > REFRESH_CYCLE_LOWER_BOUND => \E x \in M : over(i, x)
  <2>. DEFINE b == at[i]
              l == lead(i)
              s == b + F + l
              t == LegTime(s, two)
  <2>1. i \in 1 .. n + 1 /\ i + 1 \in 1 .. n + 1 /\ 1 \in 1 .. n
    OBVIOUS
  <2>2. b \in Nat /\ b + F \in Nat
    BY <1>1, <1>9, <2>1
  <2>3. l \in Nat
    BY <1>1, <1>4, <2>2, LegTakes
  <2>4. start[i] = b + l
    OBVIOUS
  <2>5. h[i] = Row(b + F, legs) /\ at[i + 1] = Total(h[i]) /\ h[1] = Row(at[1] + F, legs)
    BY <1>7, <2>1 DEF Starts
  <2>6. Row(b + F, legs) = <<b + F, l, t>> /\ Total(Row(b + F, legs)) = b + F + l + t
    BY <1>5, <1>6, <2>2, RowTakes
  <2>7. h[1][1] = F
    <3>1. at[1] + F = F /\ F \in Nat
      BY <1>1, <1>9
    <3>2. Row(F, legs) = <<F, LegTime(F, one), LegTime(F + LegTime(F, one), two)>>
      BY <1>5, <1>6, <3>1, RowTakes
    <3>. QED
      BY <2>5, <3>1, <3>2
  <2>8. h[i][1] = b + F /\ h[i][2] = l /\ h[i][3] = t /\ at[i + 1] = b + F + l + t
    BY <2>5, <2>6
  <2>9. s \in Nat
    BY <1>1, <2>2, <2>3
  <2>10. PICK wait : LongestWait(s, M, A, wait) /\ t = A + wait
    BY <1>1, <1>4, <2>9, LegTakes
  <2>11. /\ wait \in 0 .. R
         /\ wait > 0 => \E x \in M : /\ s - R < x /\ x < s + A
                                     /\ wait = Left(s, x)
    BY <2>10 DEF LongestWait, InReach
  <2>. HIDE DEF l, t, b, start, M
  <2>12. s = b + F + l
    OBVIOUS
  <2>. HIDE DEF s
  <2>13. /\ lead(i) \in Nat /\ start[i] \in Int /\ at[i] <= start[i]
         /\ start[i] = h[i][1] - h[1][1] + h[i][2]
    BY <1>1, <2>2, <2>3, <2>4, <2>7, <2>8 DEF l, b
  <2>14. at[i] <= at[i + 1] /\ at[i + 1] = s + A + wait /\ s = start[i] + F
    BY <1>1, <2>2, <2>3, <2>4, <2>8, <2>9, <2>10, <2>11, <2>12 DEF b
  <2>15. ASSUME h[i][3] > REFRESH_CYCLE_LOWER_BOUND
         PROVE  \E x \in M : over(i, x)
    <3>1. wait > 0
      <4>1. t > REFRESH_CYCLE_LOWER_BOUND
        BY <2>8, <2>15
      <4>. QED
        BY <1>1, <2>10, <2>11, <4>1
    <3>2. PICK x \in M : s - R < x /\ x < s + A /\ wait = Left(s, x)
      BY <2>11, <3>1
    <3>3. x \in Int
      BY DEF M, Moments
    <3>4. x + R < s + A + wait
      <4>1. CASE x < s
        <5>1. wait = x + R - s
          BY <3>2, <4>1 DEF Left
        <5>. QED
          BY <1>1, <2>9, <3>3, <5>1
      <4>2. CASE ~(x < s)
        <5>1. wait = R
          BY <3>2, <4>2 DEF Left
        <5>. QED
          BY <1>1, <2>9, <3>2, <3>3, <5>1
      <4>. QED
        BY <4>1, <4>2
    <3>5. start[i] + F = s /\ at[i + 1] = s + A + wait
      BY <2>14
    <3>. DEFINE c == start[i] + F
    <3>6. c - R < x /\ x < c + A
      <4>1. s - R < x /\ x < s + A
        BY <3>2
      <4>2. c = s
        BY <3>5
      <4>. HIDE DEF c
      <4>. QED
        BY <4>1, <4>2
    <3>7. x + R < at[i + 1]
      BY <3>4, <3>5
    <3>8. start[i] + F - R < x
      <4>. DEFINE st == start[i]
      <4>1. st \in Int /\ F \in Int /\ R \in Int
        BY <1>1, <2>13
      <4>2. (st + F) - R < x
        BY <3>6
      <4>3. st + F - R < x
        <5>. HIDE DEF st
        <5>. QED
          BY <1>1, <3>3, <4>1, <4>2
      <4>. QED
        BY <4>3
    <3>9. over(i, x)
      BY <3>6, <3>7, <3>8
    <3>. HIDE DEF over
    <3>. QED
      BY <3>2, <3>9
  <2>. QED
    BY <2>13, <2>14, <2>15
<1>11. start \in [1 .. n -> Int]
  <2>1. \A i \in 1 .. n : at[i] + lead(i) \in Int
    BY <1>10
  <2>. HIDE DEF lead
  <2>. QED
    BY <2>1
<1>. HIDE DEF lead, start, M
<1>12. ASSUME NEW i \in 1 .. n, NEW x \in M, over(i, x), NEW j \in i + 1 .. n
       PROVE  x + R < start[j] + F
  <2>1. i + 1 \in 1 .. n + 1 /\ j \in i + 1 .. n + 1 /\ j \in 1 .. n + 1 /\ j \in 1 .. n
    OBVIOUS
  <2>2. at[i + 1] <= at[j]
    <3>1. \A k \in 1 .. n + 1 : at[k] \in Int
      BY <1>9
    <3>2. \A k \in 1 .. n : at[k] <= at[k + 1]
      BY <1>10
    <3>. QED
      BY <2>1, <3>1, <3>2, Monotone, Zenon
  <2>3. /\ at[i + 1] \in Nat /\ at[j] \in Nat /\ at[j] <= start[j] /\ start[j] \in Int
        /\ x \in Int
    BY <1>9, <1>10, <2>1 DEF M, Moments
  <2>. QED
    BY <1>1, <1>12, <2>2, <2>3
<1>13. Seconds(h, start, M, n)
  <2>1. \A i \in 1 .. n :
          h[i][3] > REFRESH_CYCLE_LOWER_BOUND =>
            \E x \in M : /\ start[i] + F - R < x /\ x < start[i] + F + A
                         /\ \A j \in i + 1 .. n : x + R < start[j] + F
    BY <1>10, <1>12, Zenon
  <2>. QED
    BY <1>9, <1>10, <1>11, <2>1, Zenon DEF Seconds
<1>. QED
  BY <1>2, <1>3, <1>8, <1>13 DEF h

(* So no interval between them is shorter than a period, but for a row and *)
(* a refresh.                                                              *)
LEMMA FineIntervals ==
  ASSUME LoopsSuit, NEW e \in Exposures, NEW p \in Int, NEW n \in Nat \ {0},
         NEW v, v = Intervals(Measure(n, FineLegs(e, p)), 3)
  PROVE  v \in Seq(Int) /\ \A k \in 1 .. Len(v) : v[k] > e.period - (RowTime + RefreshTime)
<1>. DEFINE h == Measure(n, FineLegs(e, p))
            T == e.period
            H == Standing(h, 3)
            q == InOrder(H)
            m == Cardinality(H)
            A == AccessTime
            F == FlushTime
            R == RefreshTime
<1>1. /\ T \in Nat \ {0} /\ A \in Nat \ {0} /\ RowTime \in Nat \ {0}
      /\ R \in Nat /\ F \in Nat /\ A <= RowTime
  BY Exposed DEF LoopTime, RowTime
<1>2. PICK start, M, r : Seconds(h, start, M, n) /\ r \in Int /\ OneRank(M, r, T)
  BY SecondLegs
<1>. HIDE DEF h, T
<1>3. DOMAIN h = 1 .. n /\ start \in [1 .. n -> Int]
  BY <1>2 DEF Seconds
<1>4. IntervalsOf(v, H, start)
  <2>1. \A i \in 1 .. n :
          start[i] = h[i][1] - h[1][1] + (IF 3 = 3 THEN h[i][2] ELSE 0)
    BY <1>2 DEF Seconds
  <2>. HIDE DEF H
  <2>. QED
    BY <1>3, <2>1, IntervalsAre, Zenon DEF h, H
<1>5. H \in SUBSET (1 .. n)
  BY <1>3 DEF Standing
<1>6. /\ m \in Nat /\ q \in [1 .. m -> H]
      /\ \A k \in 1 .. m - 1 : q[k] < q[k + 1]
  <2>. HIDE DEF H
  <2>. QED
    BY <1>5, InOrderEnumerates, Zenon
<1>7. v \in Seq(Int) /\ Len(v) = IF m = 0 THEN 0 ELSE m - 1
  BY <1>4 DEF IntervalsOf
<1>8. \A k \in 1 .. m - 1 : v[k] = start[q[k + 1]] - start[q[k]]
  BY <1>4 DEF IntervalsOf
<1>9. M \in SUBSET Int /\ SpacedBy(M, T)
  BY <1>1, <1>2, OneRankSpaced
<1>. HIDE DEF q, m
<1>10. ASSUME NEW k \in 1 .. Len(v) PROVE v[k] > T - (RowTime + R)
  <2>. DEFINE i == q[k]
              j == q[k + 1]
              a == start[i]
              b == start[j]
  <2>1. k \in 1 .. m - 1 /\ k \in 1 .. m /\ k + 1 \in 1 .. m
    BY <1>6, <1>7
  <2>2. i \in H /\ j \in H /\ i < j /\ v[k] = b - a
    BY <1>6, <1>8, <2>1
  <2>. HIDE DEF i, j
  <2>3. i \in 1 .. n /\ j \in 1 .. n /\ j \in i + 1 .. n
    BY <1>5, <2>2
  <2>4. a \in Int /\ b \in Int
    BY <1>3, <2>3
  <2>5. PICK x \in M : x < a + F + A /\ a + F - R < x /\ x + R < b + F
    <3>1. h[i][3] > REFRESH_CYCLE_LOWER_BOUND
      BY <2>2 DEF Standing
    <3>2. \E x \in M : /\ a + F - R < x /\ x < a + F + A
                       /\ \A l \in i + 1 .. n : x + R < start[l] + F
      BY <1>2, <2>3, <3>1, Zenon DEF Seconds
    <3>. QED
      BY <2>3, <3>2
  <2>6. PICK y \in M : y < b + F + A /\ b + F - R < y
    <3>1. h[j][3] > REFRESH_CYCLE_LOWER_BOUND
      BY <2>2 DEF Standing
    <3>. QED
      BY <1>2, <2>3, <3>1, Zenon DEF Seconds
  <2>. HIDE DEF a, b
  <2>7. x \in Int /\ y \in Int /\ x < y
    <3>1. x \in Int /\ y \in Int
      BY <1>9
    <3>. QED
      BY <1>1, <2>4, <2>5, <2>6, <3>1
  <2>8. x + T <= y
    BY <1>9, <2>5, <2>6, <2>7 DEF SpacedBy
  <2>9. b - a > T - (RowTime + R)
    BY <1>1, <2>4, <2>5, <2>6, <2>7, <2>8
  <2>. QED
    BY <2>2, <2>9
<1>. QED
  BY <1>7, <1>10 DEF T

-----------------------------------------------------------------------------
(* What is printed of a pair is right.                                     *)
LEMMA MedianIsSecond ==
  ASSUME NEW v
  PROVE  GetStatistics(v)[2] = GetMedian(v)
<1>1. CASE v = <<>>
  BY <1>1 DEF GetStatistics, GetMedian
<1>2. CASE v # <<>>
  <2>1. \A a, b, c, d : <<a, b, c, d>>[2] = b
    OBVIOUS
  <2>. QED
    BY <1>2, <2>1 DEF GetStatistics
<1>. QED
  BY <1>1, <1>2

(* What is printed of a pair in one rank is near the period, or that no    *)
(* interval was seen.                                                      *)
LEMMA IntervalsArePrinted ==
  ASSUME LoopsSuit, NEW e \in Exposures, NEW p \in Int, NEW n \in Nat \ {0}, ~e.apart,
         NEW x, x = GetStatistics(Intervals(Measure(n, PairLegs(e, p)), 2)),
         x # <<0, 0, 0, 0>>
  PROVE  \A k \in 1 .. 4 : NearPeriod(x[k], e.period)
<1>. DEFINE v == Intervals(Measure(n, PairLegs(e, p)), 2)
<1>1. v # <<>>
  BY DEF GetStatistics
<1>. QED
  BY <1>1, StatisticsOfPair

(* The least interval of a fine measurement is not shorter than a period   *)
(* without a row and a refresh, or there was none.                         *)
LEMMA FineIsPrinted ==
  ASSUME LoopsSuit, NEW e \in Exposures, NEW p \in Int, NEW n \in Nat \ {0},
         NEW x, x = GetStatistics(Intervals(Measure(n, FineLegs(e, p)), 3))
  PROVE  x[3] = 0 \/ x[3] > e.period - (RowTime + RefreshTime)
<1>. DEFINE v == Intervals(Measure(n, FineLegs(e, p)), 3)
            least == e.period - (RowTime + RefreshTime)
<1>1. v \in Seq(Int) /\ \A k \in 1 .. Len(v) : v[k] > least
  BY FineIntervals
<1>. HIDE DEF v, least
<1>2. CASE v = <<>>
  <2>1. x = <<0, 0, 0, 0>>
    BY <1>2 DEF GetStatistics, v
  <2>. QED
    BY <2>1
<1>3. CASE v # <<>>
  <2>1. x = <<GetAverage(v), GetMedian(v), Sorted(v)[1], Sorted(v)[Len(v)]>>
    BY <1>3 DEF GetStatistics, v
  <2>2. \A a, b, c, d : <<a, b, c, d>>[3] = c
    OBVIOUS
  <2>3. x[3] = Sorted(v)[1]
    BY <2>1, <2>2
  <2>4. 1 \in 1 .. Len(v)
    BY <1>1, <1>3
  <2>5. Sorted(v)[1] \in Range(v)
    BY <1>1, <2>4, SortedPlace
  <2>6. PICK k \in DOMAIN v : Sorted(v)[1] = v[k]
    BY <2>5 DEF Range
  <2>7. k \in 1 .. Len(v)
    BY <1>1, <2>6
  <2>8. x[3] > least
    BY <1>1, <2>3, <2>6, <2>7
  <2>. QED
    BY <2>8 DEF least
<1>. QED
  BY <1>2, <1>3

(* Whatever is measured of a pair, from whatever moment on, tells what it  *)
(* should.                                                                 *)
LEMMA PairTimingsTell ==
  ASSUME LoopsSuit, NEW e \in Exposures, NEW p \in Int
  PROVE  TimingsTell(e, p)
<1>. DEFINE T == e.period
            fast == [e EXCEPT !.slow = FALSE]
            slow == [e EXCEPT !.slow = TRUE]
            deltas == Intervals(MeasureRefreshPairedAccessCoarse(e, p), 2)
            single == StatRefreshIntervalSingleAccess(e, p)
            coarse == StatRefreshIntervalPairedAccessCoarse(e, p)
            fine == StatRefreshIntervalPairedAccessFine(e, p)
            printed == {single} \cup IF e.apart THEN {} ELSE {coarse}
            N == SUDOKU_REFRESH_NUM_ITERATION
            C == SUDOKU_CONFLICT_NUM_ITERATION
            D == SUDOKU_CONSECUTIVE_NUM_ITERATION
<1>1. N \in Nat \ {0} /\ C \in Nat \ {0} /\ D \in Nat \ {0}
  BY MeasurementAssumption
<1>2. /\ T \in Periods /\ T \in Nat /\ LoopTime \in Nat /\ e.apart \in BOOLEAN
  BY Exposed
<1>3. /\ fast \in Exposures /\ ~fast.slow /\ fast.period = T
      /\ slow \in Exposures /\ slow.slow /\ slow.period = T
  BY Zenon DEF Exposures
<1>4. /\ Alone(e) \in Exposures /\ ~Alone(e).apart /\ ~Alone(e).slow
      /\ Alone(e).period = T /\ SingleLegs(e, p) = PairLegs(Alone(e), p)
  BY SingleIsPair DEF Alone
<1>5. single # <<0, 0, 0, 0>> => \A n \in 1 .. 4 : NearPeriod(single[n], T)
  <2>1. single = GetStatistics(Intervals(Measure(N, PairLegs(Alone(e), p)), 2))
    BY <1>4 DEF StatRefreshIntervalSingleAccess, MeasureRefreshSingleAccess
  <2>. HIDE DEF single, N, T
  <2>. QED
    BY <1>1, <1>4, <2>1, IntervalsArePrinted
<1>6. ~e.apart /\ coarse # <<0, 0, 0, 0>> => \A n \in 1 .. 4 : NearPeriod(coarse[n], T)
  <2>1. coarse = GetStatistics(Intervals(Measure(N, PairLegs(e, p)), 2))
    BY DEF StatRefreshIntervalPairedAccessCoarse, MeasureRefreshPairedAccessCoarse
  <2>. HIDE DEF coarse, N
  <2>. QED
    BY <1>1, <2>1, IntervalsArePrinted
<1>7. fine[3] = 0 \/ fine[3] > T - (RowTime + RefreshTime)
  <2>1. fine = GetStatistics(Intervals(Measure(N, FineLegs(e, p)), 3))
    BY DEF StatRefreshIntervalPairedAccessFine, MeasureRefreshPairedAccessFine, FineLegs
  <2>. HIDE DEF fine, N
  <2>. QED
    BY <1>1, <2>1, FineIsPrinted
<1>8. e.apart => \A i \in 1 .. Len(deltas) - 1 : NearPeriod(deltas[i] + deltas[i + 1], T)
  <2>. SUFFICES ASSUME e.apart, NEW i \in 1 .. Len(deltas) - 1
                PROVE  NearPeriod(deltas[i] + deltas[i + 1], T)
    OBVIOUS
  <2>1. deltas = Intervals(Measure(N, PairLegs(e, p)), 2)
    BY DEF MeasureRefreshPairedAccessCoarse
  <2>. HIDE DEF deltas, N
  <2>2. /\ deltas \in Seq(Int) /\ \A k \in 1 .. Len(deltas) : deltas[k] \in Int
        /\ Alternates(deltas, Closest(e.period), e.period, RowTime)
    BY <1>1, <2>1, IntervalsOfPair, Zenon
  <2>3. Around(deltas[i] + deltas[i + 1], T, RowTime)
    BY <2>2 DEF Alternates
  <2>4. deltas[i] + deltas[i + 1] \in Int
    <3>1. Len(deltas) \in Nat
      BY <2>2
    <3>2. i \in 1 .. Len(deltas) /\ i + 1 \in 1 .. Len(deltas)
      BY <3>1
    <3>. QED
      BY <2>2, <3>2
  <2>. HIDE DEF T
  <2>. QED
    BY <1>2, <2>3, <2>4, AroundIsNear
<1>9. /\ FewHits(C, T) /\ FewHits(D, T)
  <2>. HIDE DEF T
  <2>. QED
    BY <1>2 DEF LoopsSuit
<1>10. ASSUME NEW f \in Exposures, ~f.slow, f.period = T, NEW n \in Nat \ {0}, FewHits(n, T)
       PROVE  LET a == GetMedian(Column(Measure(n, PairLegs(f, p)), 2))
                  b == GetMedian(Column(Measure(n, PairLegs(slow, p)), 2))
              IN  a < b
  <2>. DEFINE a == GetMedian(Column(Measure(n, PairLegs(f, p)), 2))
              b == GetMedian(Column(Measure(n, PairLegs(slow, p)), 2))
  <2>1. a \in Int /\ a < LoopTime
    BY <1>10, FastMedian
  <2>. HIDE DEF slow
  <2>2. b \in Int /\ LoopTime <= b
    BY <1>3, SlowMedian
  <2>. HIDE DEF a, b
  <2>3. a < b
    BY <1>2, <2>1, <2>2
  <2>. QED
    BY <2>3 DEF a, b
<1>11. /\ StatAccessTimingSingleMemoryAccess(e, p)[2]
            < StatAccessTimingPairedMemoryAccess(slow, p)[2]
       /\ StatAccessTimingPairedMemoryAccess(fast, p)[2]
            < StatAccessTimingPairedMemoryAccess(slow, p)[2]
       /\ StatReadReadLatency(fast, p)[2] < StatReadReadLatency(slow, p)[2]
  <2>. DEFINE m(n, legs) == GetMedian(Column(Measure(n, legs), 2))
  <2>1. /\ m(C, PairLegs(Alone(e), p)) < m(C, PairLegs(slow, p))
        /\ m(C, PairLegs(fast, p)) < m(C, PairLegs(slow, p))
        /\ m(D, PairLegs(fast, p)) < m(D, PairLegs(slow, p))
    <3>. HIDE DEF T, fast, slow, C, D
    <3>. QED
      BY <1>1, <1>3, <1>4, <1>9, <1>10
  <2>2. /\ StatAccessTimingSingleMemoryAccess(e, p)[2] = m(C, PairLegs(Alone(e), p))
        /\ \A x : StatAccessTimingPairedMemoryAccess(x, p)[2] = m(C, PairLegs(x, p))
        /\ \A x : StatReadReadLatency(x, p)[2] = m(D, PairLegs(x, p))
    BY <1>4, MedianIsSecond
       DEF StatAccessTimingSingleMemoryAccess, StatAccessTimingPairedMemoryAccess,
           StatReadReadLatency, AccessTimingSingleMemoryAccess,
           AccessTimingPairedMemoryAccess, ReadReadLatency
  <2>. HIDE DEF m, fast, slow, C, D
  <2>. QED
    BY <2>1, <2>2
<1>12. \A x \in printed \ {<<0, 0, 0, 0>>} : \A n \in 1 .. 4 : NearPeriod(x[n], T)
  <2>. HIDE DEF single, coarse, T
  <2>. QED
    BY <1>2, <1>5, <1>6
<1>. HIDE DEF T, fast, slow, deltas, single, coarse, fine, printed
<1>. QED
  BY <1>7, <1>8, <1>11, <1>12
     DEF TimingsTell, T, fast, slow, deltas, single, coarse, fine, printed

-----------------------------------------------------------------------------
(* What a loop takes in all: the time of its rows, and at most that of the *)
(* refreshes that they meet.                                               *)
TakesLonger(v, H, w, r) ==
  \A i \in 1 .. Len(v) : w <= v[i] /\ v[i] <= w + IF i \in H THEN r ELSE 0

AddsUpTo(v, H, w, r) ==
  Total(v) \in Nat /\ Total(v) <= Len(v) * w + Cardinality(H) * r

(* The total, row by row.                                                  *)
LEMMA LoopTakes ==
  ASSUME NEW v \in Seq(Int), NEW H \in SUBSET (1 .. Len(v)),
         NEW w \in Nat, NEW r \in Nat, TakesLonger(v, H, w, r)
  PROVE  AddsUpTo(v, H, w, r)
<1>. DEFINE n == Len(v)
            upto(k) == {i \in H : i <= k}
            c(k) == Cardinality(upto(k))
<1>1. /\ n \in Nat
      /\ \A i \in 1 .. n : /\ v[i] \in Int /\ w <= v[i]
                           /\ v[i] <= w + IF i \in H THEN r ELSE 0
  BY DEF TakesLonger
<1>2. \A i \in H : i \in 1 .. n /\ i \in Nat /\ 1 <= i /\ i <= n
  <2>1. \A i \in 1 .. n : i \in Nat /\ 1 <= i /\ i <= n
    OBVIOUS
  <2>. QED
    BY <2>1
<1>3. PICK sums : RunningSums(v, sums) /\ Total(v) = sums[n]
  BY TotalIsSum
<1>4. /\ sums \in [0 .. n -> Int] /\ sums[0] = 0
      /\ \A k \in 1 .. n : sums[k] = sums[k - 1] + v[k]
  BY <1>3 DEF RunningSums, n
<1>5. H \in SUBSET (1 .. n)
  OBVIOUS
<1>. HIDE DEF n
<1>6. IsFiniteSet(H)
  <2>1. IsFiniteSet(1 .. n)
    BY <1>1, FS_Interval
  <2>. QED
    BY <1>5, <2>1, FS_Subset, Zenon
<1>7. \A k \in 0 .. n : IsFiniteSet(upto(k)) /\ c(k) \in Nat
  <2>. TAKE k \in 0 .. n
  <2>1. upto(k) \subseteq H
    OBVIOUS
  <2>. HIDE DEF upto
  <2>. QED
    BY <1>6, <2>1, FS_Subset, FS_CardinalityType
<1>. DEFINE S == {k \in 0 .. n : sums[k] \in Nat /\ sums[k] <= k * w + c(k) * r}
<1>8. 0 \in S
  <2>1. 0 \in 0 .. n
    BY <1>1
  <2>2. upto(0) = {}
    <3>1. \A i \in H : ~(i <= 0)
      BY <1>2
    <3>. QED
      BY <3>1, Zenon
  <2>3. c(0) = 0
    BY <2>2, FS_EmptySet, Zenon
  <2>. HIDE DEF c
  <2>. QED
    BY <1>4, <2>1, <2>3
<1>9. \A l \in 0 .. n - 1 : l \in S => l + 1 \in S
  <2>. TAKE l \in 0 .. n - 1
  <2>. HAVE l \in S
  <2>. DEFINE k == l + 1
  <2>1. k \in 1 .. n /\ k \in 0 .. n /\ k - 1 = l /\ l \in 0 .. n /\ l \in Nat
    BY <1>1
  <2>2. c(k) = c(l) + IF k \in H THEN 1 ELSE 0
    <3>1. CASE k \in H
      <4>1. upto(k) = upto(l) \cup {k} /\ k \notin upto(l)
        <5>1. \A i \in Nat : i <= k <=> i <= l \/ i = k
          BY <2>1
        <5>2. k \in upto(k) /\ ~(k <= l)
          BY <2>1, <3>1
        <5>. HIDE DEF k
        <5>. QED
          BY <1>2, <3>1, <5>1, <5>2, Zenon
      <4>2. IsFiniteSet(upto(l))
        BY <1>7, <2>1
      <4>. HIDE DEF upto, k
      <4>3. Cardinality(upto(l) \cup {k}) = Cardinality(upto(l)) + 1
        BY <4>1, <4>2, FS_AddElement, Zenon
      <4>. QED
        BY <3>1, <4>1, <4>3
    <3>2. CASE k \notin H
      <4>1. upto(k) = upto(l)
        <5>1. \A i \in Nat : i <= k <=> i <= l \/ i = k
          BY <2>1
        <5>. HIDE DEF k
        <5>. QED
          BY <1>2, <3>2, <5>1, Zenon
      <4>2. c(l) \in Nat
        BY <1>7, <2>1, Zenon
      <4>. HIDE DEF upto, k
      <4>. QED
        BY <3>2, <4>1, <4>2
    <3>. QED
      BY <3>1, <3>2
  <2>3. c(l) \in Nat
    BY <1>7, <2>1, Zenon
  <2>. DEFINE a == c(l)
              b == c(k)
              x == l * w
              y == k * w
              s == a * r
              t == b * r
  <2>4. y = x + w /\ x \in Nat
    BY <2>1
  <2>5. t = s + IF k \in H THEN r ELSE 0
    <3>. HIDE DEF a, b, k
    <3>1. a \in Nat /\ b = a + IF k \in H THEN 1 ELSE 0
      BY <2>2, <2>3 DEF a, b
    <3>2. CASE k \in H
      BY <3>1, <3>2
    <3>3. CASE k \notin H
      BY <3>1, <3>3
    <3>. QED
      BY <3>2, <3>3
  <2>6. s \in Int
    BY <2>3
  <2>7. sums[l] \in Nat /\ sums[l] <= x + s
    OBVIOUS
  <2>. HIDE DEF k, x, y, s, t, upto
  <2>8. /\ sums[k] = sums[l] + v[k] /\ v[k] \in Int /\ w <= v[k]
        /\ v[k] <= w + IF k \in H THEN r ELSE 0
    BY <1>1, <1>4, <2>1, Zenon
  <2>9. sums[k] \in Nat /\ sums[k] <= y + t
    BY <2>4, <2>5, <2>6, <2>7, <2>8
  <2>10. k \in S
    BY <2>1, <2>9 DEF y, t
  <2>. QED
    BY <2>10 DEF k
<1>10. n \in S
  <2>. HIDE DEF S
  <2>1. 0 .. n \subseteq S
    BY <1>1, <1>8, <1>9, InductionTo, Zenon
  <2>2. n \in 0 .. n
    BY <1>1
  <2>. QED
    BY <2>1, <2>2
<1>11. upto(n) = H
  BY <1>2, Zenon
<1>. QED
  BY <1>3, <1>10, <1>11, Zenon DEF AddsUpTo, n

(* On average fast rows take less than a slow one, if the refreshes take   *)
(* less than the conflicts would.                                          *)
LEMMA FastAverage ==
  ASSUME LoopsSuit, NEW e \in Exposures, ~e.slow, NEW p \in Int, NEW n \in Nat \ {0},
         RefreshTime * MostHits(n, e.period) < ConflictTime * n
  PROVE  LET m == GetAverage(Column(Measure(n, PairLegs(e, p)), 2))
         IN  m \in Nat /\ m < LoopTime
<1>. DEFINE h == Measure(n, PairLegs(e, p))
            v == Column(h, 2)
<1>1. PICK at, M : OfPair(h, at, M, AccessTime, n, e, p, AccessTime)
  BY LoopShows, Zenon
<1>. HIDE DEF h
<1>. DEFINE H == Met(at, M, n)
            c == Cardinality(H)
            most == MostHits(n, e.period)
<1>2. c \in Nat /\ c <= most /\ most \in Nat
  BY <1>1, HitsAreFew
<1>3. /\ v \in Seq(Int) /\ Len(v) = n
      /\ \A i \in 1 .. n : /\ AccessTime <= v[i] /\ v[i] <= AccessTime + RefreshTime
                           /\ i \notin H => v[i] = AccessTime
  BY <1>1, ColumnOfPair
<1>4. /\ AccessTime \in Nat /\ ConflictTime \in Nat /\ RefreshTime \in Nat
  BY Exposed
<1>6. H \in SUBSET (1 .. n)
  BY DEF Met
<1>. HIDE DEF v, H, c
<1>7. Total(v) \in Nat /\ Total(v) <= n * AccessTime + c * RefreshTime
  <2>1. TakesLonger(v, H, AccessTime, RefreshTime)
    BY <1>3, <1>4 DEF TakesLonger
  <2>2. H \in SUBSET (1 .. Len(v))
    BY <1>3, <1>6
  <2>3. AddsUpTo(v, H, AccessTime, RefreshTime)
    BY <1>3, <1>4, <2>1, <2>2, LoopTakes
  <2>. QED
    BY <1>3, <2>3 DEF c, AddsUpTo
<1>. DEFINE t == Total(v)
            q == t \div n
            r == t % n
<1>8. t \in Nat /\ t < n * AccessTime + n * ConflictTime
  <2>. DEFINE x == n * AccessTime
              y == c * RefreshTime
              z == most * RefreshTime
              u == n * ConflictTime
  <2>1. x \in Nat /\ y \in Nat /\ z \in Nat /\ u \in Nat
    BY <1>2, <1>4
  <2>2. z < u
    <3>1. z = RefreshTime * most /\ u = ConflictTime * n
      BY <1>2, <1>4
    <3>. QED
      BY <3>1
  <2>3. y <= z
    <3>. HIDE DEF most
    <3>1. \A i, j \in Nat : i <= j => i * RefreshTime <= j * RefreshTime
      BY <1>4
    <3>. QED
      BY <1>2, <3>1
  <2>. HIDE DEF x, y, z, u
  <2>4. t \in Nat /\ t <= x + y
    BY <1>7 DEF x, y
  <2>5. t \in Nat /\ t < x + u
    BY <2>1, <2>2, <2>3, <2>4
  <2>. QED
    BY <2>5 DEF x, u
<1>. HIDE DEF t
<1>9. q \in Nat /\ r \in 0 .. n - 1 /\ t = q * n + r
  BY <1>8, DivMod, Zenon
<1>10. q * n < LoopTime * n
  <2>1. LoopTime * n = n * AccessTime + n * ConflictTime
    BY <1>4 DEF LoopTime
  <2>2. LoopTime * n \in Nat /\ q * n \in Nat
    BY <1>4, <1>9 DEF LoopTime
  <2>. DEFINE y == LoopTime * n
              z == q * n
  <2>3. y \in Nat /\ z \in Nat /\ t < y /\ t = z + r
    BY <1>8, <1>9, <2>1, <2>2
  <2>. HIDE DEF y, z, q, r
  <2>4. z < y
    BY <1>9, <2>3
  <2>. QED
    BY <2>4 DEF y, z
<1>11. LoopTime \in Nat
  BY Exposed
<1>. HIDE DEF q, r
<1>12. q < LoopTime
  BY <1>9, <1>10, <1>11, Cancel
<1>13. GetAverage(v) = q
  <2>1. v # <<>>
    BY <1>3
  <2>. QED
    BY <1>3, <2>1 DEF GetAverage, t, q
<1>. QED
  BY <1>9, <1>12, <1>13 DEF v, h

(* And slow rows no less.                                                  *)
LEMMA SlowAverage ==
  ASSUME LoopsSuit, NEW e \in Exposures, e.slow, NEW p \in Int, NEW n \in Nat \ {0}
  PROVE  LET m == GetAverage(Column(Measure(n, PairLegs(e, p)), 2))
         IN  m \in Nat /\ LoopTime <= m
<1>. DEFINE h == Measure(n, PairLegs(e, p))
            v == Column(h, 2)
            hi == LoopTime + RefreshTime
<1>1. PICK at, M : OfPair(h, at, M, LoopTime, n, e, p, LoopTime)
  BY LoopShows, Zenon
<1>. HIDE DEF h
<1>2. /\ v \in Seq(Int) /\ Len(v) = n
      /\ \A i \in 1 .. n : LoopTime <= v[i] /\ v[i] <= hi
  BY <1>1, ColumnOfPair
<1>3. /\ LoopTime \in Nat /\ LoopTime \in Int /\ RefreshTime \in Nat /\ hi \in Int
  BY Exposed
<1>. HIDE DEF v
<1>4. \A i \in 1 .. Len(v) : LoopTime <= v[i] /\ v[i] <= hi
  BY <1>2, <1>3
<1>5. v # <<>>
  BY <1>2
<1>. DEFINE m == GetAverage(v)
<1>6. m \in Int /\ LoopTime <= m
  <2>. HIDE DEF hi
  <2>. QED
    BY <1>2, <1>3, <1>4, <1>5, AverageIsBounded, Zenon
<1>. HIDE DEF m
<1>7. m \in Nat /\ LoopTime <= m
  BY <1>3, <1>6
<1>. QED
  BY <1>7 DEF v, h, m

-----------------------------------------------------------------------------
(* So the timings tell what they should, for every pair and at any time.   *)
LEMMA TimingsAllTell ==
  ASSUME LoopsSuit
  PROVE  AllTimingsTell
<1>. SUFFICES ASSUME NEW e \in Exposures, NEW p \in 0 .. e.period - 1
              PROVE  TimingsTell(e, p)
  BY DEF AllTimingsTell
<1>1. p \in Int
  OBVIOUS
<1>. QED
  BY <1>1, PairTimingsTell

(* What is found in a table was measured at some time.                     *)
LEMMA CoarseIsMeasured ==
  ASSUME command.type # "DDR4", NEW e \in Exposures, NEW x \in refresh_oracle(e)
  PROVE  \E p \in Int : x = AverageRefreshIntervalPairedAccessCoarse(e, p)
<1>1. <<e, x>> \in CoarseAverages
  BY DEF refresh_oracle, ShownBy, CoarseAverages
<1>2. PICK f \in Exposures : \E p \in 0 .. f.period - 1 :
        <<e, x>> = <<f, AverageRefreshIntervalPairedAccessCoarse(f, p)>>
  BY <1>1 DEF CoarseAverages
<1>3. PICK p \in 0 .. f.period - 1 :
        <<e, x>> = <<f, AverageRefreshIntervalPairedAccessCoarse(f, p)>>
  BY <1>2
<1>4. p \in Int /\ e = f
  BY <1>3
<1>. QED
  BY <1>3, <1>4

(* And so is a latency.                                                    *)
LEMMA LatencyIsMeasured ==
  ASSUME NEW e \in Exposures, NEW x \in rdrd_oracle(e)
  PROVE  \E p \in Int : x = AverageReadReadLatency(e, p)
<1>1. <<e, x>> \in Latencies
  BY DEF rdrd_oracle, ShownBy, Latencies
<1>2. PICK f \in Exposures : \E p \in 0 .. f.period - 1 :
        <<e, x>> = <<f, AverageReadReadLatency(f, p)>>
  BY <1>1 DEF Latencies
<1>3. PICK p \in 0 .. f.period - 1 : <<e, x>> = <<f, AverageReadReadLatency(f, p)>>
  BY <1>2
<1>4. p \in Int /\ e = f
  BY <1>3
<1>. QED
  BY <1>3, <1>4

(* Every pair can be measured.                                             *)
LEMMA LatenciesExist ==
  ASSUME NEW e \in Exposures
  PROVE  rdrd_oracle(e) # {}
<1>1. 0 \in 0 .. e.period - 1
  <2>1. e.period \in Nat \ {0}
    BY Exposed
  <2>. DEFINE T == e.period
  <2>. HIDE DEF T
  <2>2. T \in Nat \ {0} => 0 \in 0 .. T - 1
    OBVIOUS
  <2>. QED
    BY <2>1, <2>2 DEF T
<1>2. <<e, AverageReadReadLatency(e, 0)>> \in Latencies
  BY <1>1 DEF Latencies
<1>3. AverageReadReadLatency(e, 0) \in rdrd_oracle(e)
  BY <1>2 DEF rdrd_oracle, ShownBy
<1>. QED
  BY <1>3

(* The average of the intervals that a pair shows, if it shows any, is the *)
(* period of the memory, give or take a row, for one rank; and for two it  *)
(* lies between the two distances of their refreshes.                      *)
AverageSuits(x, e, T, g) ==
  /\ x \in Int
  /\ ~e.apart => T - (RowTime + RefreshTime - 1) <= x
  /\ e.apart => /\ g - (RowTime + RefreshTime - 1) <= x
                /\ x <= (T - g) + (RowTime - 1)

(* By the bounds of the intervals.                                         *)
LEMMA IntervalsAverage ==
  ASSUME LoopsSuit, NEW e \in Exposures, NEW p \in Int,
         NEW x, x = AverageRefreshIntervalPairedAccessCoarse(e, p), x # 0
  PROVE  AverageSuits(x, e, e.period, Closest(e.period))
<1>. DEFINE T == e.period
            g == Closest(T)
            s == Stagger % T
            n == SUDOKU_REFRESH_NUM_ITERATION
            v == Intervals(Measure(n, PairLegs(e, p)), 2)
            L == RowTime
            R == RefreshTime
<1>1. n \in Nat \ {0}
  BY MeasurementAssumption
<1>2. T \in Periods /\ T \in Nat /\ L \in Nat /\ R \in Nat /\ e.apart \in BOOLEAN
  BY Exposed
<1>3. g \in Nat
  <2>1. Suits(T, s, g)
    BY <1>2, PeriodSuits
  <2>. HIDE DEF T, s, g
  <2>. QED
    BY <2>1 DEF Suits
<1>4. x = GetAverage(v)
  BY DEF AverageRefreshIntervalPairedAccessCoarse, MeasureRefreshPairedAccessCoarse
<1>. HIDE DEF n
<1>5. /\ v \in Seq(Int)
      /\ ~e.apart => \A k \in 1 .. Len(v) : v[k] \in Int /\ Around(v[k], T, L)
      /\ e.apart => Alternates(v, g, T, L)
  BY <1>1, IntervalsOfPair
<1>. HIDE DEF v, T, g, L
<1>6. v # <<>>
  BY <1>4 DEF GetAverage
<1>7. CASE ~e.apart
  <2>. DEFINE lo == T - (L + R - 1)
              hi == T + (L - 1)
  <2>1. \A k \in 1 .. Len(v) : lo <= v[k] /\ v[k] <= hi
    BY <1>5, <1>7, Zenon DEF Around
  <2>2. lo \in Int /\ hi \in Int
    BY <1>2
  <2>. HIDE DEF lo, hi
  <2>3. x \in Int /\ lo <= x
    BY <1>4, <1>5, <1>6, <2>1, <2>2, AverageIsBounded, Zenon
  <2>. QED
    BY <1>7, <2>3 DEF AverageSuits, lo, T, L
<1>8. CASE e.apart
  <2>. DEFINE lo == g - (L + R - 1)
              hi == (T - g) + (L - 1)
  <2>1. \A k \in 1 .. Len(v) : lo <= v[k] /\ v[k] <= hi
    BY <1>5, <1>8, Zenon DEF Alternates
  <2>2. lo \in Int /\ hi \in Int
    BY <1>2, <1>3
  <2>. HIDE DEF lo, hi
  <2>3. x \in Int /\ lo <= x /\ x <= hi
    BY <1>4, <1>5, <1>6, <2>1, <2>2, AverageIsBounded, Zenon
  <2>. QED
    BY <1>8, <2>3 DEF AverageSuits, lo, hi, T, L, g
<1>. QED
  BY <1>2, <1>7, <1>8

(* And the oracles tell the pairs that are exposed from the others.        *)
LEMMA OraclesDoTell ==
  ASSUME Begun, Decomposes, command.type # "DDR4", LoopsSuit, ThresholdsSuit
  PROVE  OraclesTell
<1>. DEFINE T == command.machine.period
            g == Closest(T)
            n == SUDOKU_CONSECUTIVE_NUM_ITERATION
            L == LoopTime
            W == RowTime
            R == RefreshTime
            limit == REGULAR_REFRESH_INTERVAL_THRESHOLD
<1>1. /\ n \in Nat \ {0} /\ L \in Nat /\ limit \in Nat /\ ShortestInterval \in Nat
      /\ T \in Periods /\ T \in Nat /\ W \in Nat /\ R \in Nat
  <2>1. n \in Nat \ {0} /\ L \in Nat /\ W \in Nat /\ R \in Nat
    BY MeasurementAssumption DEF LoopTime, RowTime
  <2>2. limit \in Nat /\ ShortestInterval \in Nat
    BY SessionAssumption
  <2>3. T \in Periods
    BY SessionAssumption DEF Begun
  <2>4. T \in Nat
    BY <2>3, MeasurementAssumption
  <2>. QED
    BY <2>1, <2>2, <2>3, <2>4
<1>2. g \in Nat
  <2>. DEFINE s == Stagger % T
  <2>1. Suits(T, s, g)
    BY <1>1, PeriodSuits
  <2>. HIDE DEF T, s, g
  <2>. QED
    BY <2>1 DEF Suits
<1>3. /\ limit + W + R <= T + 1
      /\ Seen => T - g + W <= limit /\ ShortestInterval + W + R <= g
      /\ RefreshTime * MostHits(n, T) < ConflictTime * n
  BY Zenon DEF ThresholdsSuit
<1>4. \A e \in OnMachine : e \in Exposures /\ e.period = T /\ e.apart \in BOOLEAN
  BY DEF OnMachine, Exposures
<1>5. ASSUME NEW e \in OnMachine, NEW x \in refresh_oracle(e), x # 0
      PROVE  AverageSuits(x, e, T, g)
  <2>1. e \in Exposures /\ e.period = T
    BY <1>4
  <2>2. PICK p \in Int : x = AverageRefreshIntervalPairedAccessCoarse(e, p)
    BY <2>1, CoarseIsMeasured
  <2>3. AverageSuits(x, e, e.period, Closest(e.period))
    BY <1>5, <2>1, <2>2, IntervalsAverage
  <2>. QED
    BY <2>1, <2>3
<1>6. ASSUME NEW e \in OnMachine, ~e.apart, NEW x \in refresh_oracle(e) \ {0}
      PROVE  ~Reduced(x)
  <2>1. AverageSuits(x, e, T, g)
    BY <1>5
  <2>. HIDE DEF T, g, W, R
  <2>2. x \in Int /\ T - (W + R - 1) <= x
    BY <1>6, <2>1 DEF AverageSuits, W, R
  <2>3. ~(x < limit)
    <3>. HIDE DEF limit
    <3>. QED
      BY <1>1, <1>3, <2>2
  <2>. QED
    BY <2>3 DEF Reduced
<1>7. ASSUME Seen, NEW e \in OnMachine, e.apart, NEW x \in refresh_oracle(e)
      PROVE  Reduced(x)
  <2>1. x # 0
    BY <1>7 DEF Seen
  <2>2. AverageSuits(x, e, T, g)
    BY <1>5, <2>1
  <2>. HIDE DEF T, g, W, R
  <2>3. x \in Int /\ g - (W + R - 1) <= x /\ x <= (T - g) + (W - 1)
    BY <1>7, <2>2 DEF AverageSuits, W, R
  <2>4. x < limit /\ ShortestInterval < x
    <3>1. T - g + W <= limit /\ ShortestInterval + W + R <= g
      BY <1>3, <1>7
    <3>. HIDE DEF limit
    <3>. QED
      BY <1>1, <1>2, <2>3, <3>1
  <2>. QED
    BY <2>3, <2>4, <1>1 DEF Reduced
<1>8. ASSUME NEW e \in OnMachine, NEW x \in rdrd_oracle(e)
      PROVE  x \in Nat /\ IF e.slow THEN L <= x ELSE x < L
  <2>1. e \in Exposures /\ e.period = T
    BY <1>4
  <2>2. PICK p \in Int : x = AverageReadReadLatency(e, p)
    BY <2>1, LatencyIsMeasured
  <2>3. x = GetAverage(Column(Measure(n, PairLegs(e, p)), 2))
    BY <2>2 DEF AverageReadReadLatency, ReadReadLatency
  <2>. HIDE DEF n, T
  <2>4. CASE e.slow
    BY <1>1, <2>1, <2>3, <2>4, SlowAverage
  <2>5. CASE ~e.slow
    <3>1. RefreshTime * MostHits(n, e.period) < ConflictTime * n
      BY <1>3, <2>1
    <3>. QED
      BY <1>1, <2>1, <2>3, <2>5, <3>1, FastAverage
  <2>. QED
    BY <2>4, <2>5
<1>9. \A e \in OnMachine : rdrd_oracle(e) # {} /\ rdrd_oracle(e) \subseteq Nat
  BY <1>4, <1>8, LatenciesExist
<1>10. ASSUME NEW slow \in OnMachine, NEW fast \in OnMachine, slow.slow, ~fast.slow,
              NEW m \in rdrd_oracle(fast), NEW k \in rdrd_oracle(slow)
       PROVE  m < k
  <2>1. m \in Nat /\ m < L
    BY <1>8, <1>10
  <2>2. k \in Nat /\ L <= k
    BY <1>8, <1>10
  <2>. HIDE DEF L
  <2>. QED
    BY <1>1, <2>1, <2>2
<1>. QED
  BY <1>6, <1>7, <1>9, <1>10 DEF OraclesTell

(* The statistics tell pairs, for every memory, every duration of the      *)
(* flushes that no reading of the clock covers and every number of         *)
(* iterations, whenever they measure: if a refresh stands out even when it *)
(* begins with the flushes of a row, if a row, its flushes and a refresh   *)
(* take no longer than the refreshes of two ranks are apart, and if fewer  *)
(* rows than a half meet one, or a half that weighs less; and for the      *)
(* oracles of a decomposition if the thresholds suit the memory.           *)
THEOREM StatisticsTell ==
  Spec => [](LoopsSuit /\ ThresholdsSuit => StatisticsTellPairs)
<1>1. SessionInv => (LoopsSuit /\ ThresholdsSuit => StatisticsTellPairs)
  BY TimingsAllTell, OraclesDoTell DEF SessionInv, StatisticsTellPairs
<1>. QED
  BY <1>1, SessionKept, PTL

(* And so the decomposition is right on any such memory: of what the       *)
(* oracles return nothing is assumed but what LoopsSuit and ThresholdsSuit *)
(* say of the times of flushes, accesses and refreshes.                    *)
THEOREM DecompositionOnSuchMemory ==
  Spec => [](Contiguous(layout) /\ LoopsSuit /\ ThresholdsSuit => DecompositionIsRight)
<1>1. SessionInv /\ (Contiguous(layout) /\ OraclesTell => DecompositionIsRight)
      => (Contiguous(layout) /\ LoopsSuit /\ ThresholdsSuit => DecompositionIsRight)
  BY OraclesDoTell DEF SessionInv, DecompositionIsRight
<1>. QED
  BY <1>1, SessionKept, FunctionsAreDecomposed, PTL
=============================================================================
