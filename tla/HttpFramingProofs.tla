--------------------------- MODULE HttpFramingProofs ---------------------------
(***************************************************************************)
(* What HttpFraming's run checks with few digits and headers, proved for   *)
(* messages of any length.  The functions of protocol.cp go through their  *)
(* input from left to right; the first part says that such a fold has the  *)
(* values of its runs: what it is after each of its steps.                 *)
(***************************************************************************)
EXTENDS HttpFraming, FiniteSetTheorems, WellFoundedInduction, TLAPS

-------------------------------------------------------------------------------
\* Induction and recursion, over sets and functions.

Less == {pair \in Nat \X Nat : pair[1] < pair[2]}

\* What holds of 0, and with a number of the next, holds of all.
LEMMA CountingUp ==
    ASSUME NEW P, 0 \in P, \A n \in Nat : n \in P => n + 1 \in P
    PROVE  Nat \subseteq P
<1> SUFFICES ASSUME ~(Nat \subseteq P) PROVE FALSE
  OBVIOUS
<1>1. PICK bad : bad = {n \in Nat : n \notin P}
  OBVIOUS
<1>2. bad # {} /\ bad \subseteq Nat
  BY <1>1
<1>3. IsWellFoundedOn(Less, Nat)
  BY NatLessThanWellFounded DEF OpToRel, Less
<1>4. PICK n \in bad : \A m \in bad : ~ (<<m, n>> \in Less)
  BY <1>2, <1>3, WFMin
<1>5. n \in Nat /\ n # 0 /\ n \notin P
  BY <1>1, <1>4
<1>6. n - 1 \in Nat /\ n - 1 < n /\ (n - 1) + 1 = n
  BY <1>5
<1>7. n - 1 \notin bad
  BY <1>4, <1>5, <1>6 DEF Less
<1> QED
  BY <1>1, <1>5, <1>6, <1>7

\* A step defines a run.
Steps(A, base, step) == base \in A /\ step \in [Nat \X A -> A]

LEMMA RunsExist ==
    ASSUME NEW A, NEW base, NEW step, Steps(A, base, step)
    PROVE  \E r \in [Nat -> A] : r[0] = base /\ \A n \in Nat : r[n + 1] = step[<<n, r[n]>>]
<1> DEFINE Run(n, g) == /\ g \in [0..n -> A] /\ g[0] = base
                        /\ \A i \in 0..n : i < n => g[i + 1] = step[<<i, g[i]>>]
<1> USE DEF Steps
<1>1. ASSUME NEW n \in Nat, NEW g, NEW h, Run(n, g), Run(n + 1, h)
      PROVE  \A i \in 0..n : g[i] = h[i]
  <2>1. PICK P : P = {i \in Nat : i <= n => g[i] = h[i]}
    OBVIOUS
  <2>2. 0 \in P
    BY <1>1, <2>1
  <2>3. ASSUME NEW i \in Nat, i \in P PROVE i + 1 \in P
    <3>1. CASE i + 1 <= n
      <4>1. i \in 0..n /\ i < n /\ i \in 0..(n + 1) /\ i < n + 1
        BY <3>1
      <4>2. g[i] = h[i]
        BY <2>1, <2>3, <4>1
      <4>3. g[i + 1] = step[<<i, g[i]>>] /\ h[i + 1] = step[<<i, h[i]>>]
        BY <1>1, <4>1
      <4> QED
        BY <2>1, <4>2, <4>3
    <3>2. CASE ~(i + 1 <= n)
      BY <2>1, <3>2
    <3> QED
      BY <3>1, <3>2
  <2>4. Nat \subseteq P
    BY <2>2, <2>3, CountingUp
  <2> QED
    BY <2>1, <2>4
<1>2. PICK E : E = {n \in Nat : \E g : Run(n, g)}
  OBVIOUS
<1>3. 0 \in E
  <2>1. Run(0, [i \in 0..0 |-> base])
    OBVIOUS
  <2> QED
    BY <1>2, <2>1
<1>4. ASSUME NEW n \in Nat, n \in E PROVE n + 1 \in E
  <2>1. PICK g : Run(n, g)
    BY <1>2, <1>4
  <2>2. PICK h : h = [i \in 0..(n + 1) |-> IF i <= n THEN g[i] ELSE step[<<n, g[n]>>]]
    OBVIOUS
  <2>3. g[n] \in A /\ step[<<n, g[n]>>] \in A
    BY <2>1
  <2>4. h \in [0..(n + 1) -> A] /\ h[0] = base
    BY <2>1, <2>2, <2>3
  <2>5. ASSUME NEW i \in 0..(n + 1), i < n + 1 PROVE h[i + 1] = step[<<i, h[i]>>]
    <3>1. CASE i < n
      BY <2>1, <2>2, <2>5, <3>1
    <3>2. CASE i = n
      BY <2>2, <3>2
    <3> QED
      BY <2>5, <3>1, <3>2
  <2>6. Run(n + 1, h)
    BY <2>4, <2>5
  <2> QED
    BY <1>2, <2>6
<1> HIDE DEF Run
<1>5. Nat \subseteq E
  BY <1>3, <1>4, CountingUp
<1>6. PICK run : run = [n \in Nat |-> CHOOSE g : Run(n, g)]
  OBVIOUS
<1>7. \A n \in Nat : Run(n, run[n])
  BY <1>2, <1>5, <1>6
<1>8. PICK r : r = [n \in Nat |-> run[n][n]]
  OBVIOUS
<1>9. ASSUME NEW n \in Nat PROVE r[n] \in A /\ r[n + 1] = step[<<n, r[n]>>]
  <2>1. Run(n, run[n]) /\ Run(n + 1, run[n + 1])
    BY <1>7
  <2>2. \A i \in 0..n : run[n][i] = run[n + 1][i]
    BY <1>1, <2>1
  <2>2a. run[n][n] = run[n + 1][n]
    BY <2>2
  <2>3. run[n][n] \in A /\ run[n + 1][n + 1] = step[<<n, run[n + 1][n]>>]
    BY <2>1 DEF Run
  <2> QED
    BY <1>8, <2>2a, <2>3
<1>10. r[0] = base
  BY <1>7, <1>8 DEF Run
<1>11. r \in [Nat -> A]
  BY <1>8, <1>9
<1> QED
  BY <1>9, <1>10, <1>11

\* MapThenFoldSet in the form of a function: it takes an element after the other
\* out of each subset of S.
Folding(S, A, base, step, pick) ==
    /\ IsFiniteSet(S) /\ base \in A /\ step \in [S \X A -> A]
    /\ \A s \in SUBSET S : s # {} => pick[s] \in s

Folded(S, A, base, step, pick, it) ==
    /\ it \in [SUBSET S -> A]
    /\ \A s \in SUBSET S : it[s] = IF s = {} THEN base ELSE step[<<pick[s], it[s \ {pick[s]}]>>]

LEMMA IteratesExist ==
    ASSUME NEW S, NEW A, NEW base, NEW step, NEW pick, Folding(S, A, base, step, pick)
    PROVE  \E it : Folded(S, A, base, step, pick, it)
<1> USE DEF Folding
<1>1. PICK B : B = [SUBSET S -> A]
  OBVIOUS
<1>2. PICK next : next = [p \in Nat \X B |-> [s \in SUBSET S |->
                    IF s = {} THEN base ELSE step[<<pick[s], p[2][s \ {pick[s]}]>>]]]
  OBVIOUS
<1>3. next \in [Nat \X B -> B]
  <2>1. ASSUME NEW b \in B, NEW s \in SUBSET S, s # {} PROVE step[<<pick[s], b[s \ {pick[s]}]>>] \in A
    <3>1. pick[s] \in S /\ s \ {pick[s]} \in SUBSET S
      BY <2>1
    <3>2. b[s \ {pick[s]}] \in A
      BY <1>1, <3>1
    <3> QED
      BY <3>1, <3>2
  <2>2. ASSUME NEW p \in Nat \X B PROVE next[p] \in B
    <3>1. p[2] \in B
      OBVIOUS
    <3> QED
      BY <1>1, <1>2, <2>1, <3>1
  <2> QED
    BY <1>2, <2>2
<1>4. PICK first : first = [s \in SUBSET S |-> base]
  OBVIOUS
<1>5. first \in B
  BY <1>1, <1>4
<1>5a. Steps(B, first, next)
  BY <1>3, <1>5 DEF Steps
<1>6. PICK r \in [Nat -> B] : r[0] = first /\ \A n \in Nat : r[n + 1] = next[<<n, r[n]>>]
  BY <1>5a, RunsExist
<1>7. \A s \in SUBSET S : IsFiniteSet(s) /\ Cardinality(s) \in Nat
  BY FS_Subset, FS_CardinalityType
<1>8. PICK it : it = [s \in SUBSET S |-> r[Cardinality(s)][s]]
  OBVIOUS
<1>9. it \in [SUBSET S -> A]
  BY <1>1, <1>6, <1>7, <1>8
<1>10. ASSUME NEW s \in SUBSET S
       PROVE  it[s] = IF s = {} THEN base ELSE step[<<pick[s], it[s \ {pick[s]}]>>]
  <2>1. CASE s = {}
    BY <1>4, <1>6, <1>8, <2>1, FS_EmptySet
  <2>2. CASE s # {}
    <3>1. PICK x : x = pick[s]
      OBVIOUS
    <3>2. PICK t : t = s \ {x}
      OBVIOUS
    <3>3. x \in s /\ t \in SUBSET S
      BY <2>2, <3>1, <3>2
    <3>4. Cardinality(t) = Cardinality(s) - 1
      BY <1>7, <3>2, <3>3, FS_RemoveElement
    <3>5. PICK n \in Nat : n = Cardinality(t) /\ Cardinality(s) = n + 1
      BY <1>7, <3>3, <3>4
    <3>6. it[s] = r[n + 1][s] /\ it[t] = r[n][t]
      BY <1>8, <3>3, <3>5
    <3>7. r[n + 1] = next[<<n, r[n]>>] /\ r[n] \in B
      BY <1>6
    <3>8. next[<<n, r[n]>>][s] = step[<<x, r[n][t]>>]
      BY <1>2, <2>2, <3>1, <3>2, <3>7
    <3> QED
      BY <2>2, <3>1, <3>2, <3>6, <3>7, <3>8
  <2> QED
    BY <2>1, <2>2
<1> QED
  BY <1>9, <1>10 DEF Folded

\* The last of the first numbers.
LEMMA LastOfFirst ==
    ASSUME NEW k \in Nat, k # 0
    PROVE  Max(1..k) = k /\ (1..k) \ {Max(1..k)} = 1..(k - 1) /\ 1..k # {}
<1>1. k \in 1..k /\ \A y \in 1..k : k >= y
  OBVIOUS
<1>2. \A x \in 1..k : (\A y \in 1..k : x >= y) => x = k
  BY <1>1
<1>3. Max(1..k) = k
  BY <1>1, <1>2 DEF Max
<1> QED
  BY <1>1, <1>3

LEMMA MaxIsMember ==
    ASSUME NEW n \in Nat, NEW s \in SUBSET (1..n), s # {}
    PROVE  Max(s) \in s
<1>1. PICK P : P = {i \in Nat : \A t \in SUBSET (1..i) : t # {} => \E x \in t : \A y \in t : x >= y}
  OBVIOUS
<1>2. 0 \in P
  <2>1. 1..0 = {}
    OBVIOUS
  <2> QED
    BY <1>1, <2>1
<1>3. ASSUME NEW i \in Nat, i \in P PROVE i + 1 \in P
  <2>1. ASSUME NEW t \in SUBSET (1..(i + 1)), t # {} PROVE \E x \in t : \A y \in t : x >= y
    <3>1. CASE i + 1 \in t
      BY <2>1, <3>1
    <3>2. CASE i + 1 \notin t
      <4>1. t \in SUBSET (1..i)
        BY <2>1, <3>2
      <4> QED
        BY <1>1, <1>3, <2>1, <4>1
    <3> QED
      BY <3>1, <3>2
  <2> QED
    BY <1>1, <2>1
<1>4. n \in P
  BY <1>2, <1>3, CountingUp
<1>5. \E x \in s : \A y \in s : x >= y
  BY <1>1, <1>4
<1> QED
  BY <1>5 DEF Max

-------------------------------------------------------------------------------
\* The three folds.

ParseDigit(value, digit) ==
    IF value = Invalid \/ digit \notin 0..(Base - 1) \/ value > (SizeMax - digit) \div Base
    THEN Invalid ELSE value * Base + digit

ParseIterates(digits, it) ==
    it = [s \in SUBSET DOMAIN digits |->
             IF s = {} THEN 0 ELSE ParseDigit(it[s \ {Max(s)}], digits[Max(s)])]

MeaningIterates(digits, it) ==
    it = [s \in SUBSET DOMAIN digits |->
             IF s = {} THEN 0 ELSE it[s \ {Max(s)}] * Base + digits[Max(s)]]

NothingParsed == [invalid |-> FALSE, has_length |-> FALSE, content_length |-> 0, chunked |-> FALSE]

HeaderIterates(headers, it) ==
    it = [s \in SUBSET DOMAIN headers |->
             IF s = {} THEN NothingParsed ELSE ParseHeader(it[s \ {Max(s)}], headers[Max(s)])]

LEMMA ParseUnfold ==
    ASSUME NEW digits, digits # <<>>
    PROVE  parse_decimal(digits) = (CHOOSE it : ParseIterates(digits, it))[DOMAIN digits]
  BY DEF parse_decimal, FoldLeft, MapThenFoldSet, ParseIterates, ParseDigit

LEMMA MeaningUnfold ==
    ASSUME NEW digits
    PROVE  Meaning(digits) = (CHOOSE it : MeaningIterates(digits, it))[DOMAIN digits]
  BY DEF Meaning, FoldLeft, MapThenFoldSet, MeaningIterates

LEMMA HeaderUnfold ==
    ASSUME NEW headers
    PROVE  ParsedHeaders(headers) = (CHOOSE it : HeaderIterates(headers, it))[DOMAIN headers]
  BY DEF ParsedHeaders, FoldLeft, MapThenFoldSet, HeaderIterates, NothingParsed

\* The iterates with Max, for a sequence of length n.
Stepping(n, A, base, step) == n \in Nat /\ base \in A /\ step \in [(1..n) \X A -> A]

FoldedLeft(n, A, base, step, it) ==
    /\ it \in [SUBSET (1..n) -> A]
    /\ \A s \in SUBSET (1..n) : it[s] = IF s = {} THEN base ELSE step[<<Max(s), it[s \ {Max(s)}]>>]

LEMMA LeftIterates ==
    ASSUME NEW n, NEW A, NEW base, NEW step, Stepping(n, A, base, step)
    PROVE  \E it : FoldedLeft(n, A, base, step, it)
<1>1. PICK S : S = 1..n
  OBVIOUS
<1>2. IsFiniteSet(S)
  BY <1>1, FS_Interval DEF Stepping
<1>3. PICK pick : pick = [s \in SUBSET S |-> Max(s)]
  OBVIOUS
<1>4. \A s \in SUBSET S : s # {} => pick[s] \in s
  BY <1>1, <1>3, MaxIsMember DEF Stepping
<1>5. Folding(S, A, base, step, pick)
  BY <1>1, <1>2, <1>4 DEF Stepping, Folding
<1>6. PICK it : Folded(S, A, base, step, pick, it)
  BY <1>5, IteratesExist
<1>7. FoldedLeft(n, A, base, step, it)
  BY <1>1, <1>3, <1>6 DEF Folded, FoldedLeft
<1> QED
  BY <1>7

\* What such iterates are after each element.
LEMMA FirstNumbers ==
    ASSUME NEW n \in Nat, NEW k \in 1..n
    PROVE  /\ Max(1..k) = k /\ (1..k) \ {Max(1..k)} = 1..(k - 1)
           /\ 1..k # {} /\ 1..k \in SUBSET (1..n)
<1>1. k \in Nat /\ k # 0 /\ 1..k \in SUBSET (1..n)
  OBVIOUS
<1>2. Max(1..k) = k /\ (1..k) \ {Max(1..k)} = 1..(k - 1) /\ 1..k # {}
  BY <1>1, LastOfFirst
<1> QED
  BY <1>1, <1>2

LEMMA BaseIsNat ==
    Base \in Nat \ {0} /\ SizeMax \in Nat \ {0} /\ Capacity \in Nat \ {0} /\ Capacity <= SizeMax
    /\ Digits \subseteq 0..(Base - 1)
  BY HttpFramingAssumption

LEMMA ParseRuns ==
    ASSUME NEW digits \in Seq(Int), digits # <<>>
    PROVE  \E r : /\ r[0] = 0 /\ parse_decimal(digits) = r[Len(digits)]
                  /\ \A k \in 1..Len(digits) : r[k] = ParseDigit(r[k - 1], digits[k])
<1>1. PICK n : n = Len(digits)
  OBVIOUS
<1>2. n \in Nat /\ DOMAIN digits = 1..n /\ \A i \in 1..n : digits[i] \in Int
  BY <1>1
<1>3. PICK step : step = [p \in (1..n) \X Int |-> ParseDigit(p[2], digits[p[1]])]
  OBVIOUS
<1>4. Stepping(n, Int, 0, step)
  <2>1. \A v, d \in Int : ParseDigit(v, d) \in Int
    BY BaseIsNat DEF ParseDigit, Invalid
  <2>2. \A p \in (1..n) \X Int : p[2] \in Int /\ digits[p[1]] \in Int
    BY <1>2
  <2>3. \A p \in (1..n) \X Int : step[p] \in Int
    BY <1>3, <2>1, <2>2
  <2>4. step \in [(1..n) \X Int -> Int]
    BY <1>3, <2>3
  <2> QED
    BY <1>2, <2>4 DEF Stepping
<1>5. PICK it : FoldedLeft(n, Int, 0, step, it)
  BY <1>4, LeftIterates
<1>6. ASSUME NEW s \in SUBSET (1..n), s # {}
      PROVE  step[<<Max(s), it[s \ {Max(s)}]>>] = ParseDigit(it[s \ {Max(s)}], digits[Max(s)])
  <2>1. Max(s) \in 1..n /\ s \ {Max(s)} \in SUBSET (1..n)
    BY <1>2, <1>6, MaxIsMember
  <2> QED
    BY <1>3, <1>5, <2>1 DEF FoldedLeft
<1>7. ParseIterates(digits, it)
  BY <1>2, <1>5, <1>6 DEF ParseIterates, FoldedLeft
<1>8. PICK iter : iter = CHOOSE i : ParseIterates(digits, i)
  OBVIOUS
<1>9. ParseIterates(digits, iter)
  BY <1>7, <1>8
<1>10. PICK r : r = [k \in 0..n |-> iter[1..k]]
  OBVIOUS
<1>11. r[0] = 0
  <2>1. 1..0 = {}
    OBVIOUS
  <2> QED
    BY <1>2, <1>9, <1>10, <2>1 DEF ParseIterates
<1>12. ASSUME NEW k \in 1..n PROVE r[k] = ParseDigit(r[k - 1], digits[k])
  <2>1. Max(1..k) = k /\ (1..k) \ {Max(1..k)} = 1..(k - 1) /\ 1..k # {} /\ 1..k \in SUBSET (1..n)
    BY <1>2, FirstNumbers
  <2>2. iter[1..k] = ParseDigit(iter[1..(k - 1)], digits[k])
    BY <1>2, <1>9, <2>1 DEF ParseIterates
  <2> QED
    BY <1>2, <1>10, <2>2
<1>13. parse_decimal(digits) = r[n]
  BY <1>2, <1>8, <1>10, ParseUnfold
<1> QED
  BY <1>1, <1>11, <1>12, <1>13

LEMMA MeaningRuns ==
    ASSUME NEW digits \in Seq(Int)
    PROVE  \E r : /\ r[0] = 0 /\ Meaning(digits) = r[Len(digits)]
                  /\ \A k \in 1..Len(digits) : r[k] = r[k - 1] * Base + digits[k]
<1>1. PICK n : n = Len(digits)
  OBVIOUS
<1>2. n \in Nat /\ DOMAIN digits = 1..n /\ \A i \in 1..n : digits[i] \in Int
  BY <1>1
<1>3. PICK step : step = [p \in (1..n) \X Int |-> p[2] * Base + digits[p[1]]]
  OBVIOUS
<1>4. Stepping(n, Int, 0, step)
  <2>1. \A v, d \in Int : v * Base + d \in Int
    BY BaseIsNat
  <2>2. \A p \in (1..n) \X Int : p[2] \in Int /\ digits[p[1]] \in Int
    BY <1>2
  <2>3. \A p \in (1..n) \X Int : step[p] \in Int
    BY <1>3, <2>1, <2>2
  <2>4. step \in [(1..n) \X Int -> Int]
    BY <1>3, <2>3
  <2> QED
    BY <1>2, <2>4 DEF Stepping
<1>5. PICK it : FoldedLeft(n, Int, 0, step, it)
  BY <1>4, LeftIterates
<1>6. ASSUME NEW s \in SUBSET (1..n), s # {}
      PROVE  step[<<Max(s), it[s \ {Max(s)}]>>] = it[s \ {Max(s)}] * Base + digits[Max(s)]
  <2>1. Max(s) \in 1..n /\ s \ {Max(s)} \in SUBSET (1..n)
    BY <1>2, <1>6, MaxIsMember
  <2>2. it[s \ {Max(s)}] \in Int
    BY <1>5, <2>1 DEF FoldedLeft
  <2> QED
    BY <1>3, <2>1, <2>2
<1>7. MeaningIterates(digits, it)
  BY <1>2, <1>5, <1>6 DEF MeaningIterates, FoldedLeft
<1>8. PICK iter : iter = CHOOSE i : MeaningIterates(digits, i)
  OBVIOUS
<1>9. MeaningIterates(digits, iter)
  BY <1>7, <1>8
<1>10. PICK r : r = [k \in 0..n |-> iter[1..k]]
  OBVIOUS
<1>11. r[0] = 0
  <2>1. 1..0 = {}
    OBVIOUS
  <2> QED
    BY <1>2, <1>9, <1>10, <2>1 DEF MeaningIterates
<1>12. ASSUME NEW k \in 1..n PROVE r[k] = r[k - 1] * Base + digits[k]
  <2>1. Max(1..k) = k /\ (1..k) \ {Max(1..k)} = 1..(k - 1) /\ 1..k # {} /\ 1..k \in SUBSET (1..n)
    BY <1>2, FirstNumbers
  <2>2. iter[1..k] = iter[1..(k - 1)] * Base + digits[k]
    BY <1>2, <1>9, <2>1 DEF MeaningIterates
  <2> QED
    BY <1>2, <1>10, <2>2
<1>13. Meaning(digits) = r[n]
  BY <1>2, <1>8, <1>10, MeaningUnfold
<1> QED
  BY <1>1, <1>11, <1>12, <1>13

-------------------------------------------------------------------------------
\* Numbers.

LEMMA Monotonic ==
    ASSUME NEW a \in Nat, NEW b \in Nat, a <= b, NEW c \in Nat
    PROVE  a * c <= b * c
<1>1. PICK d \in Nat : b = a + d
  OBVIOUS
<1>2. b * c = a * c + d * c /\ d * c \in Nat
  BY <1>1
<1> QED
  BY <1>2

\* The overflow test of parse_decimal.
LEMMA OverflowTest ==
    ASSUME NEW v \in 0..SizeMax, NEW d \in 0..(Base - 1)
    PROVE  v > (SizeMax - d) \div Base <=> v * Base + d > SizeMax
<1>1. PICK m \in Int : m = SizeMax - d
  BY BaseIsNat
<1>2. PICK q \in Int, w \in 0..(Base - 1) : q = m \div Base /\ m = Base * q + w
  BY BaseIsNat
<1>3. CASE v > q
  <2>1. CASE q + 1 >= 0
    <3>1. (q + 1) * Base <= v * Base
      BY <1>3, <2>1, BaseIsNat, Monotonic
    <3>2. (q + 1) * Base = Base * q + Base
      BY BaseIsNat
    <3>3. v * Base \in Nat /\ Base * q \in Int /\ Base \in Nat /\ (q + 1) * Base \in Int
      BY BaseIsNat
    <3>4. v * Base > m
      BY <1>2, <3>1, <3>2, <3>3
    <3> QED
      BY <1>1, <1>2, <1>3, <3>3, <3>4, BaseIsNat
  <2>2. CASE ~(q + 1 >= 0)
    <3>1. PICK e \in Nat : q = -2 - e
      BY <2>2
    <3>2. Base * q = -(2 * Base) - e * Base /\ e * Base \in Nat /\ v * Base \in Nat
      BY <3>1, BaseIsNat
    <3>3. m < 0
      BY <1>2, <3>2, BaseIsNat
    <3> QED
      BY <1>1, <1>2, <1>3, <3>2, <3>3, BaseIsNat
  <2> QED
    BY <2>1, <2>2
<1>4. CASE v <= q
  <2>1. v * Base <= q * Base
    BY <1>4, BaseIsNat, Monotonic
  <2>2. q * Base = Base * q /\ v * Base \in Nat /\ Base * q \in Int
    BY BaseIsNat
  <2>3. v * Base <= m
    BY <1>2, <2>1, <2>2
  <2> QED
    BY <1>1, <1>2, <1>4, <2>2, <2>3, BaseIsNat
<1> QED
  BY <1>3, <1>4

\* parse_decimal reads the number that the digits mean, if a size_t has it.
LEMMA DigitsAreRead ==
    ASSUME NEW digits \in Seq(Digits), digits # <<>>
    PROVE  /\ Meaning(digits) \in Nat
           /\ parse_decimal(digits) = IF Meaning(digits) <= SizeMax THEN Meaning(digits) ELSE Invalid
<1>1. PICK n : n = Len(digits)
  OBVIOUS
<1>2. n \in Nat /\ \A i \in 1..n : digits[i] \in 0..(Base - 1)
  <2>1. n \in Nat /\ \A i \in 1..n : digits[i] \in Digits
    BY <1>1
  <2> QED
    BY <2>1, BaseIsNat
<1>3. digits \in Seq(Int)
  <2>1. digits \in [1..n -> Int]
    BY <1>1, <1>2
  <2> QED
    BY <1>2, <2>1
<1>4. PICK p : /\ p[0] = 0 /\ parse_decimal(digits) = p[n]
               /\ \A k \in 1..n : p[k] = ParseDigit(p[k - 1], digits[k])
  BY <1>1, <1>3, ParseRuns
<1>5. PICK m : /\ m[0] = 0 /\ Meaning(digits) = m[n]
               /\ \A k \in 1..n : m[k] = m[k - 1] * Base + digits[k]
  BY <1>1, <1>3, MeaningRuns
<1>6. PICK P : P = {k \in Nat : k <= n => m[k] \in Nat /\ p[k] = IF m[k] <= SizeMax THEN m[k] ELSE Invalid}
  OBVIOUS
<1>7. 0 \in P
  BY <1>4, <1>5, <1>6, BaseIsNat
<1>8. ASSUME NEW k \in Nat, k \in P, k + 1 <= n
      PROVE  m[k + 1] \in Nat /\ p[k + 1] = IF m[k + 1] <= SizeMax THEN m[k + 1] ELSE Invalid
  <2>1. k + 1 \in 1..n /\ (k + 1) - 1 = k /\ k <= n
    BY <1>2, <1>8
  <2>2. PICK v : v = m[k]
    OBVIOUS
  <2>3. PICK d : d = digits[k + 1]
    OBVIOUS
  <2>4. /\ v \in Nat /\ d \in 0..(Base - 1) /\ p[k] = IF v <= SizeMax THEN v ELSE Invalid
        /\ m[k + 1] = v * Base + d /\ p[k + 1] = ParseDigit(p[k], d)
    BY <1>2, <1>4, <1>5, <1>6, <1>8, <2>1, <2>2, <2>3
  <2>5. m[k + 1] \in Nat /\ v <= v * Base
    BY <2>4, BaseIsNat, Monotonic
  <2>6. CASE v <= SizeMax
    <3>1. v \in 0..SizeMax /\ p[k] = v /\ v # Invalid
      BY <2>4, <2>6, BaseIsNat DEF Invalid
    <3>2. v > (SizeMax - d) \div Base <=> v * Base + d > SizeMax
      BY <2>4, <3>1, OverflowTest
    <3>3. p[k + 1] = IF v * Base + d > SizeMax THEN Invalid ELSE v * Base + d
      BY <2>4, <3>1, <3>2 DEF ParseDigit
    <3> QED
      BY <2>4, <2>5, <3>3, BaseIsNat
  <2>7. CASE ~(v <= SizeMax)
    <3>1. p[k] = Invalid /\ p[k + 1] = Invalid
      BY <2>4, <2>7 DEF ParseDigit
    <3>2. ~(m[k + 1] <= SizeMax)
      BY <2>4, <2>5, <2>7, BaseIsNat
    <3> QED
      BY <2>5, <3>1, <3>2
  <2> QED
    BY <2>6, <2>7
<1>9. Nat \subseteq P
  <2>1. \A k \in Nat : k \in P => k + 1 \in P
    BY <1>6, <1>8
  <2> QED
    BY <1>7, <2>1, CountingUp
<1> QED
  BY <1>2, <1>4, <1>5, <1>6, <1>9

LEMMA ValuesAreRead ==
    ASSUME NEW value \in Values
    PROVE  /\ value \in {<<>>, NotANumber} => parse_decimal(value) = Invalid
           /\ value \notin {<<>>, NotANumber} =>
                 /\ Meaning(value) \in Nat
                 /\ parse_decimal(value) = IF Meaning(value) <= SizeMax THEN Meaning(value) ELSE Invalid
<1>1. CASE value = <<>>
  BY <1>1 DEF parse_decimal
<1>2. CASE value = NotANumber
  <2>1. value \in Seq(Int) /\ Len(value) = 1 /\ value[1] = -1 /\ value # <<>>
    BY <1>2 DEF NotANumber
  <2>2. PICK r : r[0] = 0 /\ parse_decimal(value) = r[1] /\ \A k \in 1..1 : r[k] = ParseDigit(r[k - 1], value[k])
    BY <2>1, ParseRuns
  <2>3. r[1] = ParseDigit(0, -1)
    BY <2>1, <2>2
  <2>4. -1 \notin 0..(Base - 1)
    BY BaseIsNat
  <2>5. r[1] = Invalid
    BY <2>3, <2>4 DEF ParseDigit
  <2> QED
    BY <1>2, <2>1, <2>2, <2>5
<1>3. CASE value \notin {<<>>, NotANumber}
  <2>0. value \in UNION {[1..n -> Digits] : n \in 0..MaxDigits}
    <3>1. value \in (UNION {[1..n -> Digits] : n \in 0..MaxDigits}) \cup {NotANumber}
      BY DEF Values
    <3>2. value # NotANumber
      BY <1>3
    <3> QED
      BY <3>1, <3>2
  <2>1. PICK n \in 0..MaxDigits : value \in [1..n -> Digits]
    BY <2>0
  <2>2. value \in Seq(Digits)
    BY <2>1, HttpFramingAssumption
  <2> QED
    BY <1>3, <2>2, DigitsAreRead
<1> QED
  BY <1>1, <1>2, <1>3

-------------------------------------------------------------------------------
\* Headers.

Parsed == [invalid : BOOLEAN, has_length : BOOLEAN, content_length : Nat, chunked : BOOLEAN]

\* A content length whose digits are those of a size_t.
LengthOf(header, number) ==
    /\ header.value \notin {<<>>, NotANumber}
    /\ number = Meaning(header.value)
    /\ number \in Nat
    /\ number <= SizeMax

\* What ParseHeader makes of a header, with the number it stands for.
LEMMA ParseHeaderReads ==
    ASSUME NEW parsed \in Parsed, NEW header \in Headers
    PROVE  /\ ParseHeader(parsed, header) \in Parsed
           /\ parsed.invalid => ParseHeader(parsed, header) = parsed
           /\ ~parsed.invalid /\ header.name = "content-length" =>
                 ParseHeader(parsed, header) =
                   IF LengthOf(header, Meaning(header.value))
                      /\ (parsed.has_length => parsed.content_length = Meaning(header.value))
                   THEN [parsed EXCEPT !.has_length = TRUE, !.content_length = Meaning(header.value)]
                   ELSE [parsed EXCEPT !.invalid = TRUE]
           /\ ~parsed.invalid /\ header.name = "transfer-encoding" =>
                 ParseHeader(parsed, header) =
                   IF header.value # <<>> THEN [parsed EXCEPT !.chunked = TRUE] ELSE parsed
           /\ ~parsed.invalid /\ header.name = "no colon" =>
                 ParseHeader(parsed, header) = [parsed EXCEPT !.invalid = TRUE]
           /\ ~parsed.invalid /\ header.name = "other" => ParseHeader(parsed, header) = parsed
<1>1. header.name \in {"content-length", "transfer-encoding", "other", "no colon"}
  BY DEF Headers
<1>2. PICK number : number = Meaning(header.value)
  OBVIOUS
<1>3. PICK value : value = parse_decimal(header.value)
  OBVIOUS
<1>4. CASE header.name = "content-length"
  <2>1. header.value \in Values
    BY <1>4 DEF Headers
  <2>2. header.value \in {<<>>, NotANumber} => value = Invalid
    BY <1>3, <2>1, ValuesAreRead
  <2>3. header.value \notin {<<>>, NotANumber} =>
          number \in Nat /\ value = IF number <= SizeMax THEN number ELSE Invalid
    BY <1>2, <1>3, <2>1, ValuesAreRead
  <2>4. LengthOf(header, number) <=> value # Invalid
    BY <1>2, <2>2, <2>3 DEF LengthOf, Invalid
  <2>5. LengthOf(header, number) => value = number /\ number \in Nat
    BY <2>3 DEF LengthOf
  <2>6. ParseHeader(parsed, header) =
          IF parsed.invalid THEN parsed
          ELSE IF value = Invalid \/ (parsed.has_length /\ value # parsed.content_length)
          THEN [parsed EXCEPT !.invalid = TRUE]
          ELSE [parsed EXCEPT !.has_length = TRUE, !.content_length = value]
    BY <1>3, <1>4 DEF ParseHeader
  <2>7. ~parsed.invalid => ParseHeader(parsed, header) =
          IF LengthOf(header, number) /\ (parsed.has_length => parsed.content_length = number)
          THEN [parsed EXCEPT !.has_length = TRUE, !.content_length = number]
          ELSE [parsed EXCEPT !.invalid = TRUE]
    <3>1. CASE LengthOf(header, number)
      BY <2>4, <2>5, <2>6, <3>1
    <3>2. CASE ~LengthOf(header, number)
      BY <2>4, <2>6, <3>2
    <3> QED
      BY <3>1, <3>2
  <2>8. ParseHeader(parsed, header) \in Parsed
    BY <2>5, <2>6, <2>7 DEF Parsed
  <2> QED
    BY <1>2, <1>4, <2>6, <2>7, <2>8
<1>5. CASE header.name = "transfer-encoding"
  <2>1. ParseHeader(parsed, header) =
          IF parsed.invalid THEN parsed
          ELSE IF header.value # <<>> THEN [parsed EXCEPT !.chunked = TRUE] ELSE parsed
    BY <1>5 DEF ParseHeader
  <2> QED
    BY <1>5, <2>1 DEF Parsed
<1>6. CASE header.name = "no colon"
  <2>1. ParseHeader(parsed, header) =
          IF parsed.invalid THEN parsed ELSE [parsed EXCEPT !.invalid = TRUE]
    BY <1>6 DEF ParseHeader
  <2> QED
    BY <1>6, <2>1 DEF Parsed
<1>7. CASE header.name = "other"
  <2>1. ParseHeader(parsed, header) = parsed
    BY <1>7 DEF ParseHeader
  <2> QED
    BY <1>7, <2>1
<1> QED
  BY <1>1, <1>4, <1>5, <1>6, <1>7

LEMMA HeaderRuns ==
    ASSUME NEW headers \in Seq(Headers)
    PROVE  \E r : /\ r[0] = NothingParsed /\ ParsedHeaders(headers) = r[Len(headers)]
                  /\ \A k \in 1..Len(headers) : r[k] = ParseHeader(r[k - 1], headers[k])
<1>1. PICK n : n = Len(headers)
  OBVIOUS
<1>2. n \in Nat /\ DOMAIN headers = 1..n /\ \A i \in 1..n : headers[i] \in Headers
  BY <1>1
<1>3. PICK step : step = [p \in (1..n) \X Parsed |-> ParseHeader(p[2], headers[p[1]])]
  OBVIOUS
<1>4. Stepping(n, Parsed, NothingParsed, step)
  <2>1. \A p \in (1..n) \X Parsed : p[2] \in Parsed /\ headers[p[1]] \in Headers
    BY <1>2
  <2>2. \A p \in (1..n) \X Parsed : step[p] \in Parsed
    BY <1>3, <2>1, ParseHeaderReads
  <2>3. step \in [(1..n) \X Parsed -> Parsed]
    BY <1>3, <2>2
  <2>4. NothingParsed \in Parsed
    BY DEF NothingParsed, Parsed
  <2> QED
    BY <1>2, <2>3, <2>4 DEF Stepping
<1>5. PICK it : FoldedLeft(n, Parsed, NothingParsed, step, it)
  BY <1>4, LeftIterates
<1>6. ASSUME NEW s \in SUBSET (1..n), s # {}
      PROVE  step[<<Max(s), it[s \ {Max(s)}]>>] = ParseHeader(it[s \ {Max(s)}], headers[Max(s)])
  <2>1. Max(s) \in 1..n /\ s \ {Max(s)} \in SUBSET (1..n)
    BY <1>2, <1>6, MaxIsMember
  <2>2. it[s \ {Max(s)}] \in Parsed
    BY <1>5, <2>1 DEF FoldedLeft
  <2> QED
    BY <1>3, <2>1, <2>2
<1>7. HeaderIterates(headers, it)
  BY <1>2, <1>5, <1>6 DEF HeaderIterates, FoldedLeft
<1>8. PICK iter : iter = CHOOSE i : HeaderIterates(headers, i)
  OBVIOUS
<1>9. HeaderIterates(headers, iter)
  BY <1>7, <1>8
<1>10. PICK r : r = [k \in 0..n |-> iter[1..k]]
  OBVIOUS
<1>11. r[0] = NothingParsed
  <2>1. 1..0 = {}
    OBVIOUS
  <2> QED
    BY <1>2, <1>9, <1>10, <2>1 DEF HeaderIterates
<1>12. ASSUME NEW k \in 1..n PROVE r[k] = ParseHeader(r[k - 1], headers[k])
  <2>1. Max(1..k) = k /\ (1..k) \ {Max(1..k)} = 1..(k - 1) /\ 1..k # {} /\ 1..k \in SUBSET (1..n)
    BY <1>2, FirstNumbers
  <2>2. iter[1..k] = ParseHeader(iter[1..(k - 1)], headers[k])
    BY <1>2, <1>9, <2>1 DEF HeaderIterates
  <2> QED
    BY <1>2, <1>10, <2>2
<1>13. ParsedHeaders(headers) = r[n]
  BY <1>2, <1>8, <1>10, HeaderUnfold
<1> QED
  BY <1>1, <1>11, <1>12, <1>13

\* What is known of a message when its first k headers have been parsed.
Lengths(headers, k) == {i \in 1..k : headers[i].name = "content-length"}

Acceptable(headers, k) ==
    /\ \A i \in 1..k : headers[i].name # "no colon"
    /\ \A i \in Lengths(headers, k) : LengthOf(headers[i], Meaning(headers[i].value))
    /\ \A i, j \in Lengths(headers, k) : Meaning(headers[i].value) = Meaning(headers[j].value)

Described(headers, k, parsed) ==
    /\ parsed \in Parsed
    /\ parsed.invalid <=> ~Acceptable(headers, k)
    /\ ~parsed.invalid =>
         /\ parsed.has_length <=> Lengths(headers, k) # {}
         /\ \A i \in Lengths(headers, k) : parsed.content_length = Meaning(headers[i].value)
         /\ ~parsed.has_length => parsed.content_length = 0
         /\ parsed.chunked <=> \E i \in 1..k : /\ headers[i].name = "transfer-encoding"
                                               /\ headers[i].value # <<>>

LEMMA NothingDescribed ==
    ASSUME NEW headers
    PROVE  Described(headers, 0, NothingParsed)
<1>1. 1..0 = {}
  OBVIOUS
<1>2. Lengths(headers, 0) = {}
  BY <1>1 DEF Lengths
<1>3. NothingParsed \in Parsed
  BY DEF NothingParsed, Parsed
<1> QED
  BY <1>1, <1>2, <1>3 DEF Described, Acceptable, NothingParsed

LEMMA NextDescribed ==
    ASSUME NEW headers \in Seq(Headers), NEW k \in Nat, k + 1 <= Len(headers),
           NEW parsed, Described(headers, k, parsed)
    PROVE  Described(headers, k + 1, ParseHeader(parsed, headers[k + 1]))
<1>1. PICK l : l = k + 1
  OBVIOUS
<1>2. PICK header \in Headers : header = headers[l]
  BY <1>1
<1>3. PICK after : after = ParseHeader(parsed, header)
  OBVIOUS
<1>4. l \in 1..l /\ l \notin 1..k /\ 1..l = (1..k) \cup {l}
  BY <1>1
<1>5. parsed \in Parsed
  BY DEF Described
<1>6. Acceptable(headers, l) => Acceptable(headers, k)
  BY <1>4 DEF Acceptable, Lengths
<1>7. header.name \in {"content-length", "transfer-encoding", "other", "no colon"}
  BY DEF Headers
<1>8. after \in Parsed
  BY <1>3, <1>5, ParseHeaderReads
<1>9. CASE parsed.invalid
  <2>1. after = parsed
    BY <1>3, <1>5, <1>9, ParseHeaderReads
  <2>2. ~Acceptable(headers, l)
    BY <1>6, <1>9 DEF Described
  <2> QED
    BY <1>1, <1>2, <1>3, <1>5, <1>9, <2>1, <2>2 DEF Described
<1>10. CASE ~parsed.invalid /\ header.name = "content-length"
  <2>1. PICK number : number = Meaning(header.value)
    OBVIOUS
  <2>2. Acceptable(headers, k)
    BY <1>10 DEF Described
  <2>3. Lengths(headers, l) = Lengths(headers, k) \cup {l}
    BY <1>2, <1>4, <1>10 DEF Lengths
  <2>4. after = IF LengthOf(header, number) /\ (parsed.has_length => parsed.content_length = number)
                THEN [parsed EXCEPT !.has_length = TRUE, !.content_length = number]
                ELSE [parsed EXCEPT !.invalid = TRUE]
    BY <1>3, <1>5, <1>10, <2>1, ParseHeaderReads
  <2>5. Acceptable(headers, l) <=>
          LengthOf(header, number) /\ (parsed.has_length => parsed.content_length = number)
    <3>1. Acceptable(headers, l) <=>
            /\ LengthOf(header, number)
            /\ \A i \in Lengths(headers, k) : Meaning(headers[i].value) = number
      BY <1>2, <1>4, <1>10, <2>1, <2>2, <2>3 DEF Acceptable
    <3>2. (\A i \in Lengths(headers, k) : Meaning(headers[i].value) = number)
            <=> (parsed.has_length => parsed.content_length = number)
      BY <1>10 DEF Described
    <3> QED
      BY <3>1, <3>2
  <2>6. CASE Acceptable(headers, l)
    <3>1. after = [parsed EXCEPT !.has_length = TRUE, !.content_length = number]
      BY <2>4, <2>5, <2>6
    <3>2. after.has_length /\ after.content_length = number /\ after.chunked = parsed.chunked /\ ~after.invalid
      BY <1>5, <1>10, <3>1 DEF Parsed
    <3>3. \A i \in Lengths(headers, l) : Meaning(headers[i].value) = number
      BY <1>2, <2>1, <2>3, <2>6 DEF Acceptable
    <3>4. (\E i \in 1..l : headers[i].name = "transfer-encoding" /\ headers[i].value # <<>>)
            <=> \E i \in 1..k : headers[i].name = "transfer-encoding" /\ headers[i].value # <<>>
      BY <1>2, <1>4, <1>10
    <3>5. Described(headers, l, after)
      BY <1>8, <1>10, <2>3, <2>6, <3>2, <3>3, <3>4 DEF Described
    <3> QED
      BY <1>1, <1>2, <1>3, <3>5
  <2>7. CASE ~Acceptable(headers, l)
    <3>1. after = [parsed EXCEPT !.invalid = TRUE]
      BY <2>4, <2>5, <2>7
    <3>2. after.invalid
      BY <1>5, <3>1 DEF Parsed
    <3>3. Described(headers, l, after)
      BY <1>8, <2>7, <3>2 DEF Described
    <3> QED
      BY <1>1, <1>2, <1>3, <3>3
  <2> QED
    BY <2>6, <2>7
<1>11. CASE ~parsed.invalid /\ header.name = "no colon"
  <2>1. after = [parsed EXCEPT !.invalid = TRUE]
    BY <1>3, <1>5, <1>11, ParseHeaderReads
  <2>2. after.invalid
    BY <1>5, <2>1 DEF Parsed
  <2>3. ~Acceptable(headers, l)
    BY <1>2, <1>4, <1>11 DEF Acceptable
  <2>4. Described(headers, l, after)
    BY <1>8, <2>2, <2>3 DEF Described
  <2> QED
    BY <1>1, <1>2, <1>3, <2>4
<1>12. CASE ~parsed.invalid /\ header.name \in {"transfer-encoding", "other"}
  <2>1. Lengths(headers, l) = Lengths(headers, k)
    BY <1>2, <1>4, <1>12 DEF Lengths
  <2>2. Acceptable(headers, l) <=> Acceptable(headers, k)
    BY <1>2, <1>4, <1>12, <2>1 DEF Acceptable
  <2>3. after = IF header.name = "transfer-encoding" /\ header.value # <<>>
                THEN [parsed EXCEPT !.chunked = TRUE] ELSE parsed
    <3>1. CASE header.name = "transfer-encoding"
      BY <1>3, <1>5, <1>12, <3>1, ParseHeaderReads
    <3>2. CASE header.name = "other"
      BY <1>3, <1>5, <1>12, <3>2, ParseHeaderReads
    <3> QED
      BY <1>12, <3>1, <3>2
  <2>4. /\ after.invalid = parsed.invalid /\ after.has_length = parsed.has_length
        /\ after.content_length = parsed.content_length
        /\ after.chunked <=> parsed.chunked \/ (header.name = "transfer-encoding" /\ header.value # <<>>)
    BY <1>5, <2>3 DEF Parsed
  <2>5. (\E i \in 1..l : headers[i].name = "transfer-encoding" /\ headers[i].value # <<>>)
          <=> \/ \E i \in 1..k : headers[i].name = "transfer-encoding" /\ headers[i].value # <<>>
              \/ header.name = "transfer-encoding" /\ header.value # <<>>
    BY <1>2, <1>4
  <2>6. Described(headers, l, after)
    BY <1>8, <2>1, <2>2, <2>4, <2>5 DEF Described
  <2> QED
    BY <1>1, <1>2, <1>3, <2>6
<1> QED
  BY <1>7, <1>9, <1>10, <1>11, <1>12

\* parse_headers reads off a message what Proper, Declared and Chunked say of it.
LEMMA HeadersAreParsed ==
    ASSUME NEW m \in Messages, NEW parsed, parsed = ParsedHeaders(m.headers)
    PROVE  /\ (~m.valid_line \/ parsed.invalid) <=> ~Proper(m)
           /\ Proper(m) => /\ parsed.content_length = Declared(m)
                           /\ parsed.chunked <=> Chunked(m)
           /\ Proper(m) => Declared(m) \in Nat
           /\ HeaderEnd(m) \in Nat /\ HeaderEnd(m) >= 2
<1>1. PICK headers : headers = m.headers
  OBVIOUS
<1>2. headers \in Seq(Headers)
  <2>1. headers \in UNION {[1..n -> Headers] : n \in 0..MaxHeaders}
    BY <1>1 DEF Messages
  <2>2. PICK n \in 0..MaxHeaders : headers \in [1..n -> Headers]
    BY <2>1
  <2> QED
    BY <2>2, HttpFramingAssumption
<1>3. PICK n \in Nat : n = Len(headers) /\ DOMAIN headers = 1..n
  BY <1>2
<1>4. PICK r : /\ r[0] = NothingParsed /\ ParsedHeaders(headers) = r[n]
               /\ \A k \in 1..n : r[k] = ParseHeader(r[k - 1], headers[k])
  BY <1>2, <1>3, HeaderRuns
<1>5. PICK P : P = {k \in Nat : k <= n => Described(headers, k, r[k])}
  OBVIOUS
<1>6. 0 \in P
  BY <1>4, <1>5, NothingDescribed
<1>7. ASSUME NEW k \in Nat, k \in P PROVE k + 1 \in P
  <2>1. CASE k + 1 <= n
    <3>1. k + 1 \in 1..n /\ (k + 1) - 1 = k /\ k <= n
      BY <1>3, <2>1
    <3>2. Described(headers, k, r[k]) /\ r[k + 1] = ParseHeader(r[k], headers[k + 1])
      BY <1>4, <1>5, <1>7, <3>1
    <3>3. Described(headers, k + 1, r[k + 1])
      BY <1>2, <1>3, <2>1, <3>2, NextDescribed
    <3> QED
      BY <1>5, <3>3
  <2>2. CASE ~(k + 1 <= n)
    BY <1>5, <2>2
  <2> QED
    BY <2>1, <2>2
<1>8. Described(headers, n, parsed)
  <2>1. Nat \subseteq P
    BY <1>6, <1>7, CountingUp
  <2>2. n \in P
    BY <2>1
  <2>3. Described(headers, n, r[n])
    BY <1>5, <2>2
  <2> QED
    BY <1>1, <1>4, <2>3
<1>9. LengthHeaders(m) = Lengths(headers, n)
  BY <1>1, <1>3 DEF LengthHeaders, Lengths
<1>10. Proper(m) <=> m.valid_line /\ Acceptable(headers, n)
  <2>1. \A i \in Lengths(headers, n) :
           LengthOf(headers[i], Meaning(headers[i].value)) <=>
             headers[i].value \notin {<<>>, NotANumber} /\ Meaning(headers[i].value) <= SizeMax
    <3>1. ASSUME NEW i \in Lengths(headers, n), headers[i].value \notin {<<>>, NotANumber}
          PROVE  Meaning(headers[i].value) \in Nat
      <4>1. headers[i] \in Headers /\ headers[i].name = "content-length"
        BY <1>2, <1>3, <3>1 DEF Lengths
      <4>2. headers[i].value \in Values
        BY <4>1 DEF Headers
      <4> QED
        BY <3>1, <4>2, ValuesAreRead
    <3> QED
      BY <3>1 DEF LengthOf
  <2>2. PICK L : L = Lengths(headers, n)
    OBVIOUS
  <2>3. Acceptable(headers, n) <=>
          /\ \A i \in 1..n : headers[i].name # "no colon"
          /\ \A i \in L : headers[i].value \notin {<<>>, NotANumber} /\ Meaning(headers[i].value) <= SizeMax
          /\ \A i, j \in L : Meaning(headers[i].value) = Meaning(headers[j].value)
    BY <2>1, <2>2, Zenon DEF Acceptable
  <2>4. Proper(m) <=>
          /\ m.valid_line
          /\ \A i \in 1..n : headers[i].name # "no colon"
          /\ \A i \in L : headers[i].value \notin {<<>>, NotANumber} /\ Meaning(headers[i].value) <= SizeMax
          /\ \A i, j \in L : Meaning(headers[i].value) = Meaning(headers[j].value)
    <3>1. m.headers = headers /\ DOMAIN headers = 1..n /\ LengthHeaders(m) = L
      BY <1>1, <1>3, <1>9, <2>2
    <3>2. Proper(m) <=>
            /\ m.valid_line
            /\ \A i \in DOMAIN m.headers : m.headers[i].name # "no colon"
            /\ \A i \in L : m.headers[i].value \notin {<<>>, NotANumber} /\ Meaning(m.headers[i].value) <= SizeMax
            /\ \A i, j \in L : Meaning(m.headers[i].value) = Meaning(m.headers[j].value)
      BY <3>1, Zenon DEF Proper
    <3> QED
      BY <3>1, <3>2
  <2> QED
    BY <2>3, <2>4
<1>11. m.valid_line \in BOOLEAN
  BY DEF Messages
<1>12. ASSUME Proper(m) PROVE parsed.content_length = Declared(m) /\ Declared(m) \in Nat
  <2>1. ~parsed.invalid /\ parsed.content_length \in Nat
    BY <1>8, <1>10, <1>12 DEF Described, Parsed
  <2>2. CASE LengthHeaders(m) = {}
    BY <1>8, <1>9, <2>1, <2>2 DEF Described, Declared
  <2>3. CASE LengthHeaders(m) # {}
    <3>1. PICK i : i = CHOOSE h \in LengthHeaders(m) : TRUE
      OBVIOUS
    <3>2. i \in Lengths(headers, n)
      BY <1>9, <2>3, <3>1
    <3>3. parsed.content_length = Meaning(headers[i].value)
      BY <1>8, <2>1, <3>2 DEF Described
    <3> QED
      BY <1>1, <2>1, <2>3, <3>1, <3>3 DEF Declared
  <2> QED
    BY <2>2, <2>3
<1>13. Proper(m) => (parsed.chunked <=> Chunked(m))
  BY <1>1, <1>3, <1>8, <1>10 DEF Described, Chunked
<1>14. HeaderEnd(m) \in Nat /\ HeaderEnd(m) >= 2
  BY <1>1, <1>3 DEF HeaderEnd
<1>15. (~m.valid_line \/ parsed.invalid) <=> ~Proper(m)
  BY <1>8, <1>10, <1>11 DEF Described
<1> QED
  BY <1>12, <1>13, <1>14, <1>15

\* request_complete, in the words of the properties.
LEMMA CompleteIsMeant ==
    ASSUME NEW m \in Messages, NEW n \in Nat
    PROVE  request_complete(m, n, Capacity) =
             IF n < HeaderEnd(m) THEN "NEED_MORE"
             ELSE IF ~Proper(m) THEN "INVALID"
             ELSE IF Chunked(m) THEN "UNSUPPORTED"
             ELSE IF HeaderEnd(m) + Declared(m) > Capacity THEN "TOO_LARGE"
             ELSE IF n >= HeaderEnd(m) + Declared(m) THEN "COMPLETE"
             ELSE "NEED_MORE"
<1>1. PICK parsed : parsed = ParsedHeaders(m.headers)
  OBVIOUS
<1>2. PICK end : end = HeaderEnd(m)
  OBVIOUS
<1>3. request_complete(m, n, Capacity) =
        IF n < end THEN "NEED_MORE"
        ELSE IF ~m.valid_line \/ parsed.invalid THEN "INVALID"
        ELSE IF parsed.chunked THEN "UNSUPPORTED"
        ELSE IF end > Capacity \/ parsed.content_length > Capacity - end THEN "TOO_LARGE"
        ELSE IF n >= end + parsed.content_length THEN "COMPLETE"
        ELSE "NEED_MORE"
  BY <1>1, <1>2 DEF request_complete
<1>4. (~m.valid_line \/ parsed.invalid) <=> ~Proper(m)
  BY <1>1, HeadersAreParsed
<1>5. end \in Nat /\ Capacity \in Nat
  BY <1>2, HeadersAreParsed, BaseIsNat
<1>6. CASE ~Proper(m)
  BY <1>2, <1>3, <1>4, <1>6
<1>7. CASE Proper(m)
  <2>1. parsed.content_length = Declared(m) /\ Declared(m) \in Nat /\ (parsed.chunked <=> Chunked(m))
    BY <1>1, <1>7, HeadersAreParsed
  <2>2. (end > Capacity \/ Declared(m) > Capacity - end) <=> end + Declared(m) > Capacity
    BY <1>5, <2>1
  <2> QED
    BY <1>2, <1>3, <1>4, <1>7, <2>1, <2>2
<1> QED
  BY <1>6, <1>7

-------------------------------------------------------------------------------
\* Receiving.

\* The client closes its end after the last byte, what is not finished could not
\* be finished with what is there, and what is finished is so for good.
FramingInv ==
    /\ TypeOK
    /\ length <= message.sent
    /\ closed => length = message.sent
    /\ framing = "NEED_MORE" => request_complete(message, length, Capacity) = "NEED_MORE"
    /\ FramingIgnoresChunks

LEMMA InitFramingInv == Init => FramingInv
<1> SUFFICES ASSUME Init PROVE FramingInv
  OBVIOUS
<1>1. message \in Messages /\ closed = FALSE /\ length = 0 /\ framing = "NEED_MORE"
  BY DEF Init
<1>2. TypeOK
  <2>1. closed \in BOOLEAN /\ length \in 0..Capacity
    <3>1. 0 \in 0..Capacity
      BY BaseIsNat
    <3> QED
      BY <1>1, <3>1
  <2> QED
    BY <1>1, <2>1 DEF TypeOK
<1>3. length <= message.sent
  BY <1>1, HttpFramingAssumption DEF Messages
<1>4. request_complete(message, length, Capacity) = "NEED_MORE"
  BY <1>1, CompleteIsMeant, HeadersAreParsed
<1> QED
  BY <1>1, <1>2, <1>3, <1>4 DEF FramingInv, FramingIgnoresChunks, CompleteMeansWholeBody

\* Where bytes that were read decide, they decide as the whole message would.
LEMMA DecidedAsMeant ==
    ASSUME NEW m \in Messages, NEW n \in Nat, n <= m.sent, n <= Capacity,
           NEW result, result = request_complete(m, n, Capacity), result # "NEED_MORE"
    PROVE  /\ result \in {"INVALID", "UNSUPPORTED", "TOO_LARGE", "COMPLETE"}
           /\ result = Meant(m)
           /\ result = "COMPLETE" => HeaderEnd(m) + Declared(m) <= n
<1>1. result = IF n < HeaderEnd(m) THEN "NEED_MORE"
             ELSE IF ~Proper(m) THEN "INVALID"
             ELSE IF Chunked(m) THEN "UNSUPPORTED"
             ELSE IF HeaderEnd(m) + Declared(m) > Capacity THEN "TOO_LARGE"
             ELSE IF n >= HeaderEnd(m) + Declared(m) THEN "COMPLETE"
             ELSE "NEED_MORE"
  BY CompleteIsMeant
<1>2. HeaderEnd(m) \in Nat /\ Capacity \in Nat /\ m.sent \in Nat
  BY HeadersAreParsed, HttpFramingAssumption DEF Messages
<1>3. Proper(m) => Declared(m) \in Nat
  BY HeadersAreParsed
<1>4. HeaderEnd(m) <= n
  BY <1>1, <1>2
<1>5. HeaderEnd(m) <= m.sent /\ HeaderEnd(m) <= Capacity
  BY <1>2, <1>4
<1>6. Meant(m) = IF ~Proper(m) THEN "INVALID"
                 ELSE IF Chunked(m) THEN "UNSUPPORTED"
                 ELSE IF HeaderEnd(m) + Declared(m) > Capacity THEN "TOO_LARGE"
                 ELSE IF m.sent < HeaderEnd(m) + Declared(m) THEN "CLOSED"
                 ELSE "COMPLETE"
  BY <1>2, <1>5 DEF Meant
<1>7. CASE ~Proper(m)
  BY <1>1, <1>2, <1>4, <1>6, <1>7
<1>8. CASE Proper(m)
  BY <1>1, <1>2, <1>3, <1>4, <1>6, <1>8
<1> QED
  BY <1>7, <1>8

LEMMA FramingInvStep == FramingInv /\ [Next]_vars => FramingInv'
<1> SUFFICES ASSUME FramingInv, [Next]_vars PROVE FramingInv'
  OBVIOUS
<1>1. /\ message \in Messages /\ closed \in BOOLEAN /\ length \in 0..Capacity
      /\ framing \in {"NEED_MORE", "COMPLETE", "INVALID", "UNSUPPORTED", "TOO_LARGE", "CLOSED",
                     "BROKEN"}
  BY DEF FramingInv, FramingIgnoresChunks, CompleteMeansWholeBody, TypeOK
<1>2. HeaderEnd(message) \in Nat /\ Capacity \in Nat /\ length \in Nat /\ message.sent \in Nat
  BY <1>1, HeadersAreParsed, BaseIsNat, HttpFramingAssumption DEF Messages
<1>3. Proper(message) => Declared(message) \in Nat
  BY <1>1, HeadersAreParsed
<1>4. request_complete(message, length, Capacity) =
             IF length < HeaderEnd(message) THEN "NEED_MORE"
             ELSE IF ~Proper(message) THEN "INVALID"
             ELSE IF Chunked(message) THEN "UNSUPPORTED"
             ELSE IF HeaderEnd(message) + Declared(message) > Capacity THEN "TOO_LARGE"
             ELSE IF length >= HeaderEnd(message) + Declared(message) THEN "COMPLETE"
             ELSE "NEED_MORE"
  BY <1>1, <1>2, CompleteIsMeant
<1>5. ASSUME NEW n \in 1..IoChunk, Receive(n) PROVE FramingInv'
  <2>1. /\ framing = "NEED_MORE" /\ length' = length + n /\ message' = message /\ closed' = closed
        /\ n <= Capacity - length /\ length + n <= message.sent
        /\ framing' = request_complete(message, length', Capacity)
    BY <1>5 DEF Receive, Room
  <2>2. n \in Nat /\ n >= 1
    BY HttpFramingAssumption
  <2>3. length' \in Nat /\ length' <= Capacity /\ length' <= message.sent /\ length' \in 0..Capacity
    BY <1>2, <2>1, <2>2
  <2>4. closed' => length' = message'.sent
    BY <1>2, <2>1, <2>2 DEF FramingInv, FramingIgnoresChunks, CompleteMeansWholeBody
  <2>5. framing' # "NEED_MORE" =>
          /\ framing' \in {"INVALID", "UNSUPPORTED", "TOO_LARGE", "COMPLETE"}
          /\ framing' = Meant(message)
          /\ framing' = "COMPLETE" => HeaderEnd(message) + Declared(message) <= length'
    BY <1>1, <2>1, <2>3, DecidedAsMeant
  <2>6. TypeOK'
    BY <1>1, <2>1, <2>3, <2>5 DEF TypeOK
  <2> QED
    BY <2>1, <2>3, <2>4, <2>5, <2>6 DEF FramingInv, FramingIgnoresChunks, CompleteMeansWholeBody
<1>6. CASE NoRoom
  <2>1. /\ framing = "NEED_MORE" /\ Capacity - length = 0 /\ framing' = "TOO_LARGE"
        /\ message' = message /\ closed' = closed /\ length' = length
    BY <1>6 DEF NoRoom, Room
  <2>2. length = Capacity /\ length <= message.sent
        /\ request_complete(message, length, Capacity) = "NEED_MORE"
    BY <1>2, <2>1 DEF FramingInv, FramingIgnoresChunks, CompleteMeansWholeBody
  <2>3. HeaderEnd(message) > Capacity
    <3>1. CASE Proper(message)
      BY <1>2, <1>3, <1>4, <2>2, <3>1
    <3>2. CASE ~Proper(message)
      BY <1>2, <1>4, <2>2, <3>2
    <3> QED
      BY <3>1, <3>2
  <2>4. Meant(message) = "TOO_LARGE"
    BY <1>2, <2>2, <2>3 DEF Meant
  <2> QED
    BY <1>1, <2>1, <2>4 DEF FramingInv, FramingIgnoresChunks, CompleteMeansWholeBody, TypeOK
<1>7. CASE ClientCloses
  <2>1. length = message.sent /\ closed' = TRUE /\ message' = message /\ length' = length /\ framing' = framing
    BY <1>7 DEF ClientCloses
  <2> QED
    BY <1>1, <2>1 DEF FramingInv, FramingIgnoresChunks, CompleteMeansWholeBody, TypeOK
<1>8. CASE EndOfStream
  <2>1. /\ framing = "NEED_MORE" /\ closed /\ Capacity - length > 0 /\ framing' = "CLOSED"
        /\ message' = message /\ closed' = closed /\ length' = length
    BY <1>8 DEF EndOfStream, Room
  <2>2. /\ length = message.sent /\ length < Capacity
        /\ request_complete(message, length, Capacity) = "NEED_MORE"
    BY <1>2, <2>1 DEF FramingInv, FramingIgnoresChunks, CompleteMeansWholeBody
  <2>3. Meant(message) = "CLOSED"
    <3>1. CASE Proper(message)
      BY <1>2, <1>3, <1>4, <2>2, <3>1 DEF Meant
    <3>2. CASE ~Proper(message)
      BY <1>2, <1>4, <2>2, <3>2 DEF Meant
    <3> QED
      BY <3>1, <3>2
  <2> QED
    BY <1>1, <2>1, <2>3 DEF FramingInv, FramingIgnoresChunks, CompleteMeansWholeBody, TypeOK
<1>8a. CASE ReceiveFails
  <2>1. framing' = "BROKEN" /\ message' = message /\ closed' = closed /\ length' = length
    BY <1>8a DEF ReceiveFails
  <2> QED
    BY <1>1, <2>1 DEF FramingInv, FramingIgnoresChunks, CompleteMeansWholeBody, TypeOK
<1>9. CASE UNCHANGED vars
  <2>1. message' = message /\ closed' = closed /\ length' = length /\ framing' = framing
    BY <1>9 DEF vars
  <2> QED
    BY <1>1, <2>1 DEF FramingInv, FramingIgnoresChunks, CompleteMeansWholeBody, TypeOK
<1> QED
  BY <1>5, <1>6, <1>7, <1>8, <1>8a, <1>9 DEF Next

LEMMA FramingInvHolds == Spec => []FramingInv
<1>1. Init => FramingInv
  BY InitFramingInv
<1>2. FramingInv /\ [Next]_vars => FramingInv'
  BY FramingInvStep
<1> QED
  BY <1>1, <1>2, PTL DEF Spec

\* However the network cuts a request into chunks, receive_one_locked and
\* request_complete make of it what it is as a whole, for messages with any
\* number of headers and values of any number of digits: no number that a
\* size_t cannot hold is taken for another one.
THEOREM FramingIsOfTheMessage == Spec => []FramingIgnoresChunks
<1>1. FramingInv => FramingIgnoresChunks
  BY DEF FramingInv
<1> QED
  BY <1>1, FramingInvHolds, PTL

\* A request that receive_one_locked hands to the router is all there, in a
\* buffer that holds it.
THEOREM BodiesAreWhole == Spec => [](TypeOK /\ CompleteMeansWholeBody)
<1>1. FramingInv => TypeOK /\ CompleteMeansWholeBody
  BY DEF FramingInv, FramingIgnoresChunks
<1> QED
  BY <1>1, FramingInvHolds, PTL
===============================================================================
