--------------------------- MODULE LspDocumentsProofs ---------------------------
(***************************************************************************)
(* What LspDocuments's run checks of the import graph and of the documents *)
(* with three files, proved for any workspace.                             *)
(***************************************************************************)
EXTENDS LspDocuments, FiniteSetTheorems, WellFoundedInduction, TLAPS

-------------------------------------------------------------------------------
\* Induction and recursion, over sets and functions.

Less == {pair \in Nat \X Nat : pair[1] < pair[2]}

\* What holds of 0, and with a number of the next, holds of all.
LEMMA CountingUp ==
    ASSUME NEW P, 0 \in P, \A n \in Nat : n \in P => n + 1 \in P
    PROVE  Nat \subseteq P
<1> SUFFICES ASSUME ~(Nat \subseteq P) PROVE FALSE
  OBVIOUS
<1>1. PICK bad : bad = {n \in Nat : n \notin P}
  OBVIOUS
<1>2. bad # {} /\ bad \subseteq Nat
  BY <1>1
<1>3. IsWellFoundedOn(Less, Nat)
  BY NatLessThanWellFounded DEF OpToRel, Less
<1>4. PICK n \in bad : \A m \in bad : ~ (<<m, n>> \in Less)
  BY <1>2, <1>3, WFMin
<1>5. n \in Nat /\ n # 0 /\ n \notin P
  BY <1>1, <1>4
<1>6. n - 1 \in Nat /\ n - 1 < n /\ (n - 1) + 1 = n
  BY <1>5
<1>7. n - 1 \notin bad
  BY <1>4, <1>5, <1>6 DEF Less
<1> QED
  BY <1>1, <1>5, <1>6, <1>7

\* A step defines a run.
Steps(A, base, step) == base \in A /\ step \in [Nat \X A -> A]

LEMMA RunsExist ==
    ASSUME NEW A, NEW base, NEW step, Steps(A, base, step)
    PROVE  \E r \in [Nat -> A] : r[0] = base /\ \A n \in Nat : r[n + 1] = step[<<n, r[n]>>]
<1> DEFINE Run(n, g) == /\ g \in [0..n -> A] /\ g[0] = base
                        /\ \A i \in 0..n : i < n => g[i + 1] = step[<<i, g[i]>>]
<1> USE DEF Steps
<1>1. ASSUME NEW n \in Nat, NEW g, NEW h, Run(n, g), Run(n + 1, h)
      PROVE  \A i \in 0..n : g[i] = h[i]
  <2>1. PICK P : P = {i \in Nat : i <= n => g[i] = h[i]}
    OBVIOUS
  <2>2. 0 \in P
    BY <1>1, <2>1
  <2>3. ASSUME NEW i \in Nat, i \in P PROVE i + 1 \in P
    <3>1. CASE i + 1 <= n
      <4>1. i \in 0..n /\ i < n /\ i \in 0..(n + 1) /\ i < n + 1
        BY <3>1
      <4>2. g[i] = h[i]
        BY <2>1, <2>3, <4>1
      <4>3. g[i + 1] = step[<<i, g[i]>>] /\ h[i + 1] = step[<<i, h[i]>>]
        BY <1>1, <4>1
      <4> QED
        BY <2>1, <4>2, <4>3
    <3>2. CASE ~(i + 1 <= n)
      BY <2>1, <3>2
    <3> QED
      BY <3>1, <3>2
  <2>4. Nat \subseteq P
    BY <2>2, <2>3, CountingUp
  <2> QED
    BY <2>1, <2>4
<1>2. PICK E : E = {n \in Nat : \E g : Run(n, g)}
  OBVIOUS
<1>3. 0 \in E
  <2>1. Run(0, [i \in 0..0 |-> base])
    OBVIOUS
  <2> QED
    BY <1>2, <2>1
<1>4. ASSUME NEW n \in Nat, n \in E PROVE n + 1 \in E
  <2>1. PICK g : Run(n, g)
    BY <1>2, <1>4
  <2>2. PICK h : h = [i \in 0..(n + 1) |-> IF i <= n THEN g[i] ELSE step[<<n, g[n]>>]]
    OBVIOUS
  <2>3. g[n] \in A /\ step[<<n, g[n]>>] \in A
    BY <2>1
  <2>4. h \in [0..(n + 1) -> A] /\ h[0] = base
    BY <2>1, <2>2, <2>3
  <2>5. ASSUME NEW i \in 0..(n + 1), i < n + 1 PROVE h[i + 1] = step[<<i, h[i]>>]
    <3>1. CASE i < n
      BY <2>1, <2>2, <2>5, <3>1
    <3>2. CASE i = n
      BY <2>2, <3>2
    <3> QED
      BY <2>5, <3>1, <3>2
  <2>6. Run(n + 1, h)
    BY <2>4, <2>5
  <2> QED
    BY <1>2, <2>6
<1> HIDE DEF Run
<1>5. Nat \subseteq E
  BY <1>3, <1>4, CountingUp
<1>6. PICK run : run = [n \in Nat |-> CHOOSE g : Run(n, g)]
  OBVIOUS
<1>7. \A n \in Nat : Run(n, run[n])
  BY <1>2, <1>5, <1>6
<1>8. PICK r : r = [n \in Nat |-> run[n][n]]
  OBVIOUS
<1>9. ASSUME NEW n \in Nat PROVE r[n] \in A /\ r[n + 1] = step[<<n, r[n]>>]
  <2>1. Run(n, run[n]) /\ Run(n + 1, run[n + 1])
    BY <1>7
  <2>2. \A i \in 0..n : run[n][i] = run[n + 1][i]
    BY <1>1, <2>1
  <2>2a. run[n][n] = run[n + 1][n]
    BY <2>2
  <2>3. run[n][n] \in A /\ run[n + 1][n + 1] = step[<<n, run[n + 1][n]>>]
    BY <2>1 DEF Run
  <2> QED
    BY <1>8, <2>2a, <2>3
<1>10. r[0] = base
  BY <1>7, <1>8 DEF Run
<1>11. r \in [Nat -> A]
  BY <1>8, <1>9
<1> QED
  BY <1>9, <1>10, <1>11

\* MapThenFoldSet in the form of a function: it takes an element after the other
\* out of each subset of S.
Folding(S, A, base, step, pick) ==
    /\ IsFiniteSet(S) /\ base \in A /\ step \in [S \X A -> A]
    /\ \A s \in SUBSET S : s # {} => pick[s] \in s

Folded(S, A, base, step, pick, it) ==
    /\ it \in [SUBSET S -> A]
    /\ \A s \in SUBSET S : it[s] = IF s = {} THEN base ELSE step[<<pick[s], it[s \ {pick[s]}]>>]

LEMMA IteratesExist ==
    ASSUME NEW S, NEW A, NEW base, NEW step, NEW pick, Folding(S, A, base, step, pick)
    PROVE  \E it : Folded(S, A, base, step, pick, it)
<1> USE DEF Folding
<1>1. PICK B : B = [SUBSET S -> A]
  OBVIOUS
<1>2. PICK next : next = [p \in Nat \X B |-> [s \in SUBSET S |->
                    IF s = {} THEN base ELSE step[<<pick[s], p[2][s \ {pick[s]}]>>]]]
  OBVIOUS
<1>3. next \in [Nat \X B -> B]
  <2>1. ASSUME NEW b \in B, NEW s \in SUBSET S, s # {} PROVE step[<<pick[s], b[s \ {pick[s]}]>>] \in A
    <3>1. pick[s] \in S /\ s \ {pick[s]} \in SUBSET S
      BY <2>1
    <3>2. b[s \ {pick[s]}] \in A
      BY <1>1, <3>1
    <3> QED
      BY <3>1, <3>2
  <2>2. ASSUME NEW p \in Nat \X B PROVE next[p] \in B
    <3>1. p[2] \in B
      OBVIOUS
    <3> QED
      BY <1>1, <1>2, <2>1, <3>1
  <2> QED
    BY <1>2, <2>2
<1>4. PICK first : first = [s \in SUBSET S |-> base]
  OBVIOUS
<1>5. first \in B
  BY <1>1, <1>4
<1>5a. Steps(B, first, next)
  BY <1>3, <1>5 DEF Steps
<1>6. PICK r \in [Nat -> B] : r[0] = first /\ \A n \in Nat : r[n + 1] = next[<<n, r[n]>>]
  BY <1>5a, RunsExist
<1>7. \A s \in SUBSET S : IsFiniteSet(s) /\ Cardinality(s) \in Nat
  BY FS_Subset, FS_CardinalityType
<1>8. PICK it : it = [s \in SUBSET S |-> r[Cardinality(s)][s]]
  OBVIOUS
<1>9. it \in [SUBSET S -> A]
  BY <1>1, <1>6, <1>7, <1>8
<1>10. ASSUME NEW s \in SUBSET S
       PROVE  it[s] = IF s = {} THEN base ELSE step[<<pick[s], it[s \ {pick[s]}]>>]
  <2>1. CASE s = {}
    BY <1>4, <1>6, <1>8, <2>1, FS_EmptySet
  <2>2. CASE s # {}
    <3>1. PICK x : x = pick[s]
      OBVIOUS
    <3>2. PICK t : t = s \ {x}
      OBVIOUS
    <3>3. x \in s /\ t \in SUBSET S
      BY <2>2, <3>1, <3>2
    <3>4. Cardinality(t) = Cardinality(s) - 1
      BY <1>7, <3>2, <3>3, FS_RemoveElement
    <3>5. PICK n \in Nat : n = Cardinality(t) /\ Cardinality(s) = n + 1
      BY <1>7, <3>3, <3>4
    <3>6. it[s] = r[n + 1][s] /\ it[t] = r[n][t]
      BY <1>8, <3>3, <3>5
    <3>7. r[n + 1] = next[<<n, r[n]>>] /\ r[n] \in B
      BY <1>6
    <3>8. next[<<n, r[n]>>][s] = step[<<x, r[n][t]>>]
      BY <1>2, <2>2, <3>1, <3>2, <3>7
    <3> QED
      BY <2>2, <3>1, <3>2, <3>6, <3>7, <3>8
  <2> QED
    BY <2>1, <2>2
<1> QED
  BY <1>9, <1>10 DEF Folded

-------------------------------------------------------------------------------
\* What a traversal reaches.

Onward(found, next) == found \cup UNION {next[f] : f \in found}

Turns == 1..Cardinality(Files)

ReachIterates(from, next, it) ==
    it = [s \in SUBSET Turns |->
             IF s = {} THEN from ELSE Onward(it[s \ {CHOOSE x \in s : TRUE}], next)]

\* What is found after each turn.
Reaching(from, next, r) ==
    /\ r \in [Nat -> SUBSET Files] /\ r[0] = from
    /\ \A n \in Nat : r[n + 1] = Onward(r[n], next)
    /\ Reach(from, next) = r[Cardinality(Files)]

LEMMA ReachUnfold ==
    ASSUME NEW from, NEW next
    PROVE  Reach(from, next) = (CHOOSE it : ReachIterates(from, next, it))[Turns]
  BY DEF Reach, FoldSet, MapThenFoldSet, ReachIterates, Turns, Onward

LEMMA SomeMember ==
    ASSUME NEW s, s # {}
    PROVE  (CHOOSE x \in s : TRUE) \in s
  OBVIOUS

LEMMA ReachRuns ==
    ASSUME NEW from \in SUBSET Files, NEW next \in [Files -> SUBSET Files]
    PROVE  \E r : Reaching(from, next, r)
<1>1. PICK N : N = Cardinality(Files)
  OBVIOUS
<1>2. N \in Nat
  BY <1>1, DocumentsAssumption, FS_CardinalityType
<1>3. PICK S : S = 1..N
  OBVIOUS
<1>4. IsFiniteSet(S) /\ Cardinality(S) = N /\ S = Turns
  BY <1>1, <1>2, <1>3, FS_Interval DEF Turns
<1>5. PICK A : A = SUBSET Files
  OBVIOUS
<1>6. PICK step : step = [p \in S \X A |-> Onward(p[2], next)]
  OBVIOUS
<1>7. PICK pick : pick = [s \in SUBSET S |-> CHOOSE x \in s : TRUE]
  OBVIOUS
<1>8. \A found \in A : Onward(found, next) \in A
  BY <1>5 DEF Onward
<1>9. Folding(S, A, from, step, pick)
  <2>1. step \in [S \X A -> A]
    <3>1. \A p \in S \X A : p[2] \in A
      OBVIOUS
    <3>2. \A p \in S \X A : step[p] \in A
      BY <1>6, <1>8, <3>1
    <3> QED
      BY <1>6, <3>2
  <2>2. \A s \in SUBSET S : s # {} => pick[s] \in s
    BY <1>7, SomeMember
  <2> QED
    BY <1>4, <1>5, <2>1, <2>2 DEF Folding
<1>10. PICK it : Folded(S, A, from, step, pick, it)
  BY <1>9, IteratesExist
<1>11. ASSUME NEW s \in SUBSET S, s # {}
       PROVE  step[<<pick[s], it[s \ {pick[s]}]>>] = Onward(it[s \ {pick[s]}], next)
  <2>1. pick[s] \in S /\ s \ {pick[s]} \in SUBSET S
    BY <1>7, <1>11, SomeMember
  <2>2. it[s \ {pick[s]}] \in A
    BY <1>10, <2>1 DEF Folded
  <2> QED
    BY <1>6, <2>1, <2>2
<1>12. ReachIterates(from, next, it)
  <2>1. it = [s \in SUBSET S |-> it[s]]
    BY <1>10 DEF Folded
  <2>2. \A s \in SUBSET S : it[s] = IF s = {} THEN from ELSE Onward(it[s \ {CHOOSE x \in s : TRUE}], next)
    <3>1. ASSUME NEW s \in SUBSET S
          PROVE  it[s] = IF s = {} THEN from ELSE Onward(it[s \ {CHOOSE x \in s : TRUE}], next)
      <4>1. it[s] = IF s = {} THEN from ELSE step[<<pick[s], it[s \ {pick[s]}]>>]
        BY <1>10 DEF Folded
      <4>2. pick[s] = CHOOSE x \in s : TRUE
        BY <1>7
      <4> QED
        BY <1>11, <4>1, <4>2
    <3> QED
      BY <3>1
  <2> QED
    BY <1>4, <2>1, <2>2 DEF ReachIterates
<1>13. PICK iter : iter = CHOOSE i : ReachIterates(from, next, i)
  OBVIOUS
<1>14. ReachIterates(from, next, iter)
  BY <1>12, <1>13
<1>15. PICK onward : onward = [p \in Nat \X A |-> Onward(p[2], next)]
  OBVIOUS
<1>16. Steps(A, from, onward)
  <2>1. \A p \in Nat \X A : p[2] \in A
    OBVIOUS
  <2>2. \A p \in Nat \X A : onward[p] \in A
    BY <1>8, <1>15, <2>1
  <2>3. onward \in [Nat \X A -> A]
    BY <1>15, <2>2
  <2> QED
    BY <1>5, <2>3 DEF Steps
<1>17. PICK r \in [Nat -> A] : r[0] = from /\ \A n \in Nat : r[n + 1] = onward[<<n, r[n]>>]
  BY <1>16, RunsExist
<1>18. ASSUME NEW n \in Nat PROVE r[n + 1] = Onward(r[n], next)
  <2>1. r[n] \in A
    BY <1>17
  <2> QED
    BY <1>15, <1>17, <2>1
<1>19. \A s \in SUBSET S : IsFiniteSet(s) /\ Cardinality(s) \in Nat
  BY <1>4, FS_Subset, FS_CardinalityType
<1>20. PICK P : P = {n \in Nat : \A s \in SUBSET S : Cardinality(s) = n => iter[s] = r[n]}
  OBVIOUS
<1>21. 0 \in P
  <2>1. \A s \in SUBSET S : Cardinality(s) = 0 => s = {}
    BY <1>19, FS_EmptySet
  <2>2. iter[{}] = from
    BY <1>4, <1>14 DEF ReachIterates
  <2> QED
    BY <1>17, <1>20, <2>1, <2>2
<1>22. ASSUME NEW n \in Nat, n \in P PROVE n + 1 \in P
  <2>1. SUFFICES ASSUME NEW s \in SUBSET S, Cardinality(s) = n + 1 PROVE iter[s] = r[n + 1]
    BY <1>20
  <2>2. s # {}
    BY <2>1, FS_EmptySet
  <2>3. PICK x, t : x = (CHOOSE y \in s : TRUE) /\ t = s \ {x}
    OBVIOUS
  <2>4. x \in s /\ t \in SUBSET S
    BY <2>2, <2>3, SomeMember
  <2>5. Cardinality(t) = Cardinality(s) - 1
    BY <1>19, <2>3, <2>4, FS_RemoveElement
  <2>6. iter[t] = r[n]
    BY <1>20, <1>22, <2>1, <2>4, <2>5
  <2>7. iter[s] = Onward(iter[t], next)
    BY <1>4, <1>14, <2>2, <2>3 DEF ReachIterates
  <2> QED
    BY <1>18, <2>6, <2>7
<1>23. iter[S] = r[N]
  <2>1. N \in P
    BY <1>2, <1>21, <1>22, CountingUp
  <2> QED
    BY <1>4, <1>20, <2>1
<1>24. Reach(from, next) = r[N]
  BY <1>4, <1>13, <1>23, ReachUnfold
<1> QED
  BY <1>1, <1>5, <1>17, <1>18, <1>24 DEF Reaching

\* What is reached is where the traversal begins, or follows what is reached.
LEMMA ReachFacts ==
    ASSUME NEW from \in SUBSET Files, NEW next \in [Files -> SUBSET Files]
    PROVE  /\ from \subseteq Reach(from, next) /\ Reach(from, next) \in SUBSET Files
           /\ \A f \in Reach(from, next) : f \in from \/ \E g \in Reach(from, next) : f \in next[g]
<1>1. PICK r : Reaching(from, next, r)
  BY ReachRuns
<1>2. r \in [Nat -> SUBSET Files] /\ r[0] = from /\ \A n \in Nat : r[n + 1] = Onward(r[n], next)
  BY <1>1 DEF Reaching
<1>3. PICK P : P = {n \in Nat : from \subseteq r[n] /\ \A f \in r[n] : f \in from \/ \E g \in r[n] : f \in next[g]}
  OBVIOUS
<1>4. 0 \in P
  BY <1>2, <1>3
<1>5. ASSUME NEW n \in Nat, n \in P PROVE n + 1 \in P
  <2>1. r[n + 1] = r[n] \cup UNION {next[f] : f \in r[n]}
    BY <1>2 DEF Onward
  <2>2. \A f \in r[n + 1] : f \in r[n] \/ \E g \in r[n] : f \in next[g]
    BY <2>1
  <2> QED
    BY <1>3, <1>5, <2>1, <2>2
<1>6. PICK N : N = Cardinality(Files)
  OBVIOUS
<1>7. N \in Nat /\ Reach(from, next) = r[N]
  BY <1>1, <1>6, DocumentsAssumption, FS_CardinalityType DEF Reaching
<1>8. N \in P
  BY <1>4, <1>5, <1>7, CountingUp
<1> QED
  BY <1>2, <1>3, <1>7, <1>8

\* Only what follows the files that are reached matters.
LEMMA ReachAgrees ==
    ASSUME NEW from \in SUBSET Files, NEW next \in [Files -> SUBSET Files],
           NEW other \in [Files -> SUBSET Files],
           \A f \in Reach(from, next) : other[f] = next[f]
    PROVE  Reach(from, other) = Reach(from, next)
<1>1. PICK r : Reaching(from, next, r)
  BY ReachRuns
<1>2. PICK q : Reaching(from, other, q)
  BY ReachRuns
<1>3. PICK N : N = Cardinality(Files)
  OBVIOUS
<1>4. N \in Nat /\ Reach(from, next) = r[N] /\ Reach(from, other) = q[N]
  BY <1>1, <1>2, <1>3, DocumentsAssumption, FS_CardinalityType DEF Reaching
<1>5. \A n \in Nat : r[n] \subseteq r[n + 1]
  BY <1>1 DEF Reaching, Onward
<1>6. PICK P : P = {m \in Nat : \A n \in Nat : n <= m => r[n] \subseteq r[m]}
  OBVIOUS
<1>7. 0 \in P
  <2>1. \A n \in Nat : n <= 0 => n = 0
    OBVIOUS
  <2> QED
    BY <1>6, <2>1
<1>8. ASSUME NEW m \in Nat, m \in P PROVE m + 1 \in P
  <2>1. \A n \in Nat : n <= m + 1 => n <= m \/ n = m + 1
    OBVIOUS
  <2> QED
    BY <1>5, <1>6, <1>8, <2>1
<1>9. \A n \in Nat : n <= N => r[n] \subseteq r[N]
  <2>1. N \in P
    BY <1>4, <1>7, <1>8, CountingUp
  <2> QED
    BY <1>6, <2>1
<1>10. PICK Q : Q = {n \in Nat : n <= N => q[n] = r[n]}
  OBVIOUS
<1>11. 0 \in Q
  BY <1>1, <1>2, <1>10 DEF Reaching
<1>12. ASSUME NEW n \in Nat, n \in Q PROVE n + 1 \in Q
  <2>1. SUFFICES ASSUME n + 1 <= N PROVE q[n + 1] = r[n + 1]
    BY <1>10
  <2>2. n <= N
    BY <1>4, <2>1
  <2>3. q[n] = r[n] /\ r[n] \subseteq Reach(from, next)
    BY <1>4, <1>9, <1>10, <1>12, <2>2
  <2>4. \A f \in r[n] : other[f] = next[f]
    BY <2>3
  <2>5. {other[f] : f \in r[n]} = {next[f] : f \in r[n]}
    BY <2>4
  <2>6. Onward(q[n], other) = Onward(r[n], next)
    BY <2>3, <2>5 DEF Onward
  <2> QED
    BY <1>1, <1>2, <2>6 DEF Reaching
<1>13. N \in Q
  BY <1>4, <1>11, <1>12, CountingUp
<1> QED
  BY <1>4, <1>10, <1>13

\* A traversal ends before it runs out of turns: it has been everywhere it could go.
LEMMA ReachIsClosed ==
    ASSUME NEW from \in SUBSET Files, NEW next \in [Files -> SUBSET Files],
           NEW f \in Reach(from, next)
    PROVE  next[f] \subseteq Reach(from, next)
<1>1. PICK r : Reaching(from, next, r)
  BY ReachRuns
<1>2. r \in [Nat -> SUBSET Files] /\ \A n \in Nat : r[n + 1] = Onward(r[n], next)
  BY <1>1 DEF Reaching
<1>3. PICK N : N = Cardinality(Files)
  OBVIOUS
<1>4. N \in Nat /\ Reach(from, next) = r[N]
  BY <1>1, <1>3, DocumentsAssumption, FS_CardinalityType DEF Reaching
<1>5. \A s \in SUBSET Files : IsFiniteSet(s) /\ Cardinality(s) \in Nat /\ Cardinality(s) <= N
  BY <1>3, DocumentsAssumption, FS_Subset, FS_CardinalityType
<1>6. \A n \in Nat : r[n] \in SUBSET Files /\ r[n + 1] \in SUBSET Files /\ r[n] \subseteq r[n + 1]
  BY <1>2 DEF Onward
<1>7. PICK P : P = {n \in Nat : r[n + 1] = r[n] \/ Cardinality(r[n + 1]) >= n + 1}
  OBVIOUS
<1>8. ASSUME NEW n \in Nat PROVE r[n + 1] = r[n] \/ Cardinality(r[n + 1]) > Cardinality(r[n])
  BY <1>5, <1>6, FS_Subset
<1>9. 0 \in P
  <2>1. Cardinality(r[0]) \in Nat /\ Cardinality(r[0 + 1]) \in Nat
    BY <1>5, <1>6
  <2>2. r[0 + 1] = r[0] \/ Cardinality(r[0 + 1]) > Cardinality(r[0])
    BY <1>8
  <2> QED
    BY <1>7, <2>1, <2>2
<1>10. ASSUME NEW n \in Nat, n \in P PROVE n + 1 \in P
  <2>1. CASE r[n + 1] = r[n]
    <3>1. r[n + 1] = Onward(r[n], next) /\ r[(n + 1) + 1] = Onward(r[n + 1], next)
      BY <1>2
    <3>2. r[(n + 1) + 1] = r[n + 1]
      BY <2>1, <3>1
    <3> QED
      BY <1>7, <3>2
  <2>2. CASE Cardinality(r[n + 1]) >= n + 1
    <3>1. PICK m \in Nat : m = n + 1
      OBVIOUS
    <3>2. r[m + 1] = r[m] \/ Cardinality(r[m + 1]) > Cardinality(r[m])
      BY <1>8
    <3>3. Cardinality(r[m]) \in Nat /\ Cardinality(r[m + 1]) \in Nat
      BY <1>5, <1>6
    <3>4. r[m + 1] = r[m] \/ Cardinality(r[m + 1]) >= m + 1
      BY <2>2, <3>1, <3>2, <3>3
    <3> QED
      BY <1>7, <3>1, <3>4
  <2> QED
    BY <1>7, <1>10, <2>1, <2>2
<1>11. r[N + 1] = r[N]
  <2>1. N \in P
    BY <1>4, <1>9, <1>10, CountingUp
  <2>2. Cardinality(r[N + 1]) \in Nat /\ Cardinality(r[N + 1]) <= N
    BY <1>4, <1>5, <1>6
  <2> QED
    BY <1>4, <1>7, <2>1, <2>2
<1>12. next[f] \subseteq Onward(r[N], next)
  BY <1>4 DEF Onward
<1> QED
  BY <1>2, <1>4, <1>11, <1>12

\* It has been nowhere else.
LEMMA ReachIsLeast ==
    ASSUME NEW from \in SUBSET Files, NEW next \in [Files -> SUBSET Files], NEW S,
           from \subseteq S, \A f \in S \cap Reach(from, next) : next[f] \subseteq S
    PROVE  Reach(from, next) \subseteq S
<1>1. PICK r : Reaching(from, next, r)
  BY ReachRuns
<1>2. r \in [Nat -> SUBSET Files] /\ r[0] = from /\ \A n \in Nat : r[n + 1] = Onward(r[n], next)
  BY <1>1 DEF Reaching
<1>3. PICK N : N = Cardinality(Files)
  OBVIOUS
<1>4. PICK R : R = Reach(from, next)
  OBVIOUS
<1>5. N \in Nat /\ R = r[N]
  BY <1>1, <1>3, <1>4, DocumentsAssumption, FS_CardinalityType DEF Reaching
<1>6. PICK P : P = {n \in Nat : r[n] \subseteq S /\ r[n] \subseteq R}
  OBVIOUS
<1>7. from \subseteq R /\ \A f \in R : next[f] \subseteq R
  BY <1>4, ReachFacts, ReachIsClosed
<1>8. 0 \in P
  BY <1>2, <1>6, <1>7
<1>9. ASSUME NEW n \in Nat, n \in P PROVE n + 1 \in P
  <2>1. r[n + 1] = r[n] \cup UNION {next[f] : f \in r[n]}
    BY <1>2 DEF Onward
  <2>2. r[n] \subseteq S /\ r[n] \subseteq R
    BY <1>6, <1>9
  <2>3. \A f \in r[n] : next[f] \subseteq S /\ next[f] \subseteq R
    BY <1>4, <1>7, <2>2
  <2>4. r[n + 1] \subseteq S /\ r[n + 1] \subseteq R
    BY <2>1, <2>2, <2>3
  <2> QED
    BY <1>6, <2>4
<1>10. N \in P
  BY <1>5, <1>8, <1>9, CountingUp
<1> QED
  BY <1>4, <1>5, <1>6, <1>10

-------------------------------------------------------------------------------
\* The maps of the server.

Texts == UNION {TextsOf[f] : f \in Files}
Contents == Texts \cup {Missing}
Closures == UNION {[D -> Contents] : D \in SUBSET Files}
Documents == [text : Texts, version : Nat, inputs : Closures, seen : Closures]

Servers ==
    [documents : [Files -> Documents \cup {NoDocument}], openDocuments : SUBSET Files,
     imports : [Files -> SUBSET Files], importers : [Files -> SUBSET Files]]

\* The two maps are inverse to each other, and edges start at loaded documents.
Linked(s) ==
    /\ s \in Servers
    /\ \A f, g \in Files : g \in s.imports[f] <=> f \in s.importers[g]
    /\ \A f \in Files \ Loaded(s) : s.imports[f] = {}
    /\ s.openDocuments \subseteq Loaded(s)

\* No more is loaded than what the open documents reach.
Rooted(s) == Loaded(s) \subseteq Reach(s.openDocuments, s.imports)

DiskTypes == disk \in [Files -> Contents] /\ \A f \in Files : disk[f] \in TextsOf[f] \cup {Missing}

\* The handlers leave a graph that is linked and rooted.
GraphInv ==
    /\ DiskTypes
    /\ editor = [f \in Files |-> editor[f]]
    /\ \A f \in Files : editor[f] = Closed \/ (editor[f].text \in TextsOf[f] /\ editor[f].version \in Nat)
    /\ Linked(server) /\ Rooted(server)

LEMMA TextFacts ==
    /\ \A t \in Texts : t \in Nat /\ t # Missing /\ ImportsOf[t] \in SUBSET Files
    /\ \A t \in Contents : ImportsOf[t] \in SUBSET Files
    /\ \A f \in Files : TextsOf[f] \subseteq Texts
    /\ NoDocument \notin Documents
<1>1. \A t \in Texts : t \in Nat /\ t # Missing /\ ImportsOf[t] \in SUBSET Files
  BY DocumentsAssumption DEF Texts
<1>2. ImportsOf[Missing] = {}
  BY DocumentsAssumption
<1>3. \A f \in Files : TextsOf[f] \subseteq Texts
  BY DEF Texts
<1>4. NoDocument.text = Missing /\ \A d \in Documents : d.text \in Texts
  BY DEF NoDocument, Documents
<1> QED
  BY <1>1, <1>2, <1>3, <1>4 DEF Contents

LEMMA ServerFacts ==
    ASSUME NEW s \in Servers
    PROVE  /\ s = [documents |-> s.documents, openDocuments |-> s.openDocuments,
                   imports |-> s.imports, importers |-> s.importers]
           /\ s.documents \in [Files -> Documents \cup {NoDocument}] /\ s.openDocuments \in SUBSET Files
           /\ s.imports \in [Files -> SUBSET Files] /\ s.importers \in [Files -> SUBSET Files]
           /\ Loaded(s) = {f \in Files : s.documents[f] \in Documents}
<1>1. /\ s = [documents |-> s.documents, openDocuments |-> s.openDocuments,
              imports |-> s.imports, importers |-> s.importers]
      /\ s.documents \in [Files -> Documents \cup {NoDocument}] /\ s.openDocuments \in SUBSET Files
      /\ s.imports \in [Files -> SUBSET Files] /\ s.importers \in [Files -> SUBSET Files]
  BY DEF Servers
<1>2. Loaded(s) = {f \in Files : s.documents[f] \in Documents}
  BY <1>1, TextFacts DEF Loaded
<1> QED
  BY <1>1, <1>2

\* A server is made of its four maps.
LEMMA ServerOf ==
    ASSUME NEW s, NEW documents \in [Files -> Documents \cup {NoDocument}], NEW open \in SUBSET Files,
           NEW imports \in [Files -> SUBSET Files], NEW importers \in [Files -> SUBSET Files],
           s = [documents |-> documents, openDocuments |-> open, imports |-> imports, importers |-> importers]
    PROVE  /\ s \in Servers
           /\ s.documents = documents /\ s.openDocuments = open /\ s.imports = imports
           /\ s.importers = importers
  BY DEF Servers

LEMMA ClearFacts ==
    ASSUME NEW s \in Servers, NEW uri \in Files,
           \A f, g \in Files : g \in s.imports[f] <=> f \in s.importers[g],
           \A f \in Files \ Loaded(s) : f = uri \/ s.imports[f] = {},
           s.openDocuments \subseteq Loaded(s),
           NEW c, c = clearImports(s, uri)
    PROVE  /\ Linked(c) /\ c.documents = s.documents /\ c.openDocuments = s.openDocuments
           /\ c.imports[uri] = {}
           /\ \A f \in Files \ {uri} : c.imports[f] = s.imports[f]
<1>1. PICK imports : imports = [s.imports EXCEPT ![uri] = {}]
  OBVIOUS
<1>2. PICK importers : importers = [f \in Files |-> s.importers[f] \ {uri}]
  OBVIOUS
<1>3. imports \in [Files -> SUBSET Files] /\ importers \in [Files -> SUBSET Files]
      /\ \A f \in Files : imports[f] = IF f = uri THEN {} ELSE s.imports[f]
  BY <1>1, <1>2, ServerFacts
<1>4. c = [documents |-> s.documents, openDocuments |-> s.openDocuments, imports |-> imports,
           importers |-> importers]
  <2>1. c = [s EXCEPT !.imports = [s.imports EXCEPT ![uri] = {}],
                      !.importers = [f \in Files |-> s.importers[f] \ {uri}]]
    BY ServerFacts DEF clearImports
  <2>2. c = [s EXCEPT !.imports = imports, !.importers = importers]
    BY <1>1, <1>2, <2>1
  <2>3. s = [documents |-> s.documents, openDocuments |-> s.openDocuments,
             imports |-> s.imports, importers |-> s.importers]
    BY ServerFacts
  <2> QED
    BY <2>2, <2>3
<1>5. c \in Servers /\ c.documents = s.documents /\ c.openDocuments = s.openDocuments
      /\ c.imports = imports /\ c.importers = importers
  BY <1>3, <1>4, ServerFacts, ServerOf
<1>6. Loaded(c) = Loaded(s)
  BY <1>5 DEF Loaded
<1>7. \A f, g \in Files : g \in imports[f] <=> f \in importers[g]
  BY <1>2, <1>3
<1>8. \A f \in Files \ Loaded(s) : imports[f] = {}
  BY <1>3
<1> QED
  BY <1>1, <1>3, <1>5, <1>6, <1>7, <1>8 DEF Linked

\* A file that is loaded is imported by another one.
Edge(s, f, g) == g \in s.imports[f] /\ g \in Loaded(s)

LEMMA PruneFacts ==
    ASSUME NEW s, Linked(s), NEW r, r = pruneUnreachableDocuments(s)
    PROVE  Linked(r) /\ Rooted(r) /\ r.openDocuments = s.openDocuments
           /\ Loaded(r) \subseteq Loaded(s)
           /\ (\A f \in Loaded(r) : r.documents[f] = s.documents[f])
           /\ (\A h \in Loaded(r) : \A f \in Files : Edge(s, h, f) => Edge(r, h, f))
<1>0. s \in Servers
  BY DEF Linked
<1>1. PICK reached, gone : reached = Reach(s.openDocuments, s.imports) /\ gone = Loaded(s) \ reached
  OBVIOUS
<1>2. s.openDocuments \subseteq reached /\ reached \in SUBSET Files
  BY <1>0, <1>1, ServerFacts, ReachFacts
<1>3. PICK documents, imports, importers :
        /\ documents = [f \in Files |-> IF f \in gone THEN NoDocument ELSE s.documents[f]]
        /\ imports = [f \in Files |-> IF f \in gone THEN {} ELSE s.imports[f]]
        /\ importers = [f \in Files |-> s.importers[f] \ gone]
  OBVIOUS
<1>4. /\ documents \in [Files -> Documents \cup {NoDocument}]
      /\ imports \in [Files -> SUBSET Files] /\ importers \in [Files -> SUBSET Files]
  BY <1>0, <1>3, ServerFacts
<1>5. r = [documents |-> documents, openDocuments |-> s.openDocuments, imports |-> imports,
           importers |-> importers]
  <2>1. r = [s EXCEPT !.documents = documents, !.imports = imports, !.importers = importers]
    <3>1. r = [s EXCEPT !.documents = [f \in Files |-> IF f \in gone THEN NoDocument ELSE s.documents[f]],
                        !.imports   = [f \in Files |-> IF f \in gone THEN {} ELSE s.imports[f]],
                        !.importers = [f \in Files |-> s.importers[f] \ gone]]
      BY <1>0, <1>1, ServerFacts DEF pruneUnreachableDocuments
    <3> QED
      BY <1>3, <3>1
  <2>2. s = [documents |-> s.documents, openDocuments |-> s.openDocuments,
             imports |-> s.imports, importers |-> s.importers]
    BY <1>0, ServerFacts
  <2> QED
    BY <2>1, <2>2
<1>6. r \in Servers /\ r.documents = documents /\ r.openDocuments = s.openDocuments
      /\ r.imports = imports /\ r.importers = importers
  BY <1>0, <1>4, <1>5, ServerFacts, ServerOf
<1>7. Loaded(r) = Loaded(s) \ gone
  BY <1>3, <1>6 DEF Loaded
<1>8. \A f, g \in Files : g \in imports[f] <=> f \in importers[g]
  BY <1>3 DEF Linked
<1>9. \A f \in Files \ Loaded(r) : imports[f] = {}
  BY <1>3, <1>7 DEF Linked
<1>10. s.openDocuments \subseteq Loaded(r)
  BY <1>1, <1>2, <1>7 DEF Linked
<1>11. Linked(r)
  BY <1>6, <1>8, <1>9, <1>10 DEF Linked
<1>12. Reach(s.openDocuments, imports) = reached
  <2>1. \A f \in reached : imports[f] = s.imports[f]
    BY <1>1, <1>2, <1>3
  <2> QED
    BY <1>0, <1>1, <1>4, <2>1, ServerFacts, ReachAgrees
<1>13. Rooted(r)
  BY <1>1, <1>6, <1>7, <1>12 DEF Rooted
<1>14. ASSUME NEW h \in Loaded(r), NEW f \in Files, Edge(s, h, f) PROVE Edge(r, h, f)
  <2>1. h \in reached /\ h \in Files /\ f \in s.imports[h] /\ f \in Loaded(s)
    BY <1>1, <1>7, <1>14 DEF Loaded, Edge
  <2>2. s.openDocuments \in SUBSET Files /\ s.imports \in [Files -> SUBSET Files]
    BY <1>0, ServerFacts
  <2>3. f \in reached
    BY <1>1, <2>1, <2>2, ReachIsClosed
  <2>4. f \in Loaded(r) /\ f \in r.imports[h]
    BY <1>1, <1>3, <1>6, <1>7, <2>1, <2>3
  <2> QED
    BY <2>4 DEF Edge
<1> QED
  BY <1>3, <1>6, <1>7, <1>11, <1>13, <1>14 DEF Loaded

\* What the server reads of each file, and what it has loaded.
Sourced(s) == \A f \in Files : Effective(s, f) \in Contents /\ s.documents[f].text \in Contents

Read(s) == [f \in Files |-> Effective(s, f)]

\* What a text is known to depend on, when the files in late may have changed.
Follow(read, late) == [f \in Files |-> IF f \in late THEN {} ELSE ImportsOf[read[f]]]

Known(text, read, late) == Reach(ImportsOf[text], Follow(read, late))

\* A document was derived from what is read.
Fresh(doc, read) == doc.inputs = [f \in Known(doc.text, read, {}) |-> read[f]]

\* Every file that is there and that a document imports is loaded, and has an edge.
Imported(s, read, f) ==
    \A g \in ImportsOf[s.documents[f].text] : read[g] # Missing => Edge(s, f, g)

\* What a refresh of the imports of uri does.
Refreshed(s, uri, r) ==
    /\ \A f \in Loaded(r) :
         IF f \in Loaded(s) THEN r.documents[f] = s.documents[f]
         ELSE Fresh(r.documents[f], Read(s)) /\ r.documents[f].text = Read(s)[f]
    /\ \A h \in Loaded(r) \ {uri} : \A f \in Files : Edge(s, h, f) => Edge(r, h, f)
    /\ \A h \in Loaded(r) : h \in Loaded(s) \ {uri} \/ Imported(r, Read(s), h)

LEMMA LinkedSourced ==
    ASSUME NEW s, Linked(s), DiskTypes
    PROVE  Sourced(s)
<1>1. ASSUME NEW f \in Files, f \in s.openDocuments PROVE s.documents[f].text \in Texts
  <2>1. s \in Servers /\ f \in Loaded(s)
    BY <1>1 DEF Linked
  <2>2. s.documents[f] \in Documents
    BY <2>1, ServerFacts
  <2> QED
    BY <2>2 DEF Documents
<1>2. \A f \in Files : s.documents[f].text \in Contents
  <2>1. \A f \in Files : s.documents[f] \in Documents \cup {NoDocument}
    BY ServerFacts DEF Linked
  <2> QED
    BY <2>1 DEF Documents, NoDocument, Contents
<1> QED
  BY <1>1, <1>2 DEF Sourced, Effective, DiskTypes, Contents

LEMMA ParseFacts ==
    ASSUME NEW s, Sourced(s), NEW text \in Texts, NEW version \in Nat,
           NEW uri, NEW doc, doc = parseDocument(s, uri, version, text)
    PROVE  doc \in Documents /\ doc.text = text /\ doc.version = version /\ Fresh(doc, Read(s))
<1>1. PICK next : next = [f \in Files |-> ImportsOf[Effective(s, f)]]
  OBVIOUS
<1>2. PICK reached : reached = Reach(ImportsOf[text], next)
  OBVIOUS
<1>3. next \in [Files -> SUBSET Files] /\ ImportsOf[text] \in SUBSET Files
  BY <1>1, TextFacts DEF Sourced
<1>4. reached \in SUBSET Files
  BY <1>2, <1>3, ReachFacts
<1>5. PICK inputs : inputs = [f \in reached |-> Effective(s, f)]
  OBVIOUS
<1>6. inputs \in [reached -> Contents]
  BY <1>4, <1>5 DEF Sourced
<1>7. inputs \in Closures
  BY <1>4, <1>6 DEF Closures
<1>8. Inputs(s, text) = inputs
  BY <1>1, <1>2, <1>5 DEF Inputs
<1>9. PICK seen : seen = VisibleTexts(s, uri)
  OBVIOUS
<1>10. seen \in Closures
  <2>1. PICK D : D = (Reach({uri}, s.imports) \cap Loaded(s)) \ {uri}
    OBVIOUS
  <2>2. D \in SUBSET Files
    BY <2>1 DEF Loaded
  <2>3. seen = [f \in D |-> s.documents[f].text]
    BY <1>9, <2>1 DEF VisibleTexts
  <2>4. seen \in [D -> Contents]
    BY <2>2, <2>3 DEF Sourced
  <2> QED
    BY <2>2, <2>4 DEF Closures
<1>11. doc = [text |-> text, version |-> version, inputs |-> inputs, seen |-> seen]
  BY <1>8, <1>9 DEF parseDocument
<1>12. Fresh(doc, Read(s))
  <2>1. \A f \in Files : Read(s)[f] = Effective(s, f)
    BY DEF Read
  <2>2. Follow(Read(s), {}) = next
    BY <1>1, <2>1 DEF Follow
  <2>3. Known(text, Read(s), {}) = reached
    BY <1>2, <2>2 DEF Known
  <2>4. inputs = [f \in reached |-> Read(s)[f]]
    BY <1>4, <1>5, <2>1
  <2> QED
    BY <1>11, <2>3, <2>4 DEF Fresh
<1> QED
  BY <1>7, <1>10, <1>11, <1>12 DEF Documents

LEMMA ChangedFacts ==
    ASSUME NEW s \in Servers, NEW uri \in Files, NEW doc \in Documents \cup {NoDocument},
           NEW open \in SUBSET Files,
           NEW r, r = [documents |-> [s.documents EXCEPT ![uri] = doc], openDocuments |-> open,
                       imports |-> s.imports, importers |-> s.importers]
    PROVE  /\ r \in Servers /\ r.documents = [s.documents EXCEPT ![uri] = doc]
           /\ r.openDocuments = open /\ r.imports = s.imports /\ r.importers = s.importers
           /\ Loaded(s) \ {uri} \subseteq Loaded(r)
           /\ uri \in Loaded(r) <=> doc \in Documents
           /\ \A f \in Files \ {uri} : f \notin Loaded(s) => f \notin Loaded(r)
<1>1. PICK documents : documents = [s.documents EXCEPT ![uri] = doc]
  OBVIOUS
<1>2. documents \in [Files -> Documents \cup {NoDocument}]
      /\ \A f \in Files : documents[f] = IF f = uri THEN doc ELSE s.documents[f]
  BY <1>1, ServerFacts
<1>3. r \in Servers /\ r.documents = documents
      /\ r.openDocuments = open /\ r.imports = s.imports /\ r.importers = s.importers
  BY <1>1, <1>2, ServerFacts, ServerOf
<1>4. /\ Loaded(s) = {f \in Files : s.documents[f] \in Documents}
      /\ Loaded(r) = {f \in Files : documents[f] \in Documents}
  BY <1>3, ServerFacts
<1> QED
  BY <1>1, <1>2, <1>3, <1>4

\* A document is there, and open or closed.
LEMMA SetFacts ==
    ASSUME NEW s, Linked(s), NEW uri \in Files, NEW doc \in Documents,
           NEW open \in SUBSET Files, open \subseteq s.openDocuments \cup {uri},
           NEW r, r = [documents |-> [s.documents EXCEPT ![uri] = doc], openDocuments |-> open,
                       imports |-> s.imports, importers |-> s.importers]
    PROVE  Linked(r)
<1>1. /\ r \in Servers
      /\ r.openDocuments = open /\ r.imports = s.imports /\ r.importers = s.importers
      /\ Loaded(s) \ {uri} \subseteq Loaded(r) /\ uri \in Loaded(r)
  BY ChangedFacts DEF Linked
<1> QED
  BY <1>1 DEF Linked

LEMMA ReparsedFacts ==
    ASSUME NEW s, Linked(s), NEW uri \in Files, NEW doc \in Documents,
           NEW r, r = [s EXCEPT !.documents[uri] = doc]
    PROVE  Linked(r)
<1>1. PICK documents : documents = [s.documents EXCEPT ![uri] = doc]
  OBVIOUS
<1>2. s \in Servers /\ s.openDocuments \in SUBSET Files
  BY ServerFacts DEF Linked
<1>3. s = [documents |-> s.documents, openDocuments |-> s.openDocuments,
           imports |-> s.imports, importers |-> s.importers]
  BY <1>2, ServerFacts
<1>4. r = [s EXCEPT !.documents = documents]
  BY <1>1, <1>3
<1>5. r = [documents |-> documents, openDocuments |-> s.openDocuments,
           imports |-> s.imports, importers |-> s.importers]
  BY <1>3, <1>4
<1> QED
  BY <1>1, <1>2, <1>5, SetFacts

LEMMA RefreshFacts ==
    ASSUME NEW s, Linked(s), NEW uri \in Files, DiskTypes, NEW r, r = refreshImports(s, uri)
    PROVE  Linked(r) /\ Rooted(r) /\ r.openDocuments = s.openDocuments /\ Refreshed(s, uri, r)
<1>1. PICK c : c = clearImports(s, uri)
  OBVIOUS
<1>2. Linked(c) /\ c.openDocuments = s.openDocuments /\ c \in Servers
  BY <1>1, ClearFacts DEF Linked
<1>3. Sourced(c)
  BY <1>2, LinkedSourced
<1>4. PICK next : next = [f \in Files |-> Resolved(c, IF f \in Loaded(c) THEN c.documents[f].text ELSE disk[f])]
  OBVIOUS
<1>5. next \in [Files -> SUBSET Files] /\ \A f, g \in Files : f \in next[g] => Effective(c, f) # Missing
  <2>1. ASSUME NEW f \in Files
        PROVE  (IF f \in Loaded(c) THEN c.documents[f].text ELSE disk[f]) \in Contents
    <3>1. f \in Loaded(c) => c.documents[f] \in Documents
      BY <1>2, ServerFacts
    <3> QED
      BY <3>1 DEF Documents, DiskTypes, Contents
  <2>2. \A t \in Contents : Resolved(c, t) \in SUBSET Files /\ \A f \in Resolved(c, t) : Effective(c, f) # Missing
    BY TextFacts DEF Resolved
  <2> QED
    BY <1>4, <2>1, <2>2
<1>6. PICK from, reached, fresh : /\ from = {uri} \cap Loaded(c) /\ reached = Reach(from, next)
                                  /\ fresh = reached \ Loaded(c)
  OBVIOUS
<1>7. /\ from \in SUBSET Files /\ from \subseteq Loaded(c) /\ reached \in SUBSET Files
      /\ \A f \in reached : f \in from \/ \E g \in reached : f \in next[g]
  BY <1>5, <1>6, ReachFacts DEF Loaded
<1>8. ASSUME NEW f \in fresh
      PROVE  f \in Files /\ disk[f] \in Texts
  <2>1. f \in Files /\ f \notin Loaded(c) /\ \E g \in Files : f \in next[g]
    BY <1>6, <1>7
  <2>2. Effective(c, f) # Missing /\ f \notin c.openDocuments
    BY <1>2, <1>5, <2>1 DEF Linked
  <2> QED
    BY <2>1, <2>2 DEF Effective, DiskTypes, Contents
<1>9. PICK documents, imports, importers :
        /\ documents = [f \in Files |-> IF f \in fresh THEN parseDocument(c, f, 0, disk[f]) ELSE c.documents[f]]
        /\ imports = [f \in Files |-> IF f \in reached THEN c.imports[f] \cup next[f] ELSE c.imports[f]]
        /\ importers = [f \in Files |-> c.importers[f] \cup {g \in reached : f \in next[g]}]
  OBVIOUS
<1>10. /\ documents \in [Files -> Documents \cup {NoDocument}]
       /\ \A f \in fresh : documents[f] \in Documents
  <2>1. ASSUME NEW f \in fresh PROVE parseDocument(c, f, 0, disk[f]) \in Documents
    BY <1>3, <1>8, ParseFacts
  <2> QED
    BY <1>2, <1>8, <1>9, <2>1, ServerFacts
<1>11. imports \in [Files -> SUBSET Files] /\ importers \in [Files -> SUBSET Files]
  BY <1>2, <1>5, <1>7, <1>9, ServerFacts
<1>12. PICK g : g = [documents |-> documents, openDocuments |-> c.openDocuments, imports |-> imports,
                     importers |-> importers]
  OBVIOUS
<1>13. g \in Servers /\ g.documents = documents /\ g.openDocuments = c.openDocuments
       /\ g.imports = imports /\ g.importers = importers
  BY <1>2, <1>10, <1>11, <1>12, ServerFacts, ServerOf
<1>14. Loaded(g) = Loaded(c) \cup fresh
  <2>1. /\ Loaded(c) = {f \in Files : c.documents[f] \in Documents}
        /\ Loaded(g) = {f \in Files : documents[f] \in Documents}
    BY <1>2, <1>13, ServerFacts
  <2> QED
    BY <1>8, <1>9, <1>10, <2>1
<1>15. \A f, h \in Files : h \in imports[f] <=> f \in importers[h]
  BY <1>2, <1>9 DEF Linked
<1>16. \A f \in Files \ Loaded(g) : imports[f] = {}
  BY <1>2, <1>6, <1>9, <1>14 DEF Linked
<1>17. Linked(g)
  BY <1>2, <1>13, <1>14, <1>15, <1>16 DEF Linked
<1>18. r = pruneUnreachableDocuments(g)
  <2>1. c = [documents |-> c.documents, openDocuments |-> c.openDocuments,
             imports |-> c.imports, importers |-> c.importers]
    BY <1>2, ServerFacts
  <2>2. PICK e : e = [c EXCEPT
         !.imports   = [f \in Files |-> IF f \in reached THEN c.imports[f] \cup next[f] ELSE c.imports[f]],
         !.importers = [f \in Files |-> c.importers[f] \cup {h \in reached : f \in next[h]}],
         !.documents = [f \in Files |-> IF f \in fresh THEN parseDocument(c, f, 0, disk[f]) ELSE c.documents[f]]]
    OBVIOUS
  <2>3. e = [c EXCEPT !.imports = imports, !.importers = importers, !.documents = documents]
    BY <1>9, <2>2
  <2>4. e = g
    <3>1. e = [documents |-> documents, openDocuments |-> c.openDocuments, imports |-> imports,
               importers |-> importers]
      BY <2>1, <2>3
    <3> QED
      BY <1>12, <3>1
  <2>5. r = pruneUnreachableDocuments(e)
    BY <1>1, <1>4, <1>6, <2>1, <2>2 DEF refreshImports
  <2> QED
    BY <2>4, <2>5
<1>19. /\ Loaded(r) \subseteq Loaded(g)
       /\ \A f \in Loaded(r) : r.documents[f] = g.documents[f]
       /\ \A h \in Loaded(r) : \A f \in Files : Edge(g, h, f) => Edge(r, h, f)
  BY <1>17, <1>18, PruneFacts
<1>20. /\ Loaded(c) = Loaded(s) /\ c.documents = s.documents
       /\ \A f \in Files : f # uri => c.imports[f] = s.imports[f]
       /\ Read(c) = Read(s) /\ \A f \in Files : Read(s)[f] = Effective(c, f)
  <2>1. c.documents = s.documents /\ \A f \in Files \ {uri} : c.imports[f] = s.imports[f]
    BY <1>1, ClearFacts DEF Linked
  <2>2. \A f \in Files : Effective(c, f) = Effective(s, f)
    BY <1>2, <2>1 DEF Effective
  <2> QED
    BY <2>1, <2>2 DEF Loaded, Read
<1>21. ASSUME NEW f \in Loaded(r)
       PROVE  IF f \in Loaded(s) THEN r.documents[f] = s.documents[f]
              ELSE Fresh(r.documents[f], Read(s)) /\ r.documents[f].text = Read(s)[f]
  <2>1. f \in Files /\ f \in Loaded(g) /\ r.documents[f] = documents[f]
    BY <1>13, <1>19 DEF Loaded
  <2>2. CASE f \in Loaded(s)
    BY <1>6, <1>9, <1>20, <2>1, <2>2
  <2>3. CASE f \notin Loaded(s)
    <3>1. f \in fresh
      BY <1>14, <1>20, <2>1, <2>3
    <3>2. PICK doc : doc = parseDocument(c, f, 0, disk[f])
      OBVIOUS
    <3>3. r.documents[f] = doc
      BY <1>9, <2>1, <3>1, <3>2
    <3>4. Fresh(doc, Read(c)) /\ doc.text = disk[f]
      BY <1>3, <1>8, <3>1, <3>2, ParseFacts
    <3>5. Effective(c, f) = disk[f]
      BY <1>2, <1>6, <3>1 DEF Effective, Linked
    <3> QED
      BY <1>20, <2>1, <2>3, <3>3, <3>4, <3>5
  <2> QED
    BY <2>2, <2>3
<1>22. ASSUME NEW h \in Loaded(r) \ {uri}, NEW f \in Files, Edge(s, h, f)
       PROVE  Edge(r, h, f)
  <2>1. h \in Files /\ f \in c.imports[h] /\ f \in Loaded(c)
    BY <1>20, <1>22 DEF Loaded, Edge
  <2>2. f \in g.imports[h] /\ f \in Loaded(g)
    BY <1>9, <1>13, <1>14, <2>1
  <2> QED
    BY <1>19, <2>2 DEF Edge
<1>23. ASSUME NEW h \in Loaded(r), h \notin Loaded(s) \ {uri}
       PROVE  Imported(r, Read(s), h)
  <2>1. h \in Files /\ h \in Loaded(g) /\ r.documents[h] = documents[h]
    BY <1>13, <1>19 DEF Loaded
  <2>2. h \in reached
    <3>1. h \in fresh \/ (h = uri /\ h \in Loaded(c))
      BY <1>14, <1>20, <1>23, <2>1
    <3>2. from \subseteq reached
      BY <1>5, <1>6, <1>7, ReachFacts
    <3> QED
      BY <1>6, <3>1, <3>2
  <2>3. PICK text : text = IF h \in Loaded(c) THEN c.documents[h].text ELSE disk[h]
    OBVIOUS
  <2>4. next[h] = Resolved(c, text)
    BY <1>4, <2>1, <2>3
  <2>5. r.documents[h].text = text
    <3>1. CASE h \in Loaded(c)
      BY <1>20, <1>21, <2>3, <3>1
    <3>2. CASE h \notin Loaded(c)
      <4>1. Effective(c, h) = disk[h]
        BY <1>2, <3>2 DEF Effective, Linked
      <4> QED
        BY <1>20, <1>21, <2>1, <2>3, <3>2, <4>1
    <3> QED
      BY <3>1, <3>2
  <2>6. ASSUME NEW f \in ImportsOf[text], Read(s)[f] # Missing
        PROVE  Edge(r, h, f)
    <3>1. text \in Contents
      <4>1. h \in Loaded(c) => c.documents[h] \in Documents
        BY <1>2, ServerFacts
      <4> QED
        BY <2>1, <2>3, <4>1 DEF Documents, DiskTypes, Contents
    <3>2. f \in Files
      BY <3>1, TextFacts
    <3>3. f \in next[h]
      BY <1>20, <2>4, <2>6, <3>2 DEF Resolved
    <3>4. f \in reached
      BY <1>5, <1>6, <1>7, <2>2, <3>3, ReachIsClosed
    <3>5. f \in g.imports[h] /\ f \in Loaded(g)
      BY <1>6, <1>9, <1>13, <1>14, <2>1, <2>2, <3>3, <3>4
    <3> QED
      BY <1>19, <3>2, <3>5 DEF Edge
  <2> QED
    BY <2>5, <2>6 DEF Imported
<1>24. Refreshed(s, uri, r)
  BY <1>21, <1>22, <1>23 DEF Refreshed
<1> QED
  BY <1>2, <1>13, <1>17, <1>18, <1>24, PruneFacts

-------------------------------------------------------------------------------
\* The dependents of a file, one after the other.

Reparsed(d, r) ==
    IF d \notin Loaded(r) THEN r
    ELSE LET doc == r.documents[d]
         IN refreshImports([r EXCEPT !.documents[d] = parseDocument(r, d, doc.version, doc.text)], d)

Dependents(s, uri) == Reach({uri}, [f \in Files |-> s.importers[f] \cap Loaded(s)]) \ {uri}

DependentIterates(s, dependents, it) ==
    it = [t \in SUBSET dependents |->
             IF t = {} THEN s ELSE Reparsed(CHOOSE d \in t : TRUE, it[t \ {CHOOSE d \in t : TRUE}])]

LEMMA DependentsUnfold ==
    ASSUME NEW s, NEW uri
    PROVE  refreshDependents(s, uri) =
               (CHOOSE it : DependentIterates(s, Dependents(s, uri), it))[Dependents(s, uri)]
  BY DEF refreshDependents, FoldSet, MapThenFoldSet, DependentIterates, Dependents, Reparsed

LEMMA DependentsAreFiles ==
    ASSUME NEW s, Linked(s), NEW uri \in Files
    PROVE  Dependents(s, uri) \in SUBSET Files /\ IsFiniteSet(Dependents(s, uri))
<1>1. PICK S : S = Dependents(s, uri)
  OBVIOUS
<1>2. S \in SUBSET Files /\ IsFiniteSet(S)
  <2>1. s \in Servers
    BY DEF Linked
  <2>2. [f \in Files |-> s.importers[f] \cap Loaded(s)] \in [Files -> SUBSET Files]
    BY <2>1, ServerFacts
  <2>3. {uri} \in SUBSET Files
    OBVIOUS
  <2>4. Reach({uri}, [f \in Files |-> s.importers[f] \cap Loaded(s)]) \in SUBSET Files
    BY <2>2, <2>3, ReachFacts
  <2>5. S \in SUBSET Files
    BY <1>1, <2>4 DEF Dependents
  <2> QED
    BY <2>5, DocumentsAssumption, FS_Subset
<1> QED
  BY <1>1, <1>2

\* What the server is after each of them.
LEMMA DependentsRun ==
    ASSUME NEW s, Linked(s), NEW uri \in Files, NEW A, s \in A,
           \A r \in A : \A d \in Files : Reparsed(d, r) \in A
    PROVE  \E iter : /\ DependentIterates(s, Dependents(s, uri), iter)
                     /\ refreshDependents(s, uri) = iter[Dependents(s, uri)]
<1>1. PICK S : S = Dependents(s, uri)
  OBVIOUS
<1>2. S \in SUBSET Files /\ IsFiniteSet(S)
  BY <1>1, DependentsAreFiles
<1>3. PICK step : step = [p \in S \X A |-> Reparsed(p[1], p[2])]
  OBVIOUS
<1>4. PICK pick : pick = [t \in SUBSET S |-> CHOOSE d \in t : TRUE]
  OBVIOUS
<1>5. Folding(S, A, s, step, pick)
  <2>1. step \in [S \X A -> A]
    <3>1. \A p \in S \X A : p[1] \in Files /\ p[2] \in A
      BY <1>2
    <3>2. \A p \in S \X A : step[p] \in A
      BY <1>3, <3>1
    <3> QED
      BY <1>3, <3>2
  <2>2. \A t \in SUBSET S : t # {} => pick[t] \in t
    BY <1>4, SomeMember
  <2> QED
    BY <1>2, <2>1, <2>2 DEF Folding
<1>6. PICK it : Folded(S, A, s, step, pick, it)
  BY <1>5, IteratesExist
<1>7. DependentIterates(s, S, it)
  <2>1. it = [t \in SUBSET S |-> it[t]]
    BY <1>6 DEF Folded
  <2>2. ASSUME NEW t \in SUBSET S
        PROVE  it[t] = IF t = {} THEN s ELSE Reparsed(CHOOSE d \in t : TRUE, it[t \ {CHOOSE d \in t : TRUE}])
    <3>1. CASE t = {}
      BY <1>6, <3>1 DEF Folded
    <3>2. CASE t # {}
      <4>1. PICK d, rest : d = (CHOOSE x \in t : TRUE) /\ rest = t \ {d}
        OBVIOUS
      <4>2. d \in S /\ rest \in SUBSET S /\ pick[t] = d
        BY <1>4, <3>2, <4>1, SomeMember
      <4>3. it[rest] \in A
        BY <1>6, <4>2 DEF Folded
      <4>4. it[t] = step[<<d, it[rest]>>]
        BY <1>6, <3>2, <4>1, <4>2 DEF Folded
      <4>5. it[t] = Reparsed(d, it[rest])
        BY <1>3, <4>2, <4>3, <4>4
      <4> QED
        BY <3>2, <4>1, <4>5
    <3> QED
      BY <3>1, <3>2
  <2> QED
    BY <2>1, <2>2 DEF DependentIterates
<1>8. PICK iter : iter = CHOOSE i : DependentIterates(s, S, i)
  OBVIOUS
<1>9. DependentIterates(s, S, iter)
  BY <1>7, <1>8
<1>10. refreshDependents(s, uri) = iter[S]
  BY <1>1, <1>8, DependentsUnfold
<1> QED
  BY <1>1, <1>9, <1>10

LEMMA SomeThing ==
    ASSUME NEW t, NEW n \in Nat, Cardinality(t) = n + 1
    PROVE  t # {}
  BY FS_EmptySet

\* What holds before the first of them, and with each refresh of the dependents
\* that it adds, holds after all of them, in whatever order they come.
LEMMA DependentsEach ==
    ASSUME NEW s, Linked(s), NEW uri \in Files, NEW A, s \in A,
           \A r \in A : \A d \in Files : Reparsed(d, r) \in A,
           NEW S, S = Dependents(s, uri), NEW G, s \in G[{}],
           \A t \in SUBSET S : \A d \in S \ t : \A r \in G[t] : Reparsed(d, r) \in G[t \cup {d}]
    PROVE  refreshDependents(s, uri) \in G[S]
<1>1. S \in SUBSET Files /\ IsFiniteSet(S)
  BY DependentsAreFiles
<1>2. PICK iter : DependentIterates(s, S, iter) /\ refreshDependents(s, uri) = iter[S]
  BY DependentsRun
<1>3. PICK P : P = {n \in Nat : \A t \in SUBSET S : Cardinality(t) = n => iter[t] \in G[t]}
  OBVIOUS
<1>4. \A t \in SUBSET S : IsFiniteSet(t) /\ Cardinality(t) \in Nat
  BY <1>1, FS_Subset, FS_CardinalityType
<1>5. 0 \in P
  <2>1. \A t \in SUBSET S : Cardinality(t) = 0 => t = {}
    BY <1>4, FS_EmptySet
  <2>2. iter[{}] = s
    BY <1>2 DEF DependentIterates
  <2> QED
    BY <1>3, <2>1, <2>2
<1>6. ASSUME NEW n \in Nat, n \in P PROVE n + 1 \in P
  <2>1. SUFFICES ASSUME NEW t \in SUBSET S, Cardinality(t) = n + 1 PROVE iter[t] \in G[t]
    BY <1>3
  <2>2. t # {}
    BY <2>1, SomeThing
  <2>3. PICK d, rest : d = (CHOOSE x \in t : TRUE) /\ rest = t \ {d}
    OBVIOUS
  <2>4. d \in t /\ rest \in SUBSET S /\ d \in S \ rest /\ rest \cup {d} = t
    BY <2>2, <2>3, SomeMember
  <2>5. Cardinality(rest) = Cardinality(t) - 1
    BY <1>4, <2>3, <2>4, FS_RemoveElement
  <2>6. iter[rest] \in G[rest]
    BY <1>3, <1>6, <2>1, <2>4, <2>5
  <2>7. iter[t] = Reparsed(d, iter[rest])
    BY <1>2, <2>2, <2>3 DEF DependentIterates
  <2>8. Reparsed(d, iter[rest]) \in G[rest \cup {d}]
    BY <2>4, <2>6
  <2> QED
    BY <2>4, <2>7, <2>8
<1>7. iter[S] \in G[S]
  <2>1. Cardinality(S) \in P
    BY <1>4, <1>5, <1>6, CountingUp
  <2> QED
    BY <1>3, <1>4, <2>1
<1> QED
  BY <1>2, <1>7

\* A document that stays open keeps its version, but for those in but.
KeepsVersions(s, r, but) ==
    \A f \in r.openDocuments \ but : r.documents[f].version = s.documents[f].version

LEMMA RefreshKeeps ==
    ASSUME NEW s, Linked(s), NEW uri \in Files, DiskTypes, NEW r, r = refreshImports(s, uri)
    PROVE  KeepsVersions(s, r, {})
<1>1. Linked(r) /\ r.openDocuments = s.openDocuments /\ Refreshed(s, uri, r)
  BY RefreshFacts
<1>2. \A f \in r.openDocuments : f \in Loaded(r) /\ f \in Loaded(s)
  BY <1>1 DEF Linked
<1> QED
  BY <1>1, <1>2 DEF Refreshed, KeepsVersions

LEMMA PruneKeeps ==
    ASSUME NEW s, Linked(s), NEW r, r = pruneUnreachableDocuments(s)
    PROVE  KeepsVersions(s, r, {})
<1>1. Linked(r) /\ \A f \in Loaded(r) : r.documents[f] = s.documents[f]
  BY PruneFacts
<1> QED
  BY <1>1 DEF Linked, KeepsVersions

LEMMA ReparsedKeeps ==
    ASSUME NEW q, Linked(q), NEW d \in Files, DiskTypes, NEW r, r = Reparsed(d, q)
    PROVE  Linked(r) /\ (Rooted(q) => Rooted(r)) /\ r.openDocuments = q.openDocuments
           /\ KeepsVersions(q, r, {})
<1>1. CASE d \notin Loaded(q)
  BY <1>1 DEF Reparsed, KeepsVersions
<1>2. CASE d \in Loaded(q)
  <2>1. q \in Servers /\ q.documents[d] \in Documents
    BY <1>2, ServerFacts DEF Linked
  <2>2. PICK doc : doc = parseDocument(q, d, q.documents[d].version, q.documents[d].text)
    OBVIOUS
  <2>3. q.documents[d].version \in Nat /\ q.documents[d].text \in Texts
    BY <2>1 DEF Documents
  <2>4. doc \in Documents /\ doc.version = q.documents[d].version
    BY <2>2, <2>3, LinkedSourced, ParseFacts
  <2>5. PICK e : e = [q EXCEPT !.documents[d] = doc]
    OBVIOUS
  <2>6. Linked(e)
    BY <2>4, <2>5, ReparsedFacts
  <2>7. e.openDocuments = q.openDocuments
    BY <2>1, <2>5, ServerFacts
  <2>8. r = refreshImports(e, d)
    BY <1>2, <2>2, <2>5 DEF Reparsed
  <2>9. \A f \in Files : e.documents[f].version = q.documents[f].version
    <3>1. e.documents = [q.documents EXCEPT ![d] = doc] /\ q.documents \in [Files -> Documents \cup {NoDocument}]
      BY <2>1, <2>5, ServerFacts
    <3> QED
      BY <2>4, <3>1
  <2>10. r.openDocuments \in SUBSET Files /\ KeepsVersions(e, r, {})
    <3>1. Linked(r) /\ KeepsVersions(e, r, {})
      BY <2>6, <2>8, RefreshFacts, RefreshKeeps
    <3> QED
      BY <3>1, ServerFacts DEF Linked
  <2>11. KeepsVersions(q, r, {})
    BY <2>9, <2>10 DEF KeepsVersions
  <2> QED
    BY <2>6, <2>7, <2>8, <2>11, RefreshFacts
<1> QED
  BY <1>1, <1>2

LEMMA DependentFacts ==
    ASSUME NEW s, Linked(s), NEW uri \in Files, DiskTypes, NEW r, r = refreshDependents(s, uri)
    PROVE  Linked(r) /\ (Rooted(s) => Rooted(r)) /\ r.openDocuments = s.openDocuments
           /\ KeepsVersions(s, r, {})
<1>1. ASSUME NEW q, Linked(q), NEW d \in Files
      PROVE  /\ Linked(Reparsed(d, q)) /\ (Rooted(q) => Rooted(Reparsed(d, q)))
             /\ Reparsed(d, q).openDocuments = q.openDocuments
             /\ KeepsVersions(q, Reparsed(d, q), {})
  <2>1. PICK e : e = Reparsed(d, q)
    OBVIOUS
  <2>2. Linked(e) /\ (Rooted(q) => Rooted(e)) /\ e.openDocuments = q.openDocuments
        /\ KeepsVersions(q, e, {})
    BY <1>1, <2>1, ReparsedKeeps
  <2> QED
    BY <2>1, <2>2
<1>2. PICK A : A = {q \in Servers : /\ Linked(q) /\ (Rooted(s) => Rooted(q))
                                    /\ q.openDocuments = s.openDocuments /\ KeepsVersions(s, q, {})}
  OBVIOUS
<1>3. s \in A
  BY <1>2 DEF Linked, KeepsVersions
<1>4. \A q \in A : \A d \in Files : Reparsed(d, q) \in A
  <2>1. ASSUME NEW q \in A, NEW d \in Files PROVE Reparsed(d, q) \in A
    <3>1. Linked(q) /\ (Rooted(s) => Rooted(q)) /\ q.openDocuments = s.openDocuments /\ KeepsVersions(s, q, {})
      BY <1>2
    <3>2. PICK e : e = Reparsed(d, q)
      OBVIOUS
    <3>3. Linked(e) /\ (Rooted(q) => Rooted(e)) /\ e.openDocuments = q.openDocuments
          /\ KeepsVersions(q, e, {})
      BY <1>1, <3>1, <3>2
    <3>4. e \in Servers
      BY <3>3 DEF Linked
    <3>5. KeepsVersions(s, e, {})
      BY <3>1, <3>3 DEF KeepsVersions
    <3> QED
      BY <1>2, <3>1, <3>2, <3>3, <3>4, <3>5
  <2> QED
    BY <2>1
<1>5. PICK S, G : S = Dependents(s, uri) /\ G = [t \in SUBSET S |-> A]
  OBVIOUS
<1>6. s \in G[{}] /\ \A t \in SUBSET S : \A d \in S \ t : \A q \in G[t] : Reparsed(d, q) \in G[t \cup {d}]
  <2>1. S \subseteq Files
    BY <1>5, DependentsAreFiles
  <2>2. \A t \in SUBSET S : G[t] = A /\ \A d \in S : t \cup {d} \in SUBSET S
    BY <1>5
  <2>3. \A t \in SUBSET S : \A d \in S : G[t \cup {d}] = A
    BY <2>2
  <2> QED
    BY <1>3, <1>4, <2>1, <2>2, <2>3
<1>7. r \in A
  <2>1. r \in G[S]
    BY <1>3, <1>4, <1>5, <1>6, DependentsEach
  <2> QED
    BY <1>5, <2>1
<1> QED
  BY <1>2, <1>7

-------------------------------------------------------------------------------
\* The handlers.

Placed(s, uri, doc, open) ==
    [documents |-> [s.documents EXCEPT ![uri] = doc], openDocuments |-> open,
     imports |-> s.imports, importers |-> s.importers]

Refreshing(m, uri) == refreshDependents(refreshImports(m, uri), uri)

LEMMA VersionsAreNumbers ==
    ASSUME NEW s, Linked(s), NEW uri \in Files
    PROVE  s.documents[uri].version \in Nat
<1>1. s.documents[uri] \in Documents \cup {NoDocument}
  BY ServerFacts DEF Linked
<1> QED
  BY <1>1 DEF Documents, NoDocument

\* The document is parsed, and set, before anything is refreshed.
Opening(s, uri, text, version, r) ==
    \E doc \in Documents :
        /\ doc.text = text /\ doc.version = version
        /\ Fresh(doc, [f \in Files |-> IF f = uri THEN text ELSE Read(s)[f]])
        /\ r = Refreshing(Placed(s, uri, doc, s.openDocuments \cup {uri}), uri)

LEMMA UpdateOpens ==
    ASSUME NEW s, Linked(s), DiskTypes, NEW uri \in Files, NEW text \in Texts,
           NEW version \in Nat, NEW r, r = updateDocument(s, uri, text, version)
    PROVE  \/ r = s /\ uri \in Loaded(s) /\ version <= s.documents[uri].version
           \/ Opening(s, uri, text, version, r)
<1>0. PICK read : read = [f \in Files |-> IF f = uri THEN text ELSE Read(s)[f]]
  OBVIOUS
<1>1. s \in Servers
  BY DEF Linked
<1>2. s = [documents |-> s.documents, openDocuments |-> s.openDocuments,
           imports |-> s.imports, importers |-> s.importers]
  BY <1>1, ServerFacts
<1>5. PICK first : first = [text |-> text, version |-> version, inputs |-> <<>>, seen |-> <<>>]
  OBVIOUS
<1>6. PICK opened : opened = [s EXCEPT !.openDocuments = @ \cup {uri}, !.documents[uri] = first]
  OBVIOUS
<1>7. PICK open, documents : open = s.openDocuments \cup {uri} /\ documents = [s.documents EXCEPT ![uri] = first]
  OBVIOUS
<1>8. opened = [documents |-> documents, openDocuments |-> open, imports |-> s.imports, importers |-> s.importers]
  <2>1. opened = [s EXCEPT !.openDocuments = open, !.documents = documents]
    BY <1>2, <1>6, <1>7
  <2> QED
    BY <1>2, <2>1
<1>9. Sourced(opened) /\ Read(opened) = read
  <2>1. opened.documents = documents /\ opened.openDocuments = open
    BY <1>8
  <2>2. \A f \in Files : documents[f] = IF f = uri THEN first ELSE s.documents[f]
    BY <1>1, <1>7, ServerFacts
  <2>3. first.text = text
    BY <1>5
  <2>4. Sourced(s)
    BY LinkedSourced
  <2>5. \A f \in Files : Effective(opened, f) = IF f = uri THEN text ELSE Effective(s, f)
    BY <1>7, <2>1, <2>2, <2>3 DEF Effective
  <2>6. Sourced(opened)
    BY <2>1, <2>2, <2>3, <2>4, <2>5 DEF Sourced, Contents
  <2> QED
    BY <1>0, <2>5, <2>6 DEF Read
<1>10. PICK doc : doc = parseDocument(opened, uri, version, text)
  OBVIOUS
<1>11. doc \in Documents /\ doc.text = text /\ doc.version = version /\ Fresh(doc, read)
  BY <1>9, <1>10, ParseFacts
<1>12. PICK e : e = [opened EXCEPT !.documents[uri] = doc]
  OBVIOUS
<1>13. PICK later : later = [s.documents EXCEPT ![uri] = doc]
  OBVIOUS
<1>14. e = [documents |-> later, openDocuments |-> open, imports |-> s.imports, importers |-> s.importers]
  <2>1. [documents EXCEPT ![uri] = doc] = later
    BY <1>1, <1>7, <1>13, ServerFacts
  <2>2. e = [opened EXCEPT !.documents = later]
    BY <1>8, <1>12, <2>1
  <2> QED
    BY <1>8, <2>2
<1>15. e = Placed(s, uri, doc, s.openDocuments \cup {uri})
  BY <1>7, <1>13, <1>14 DEF Placed
<1>16. \/ r = s /\ uri \in Loaded(s) /\ version <= s.documents[uri].version
       \/ r = refreshDependents(refreshImports(e, uri), uri)
  BY <1>5, <1>6, <1>10, <1>12 DEF updateDocument
<1> QED
  BY <1>0, <1>11, <1>15, <1>16 DEF Refreshing, Opening

LEMMA UpdateFacts ==
    ASSUME NEW s, Linked(s), Rooted(s), DiskTypes, NEW uri \in Files, NEW text \in Texts,
           NEW version \in Nat, NEW r, r = updateDocument(s, uri, text, version)
    PROVE  /\ Linked(r) /\ Rooted(r)
           /\ s.documents[uri].version < version =>
                 /\ r.openDocuments = s.openDocuments \cup {uri}
                 /\ \A f \in r.openDocuments :
                       r.documents[f].version = IF f = uri THEN version ELSE s.documents[f].version
<1>1. CASE r = s /\ uri \in Loaded(s) /\ version <= s.documents[uri].version
  <2>1. s.documents[uri].version \in Nat
    BY VersionsAreNumbers
  <2> QED
    BY <1>1, <2>1
<1>2. CASE Opening(s, uri, text, version, r)
  <2>2. PICK doc \in Documents : doc.version = version /\ r = Refreshing(Placed(s, uri, doc, s.openDocuments \cup {uri}), uri)
    BY <1>2 DEF Opening
  <2>3. PICK open, e, q : /\ open = s.openDocuments \cup {uri} /\ e = Placed(s, uri, doc, open)
                          /\ q = refreshImports(e, uri)
    OBVIOUS
  <2>4. open \in SUBSET Files
    BY <2>3, ServerFacts DEF Linked
  <2>5. e = [documents |-> [s.documents EXCEPT ![uri] = doc], openDocuments |-> open,
             imports |-> s.imports, importers |-> s.importers]
    BY <2>3 DEF Placed
  <2>6. Linked(e)
    BY <2>3, <2>4, <2>5, SetFacts
  <2>7. Linked(q) /\ Rooted(q) /\ q.openDocuments = e.openDocuments /\ KeepsVersions(e, q, {})
    BY <2>3, <2>6, RefreshFacts, RefreshKeeps
  <2>8. r = refreshDependents(q, uri)
    BY <2>2, <2>3 DEF Refreshing
  <2>9. Linked(r) /\ Rooted(r) /\ r.openDocuments = q.openDocuments /\ KeepsVersions(q, r, {})
    BY <2>7, <2>8, DependentFacts
  <2>10. /\ e.openDocuments = open
         /\ \A f \in Files : e.documents[f].version = IF f = uri THEN version ELSE s.documents[f].version
    <3>1. s.documents \in [Files -> Documents \cup {NoDocument}]
      BY ServerFacts DEF Linked
    <3>2. e.openDocuments = open /\ e.documents = [s.documents EXCEPT ![uri] = doc]
      BY <2>5
    <3>3. doc.version = version
      BY <2>2
    <3> QED
      BY <3>1, <3>2, <3>3
  <2>11. r.openDocuments = s.openDocuments \cup {uri} /\ r.openDocuments \in SUBSET Files
    BY <2>3, <2>4, <2>7, <2>9, <2>10
  <2>12. \A f \in r.openDocuments : r.documents[f].version = e.documents[f].version
    BY <2>7, <2>9 DEF KeepsVersions
  <2> QED
    BY <2>9, <2>10, <2>11, <2>12
<1> QED
  BY <1>1, <1>2, UpdateOpens

LEMMA PlacedIsServer ==
    ASSUME NEW s \in Servers, NEW uri \in Files, NEW open \in SUBSET Files
    PROVE  LET r == Placed(s, uri, NoDocument, open)
           IN /\ r \in Servers /\ r.openDocuments = open /\ r.imports = s.imports
              /\ r.importers = s.importers /\ Loaded(r) = Loaded(s) \ {uri}
              /\ \A f \in Files \ {uri} : r.documents[f] = s.documents[f]
<1>1. PICK documents : documents = [s.documents EXCEPT ![uri] = NoDocument]
  OBVIOUS
<1>2. documents \in [Files -> Documents \cup {NoDocument}]
      /\ \A f \in Files : documents[f] = IF f = uri THEN NoDocument ELSE s.documents[f]
  BY <1>1, ServerFacts
<1>3. PICK r : r = [documents |-> documents, openDocuments |-> open, imports |-> s.imports,
                    importers |-> s.importers]
  OBVIOUS
<1>4. Placed(s, uri, NoDocument, open) = r
  BY <1>1, <1>3 DEF Placed
<1>5. r \in Servers /\ r.documents = documents
      /\ r.openDocuments = open /\ r.imports = s.imports /\ r.importers = s.importers
  BY <1>2, <1>3, ServerFacts, ServerOf
<1>6. Loaded(r) = Loaded(s) \ {uri}
  BY <1>2, <1>5 DEF Loaded
<1> QED
  BY <1>2, <1>4, <1>5, <1>6

\* What is left when a file that is not open goes.
LEMMA GoneFacts ==
    ASSUME NEW s, Linked(s), NEW uri \in Files, NEW open, open = s.openDocuments \ {uri},
           NEW r, r = Placed(s, uri, NoDocument, open), NEW c, c = clearImports(r, uri)
    PROVE  /\ Linked(c) /\ c.openDocuments = open /\ Loaded(c) = Loaded(s) \ {uri}
           /\ \A f \in Files \ {uri} : c.documents[f] = s.documents[f] /\ c.imports[f] = s.imports[f]
<1>1. s \in Servers
  BY DEF Linked
<1>2. open \in SUBSET Files
  BY <1>1, ServerFacts
<1>3. /\ r \in Servers /\ r.openDocuments = open /\ r.imports = s.imports /\ r.importers = s.importers
      /\ Loaded(r) = Loaded(s) \ {uri} /\ \A f \in Files \ {uri} : r.documents[f] = s.documents[f]
  BY <1>1, <1>2, PlacedIsServer
<1>4. /\ \A f, g \in Files : g \in r.imports[f] <=> f \in r.importers[g]
      /\ \A f \in Files \ Loaded(r) : f = uri \/ r.imports[f] = {}
      /\ r.openDocuments \subseteq Loaded(r)
  BY <1>3 DEF Linked
<1>5. PICK m : m = r
  OBVIOUS
<1>6. m \in Servers /\ c = clearImports(m, uri)
  BY <1>3, <1>5
<1>7. /\ \A f, g \in Files : g \in m.imports[f] <=> f \in m.importers[g]
      /\ \A f \in Files \ Loaded(m) : f = uri \/ m.imports[f] = {}
      /\ m.openDocuments \subseteq Loaded(m)
  BY <1>4, <1>5
<1>8. /\ Linked(c) /\ c.documents = m.documents /\ c.openDocuments = m.openDocuments
      /\ \A f \in Files \ {uri} : c.imports[f] = m.imports[f]
  <2>1. Linked(c)
    BY <1>6, <1>7, ClearFacts
  <2>2. c.documents = m.documents /\ c.openDocuments = m.openDocuments
    BY <1>6, <1>7, ClearFacts
  <2>3. ASSUME NEW f \in Files \ {uri} PROVE c.imports[f] = m.imports[f]
    BY <1>6, <1>7, ClearFacts
  <2> QED
    BY <2>1, <2>2, <2>3
<1>9. Loaded(c) = Loaded(r)
  BY <1>5, <1>8 DEF Loaded
<1> QED
  BY <1>3, <1>5, <1>8, <1>9

\* A loaded document that is not open is read again.
LEMMA ReloadReads ==
    ASSUME NEW s, Linked(s), DiskTypes, NEW uri \in Files, NEW r, r = reloadDocument(s, uri),
           uri \notin s.openDocuments, uri \in Loaded(s), disk[uri] # Missing
    PROVE  \E doc \in Documents :
              /\ doc.text = disk[uri] /\ Fresh(doc, Read(s))
              /\ r = pruneUnreachableDocuments(Refreshing(Placed(s, uri, doc, s.openDocuments), uri))
<1>1. s = [documents |-> s.documents, openDocuments |-> s.openDocuments,
           imports |-> s.imports, importers |-> s.importers]
  BY ServerFacts DEF Linked
<1>2. PICK v : v = s.documents[uri].version + 1
  OBVIOUS
<1>3. v \in Nat
  BY <1>2, VersionsAreNumbers
<1>4. disk[uri] \in Texts
  BY DEF DiskTypes, Contents
<1>5. PICK doc : doc = parseDocument(s, uri, v, disk[uri])
  OBVIOUS
<1>6. doc \in Documents /\ doc.text = disk[uri] /\ Fresh(doc, Read(s))
  BY <1>3, <1>4, <1>5, LinkedSourced, ParseFacts
<1>7. PICK documents, e : documents = [s.documents EXCEPT ![uri] = doc] /\ e = [s EXCEPT !.documents[uri] = doc]
  OBVIOUS
<1>8. e = Placed(s, uri, doc, s.openDocuments)
  <2>1. e = [s EXCEPT !.documents = documents]
    BY <1>1, <1>7
  <2>2. e = [documents |-> documents, openDocuments |-> s.openDocuments,
             imports |-> s.imports, importers |-> s.importers]
    BY <1>1, <2>1
  <2> QED
    BY <1>7, <2>2 DEF Placed
<1>9. r = pruneUnreachableDocuments(Refreshing(e, uri))
  <2>1. [s EXCEPT !.documents[uri] = parseDocument(s, uri, @.version + 1, disk[uri])] = e
    BY <1>1, <1>2, <1>5, <1>7
  <2> QED
    BY <2>1, Zenon DEF reloadDocument, Refreshing
<1> QED
  BY <1>6, <1>8, <1>9

\* One that is not there any more is cleared.
LEMMA ReloadClears ==
    ASSUME NEW s, Linked(s), NEW uri \in Files, NEW r, r = reloadDocument(s, uri),
           uri \notin s.openDocuments, uri \in Loaded(s), disk[uri] = Missing
    PROVE  r = pruneUnreachableDocuments(refreshDependents(
                 clearImports(Placed(s, uri, NoDocument, s.openDocuments \ {uri}), uri), uri))
<1>1. s = [documents |-> s.documents, openDocuments |-> s.openDocuments,
           imports |-> s.imports, importers |-> s.importers]
  BY ServerFacts DEF Linked
<1>2. PICK documents, e : documents = [s.documents EXCEPT ![uri] = NoDocument] /\ e = Without(s, uri)
  OBVIOUS
<1>3. e = [documents |-> documents, openDocuments |-> s.openDocuments, imports |-> s.imports,
           importers |-> s.importers]
  <2>1. e = [s EXCEPT !.documents = documents]
    BY <1>1, <1>2 DEF Without
  <2> QED
    BY <1>1, <2>1
<1>4. s.openDocuments \ {uri} = s.openDocuments
  OBVIOUS
<1>5. e = Placed(s, uri, NoDocument, s.openDocuments \ {uri})
  BY <1>2, <1>3, <1>4 DEF Placed
<1>6. r = pruneUnreachableDocuments(refreshDependents(clearImports(e, uri), uri))
  BY <1>2, Zenon DEF reloadDocument
<1> QED
  BY <1>5, <1>6

LEMMA PrunedFacts ==
    ASSUME NEW q, Linked(q), NEW uri \in Files, DiskTypes,
           NEW r, r = pruneUnreachableDocuments(refreshDependents(q, uri))
    PROVE  Linked(r) /\ Rooted(r) /\ r.openDocuments = q.openDocuments /\ KeepsVersions(q, r, {})
<1>1. PICK d : d = refreshDependents(q, uri)
  OBVIOUS
<1>2. Linked(d) /\ d.openDocuments = q.openDocuments /\ KeepsVersions(q, d, {})
  BY <1>1, DependentFacts
<1>3. Linked(r) /\ Rooted(r) /\ r.openDocuments = d.openDocuments /\ KeepsVersions(d, r, {})
  BY <1>1, <1>2, PruneFacts, PruneKeeps
<1> QED
  BY <1>2, <1>3 DEF KeepsVersions

LEMMA SetPruned ==
    ASSUME NEW s, Linked(s), NEW uri \in Files, DiskTypes, NEW doc \in Documents,
           NEW open \in SUBSET Files, open \subseteq s.openDocuments,
           NEW r, r = pruneUnreachableDocuments(Refreshing(Placed(s, uri, doc, open), uri))
    PROVE  Linked(r) /\ Rooted(r) /\ r.openDocuments = open /\ KeepsVersions(s, r, {uri})
<1>1. PICK e, q : e = Placed(s, uri, doc, open) /\ q = refreshImports(e, uri)
  OBVIOUS
<1>2. e = [documents |-> [s.documents EXCEPT ![uri] = doc], openDocuments |-> open,
           imports |-> s.imports, importers |-> s.importers]
  BY <1>1 DEF Placed
<1>3. Linked(e)
  BY <1>2, SetFacts
<1>4. Linked(q) /\ q.openDocuments = e.openDocuments /\ KeepsVersions(e, q, {})
  BY <1>1, <1>3, RefreshFacts, RefreshKeeps
<1>5. r = pruneUnreachableDocuments(refreshDependents(q, uri))
  BY <1>1 DEF Refreshing
<1>6. Linked(r) /\ Rooted(r) /\ r.openDocuments = q.openDocuments /\ KeepsVersions(q, r, {})
  BY <1>4, <1>5, PrunedFacts
<1>7. /\ e.openDocuments = open
      /\ \A f \in Files \ {uri} : e.documents[f] = s.documents[f]
  <2>1. s.documents \in [Files -> Documents \cup {NoDocument}]
    BY ServerFacts DEF Linked
  <2> QED
    BY <1>2, <2>1
<1> QED
  BY <1>4, <1>6, <1>7 DEF KeepsVersions

LEMMA ReloadFacts ==
    ASSUME NEW s, Linked(s), Rooted(s), DiskTypes, NEW uri \in Files, NEW r, r = reloadDocument(s, uri)
    PROVE  Linked(r) /\ Rooted(r) /\ r.openDocuments = s.openDocuments /\ KeepsVersions(s, r, {})
<1>1. s.openDocuments \in SUBSET Files
  BY ServerFacts DEF Linked
<1>2. CASE uri \in s.openDocuments
  <2>1. PICK q : q = refreshImports(s, uri)
    OBVIOUS
  <2>2. Linked(q) /\ Rooted(q) /\ q.openDocuments = s.openDocuments /\ KeepsVersions(s, q, {})
    BY <2>1, RefreshFacts, RefreshKeeps
  <2>3. r = refreshDependents(q, uri)
    BY <1>2, <2>1 DEF reloadDocument
  <2>4. Linked(r) /\ Rooted(r) /\ r.openDocuments = q.openDocuments /\ KeepsVersions(q, r, {})
    BY <2>2, <2>3, DependentFacts
  <2> QED
    BY <2>2, <2>4 DEF KeepsVersions
<1>3. CASE uri \notin s.openDocuments /\ uri \notin Loaded(s)
  BY <1>3 DEF reloadDocument, KeepsVersions
<1>4. CASE uri \notin s.openDocuments /\ uri \in Loaded(s) /\ disk[uri] # Missing
  <2>1. PICK doc \in Documents :
          r = pruneUnreachableDocuments(Refreshing(Placed(s, uri, doc, s.openDocuments), uri))
    BY <1>4, ReloadReads
  <2>2. Linked(r) /\ Rooted(r) /\ r.openDocuments = s.openDocuments /\ KeepsVersions(s, r, {uri})
    BY <1>1, <2>1, SetPruned
  <2> QED
    BY <1>4, <2>2 DEF KeepsVersions
<1>5. CASE uri \notin s.openDocuments /\ uri \in Loaded(s) /\ disk[uri] = Missing
  <2>1. PICK open, e, q : /\ open = s.openDocuments \ {uri} /\ e = Placed(s, uri, NoDocument, open)
                          /\ q = clearImports(e, uri)
    OBVIOUS
  <2>2. /\ Linked(q) /\ q.openDocuments = s.openDocuments
        /\ \A f \in s.openDocuments : q.documents[f] = s.documents[f]
    <3>1. /\ Linked(q) /\ q.openDocuments = open
          /\ \A f \in Files \ {uri} : q.documents[f] = s.documents[f]
      BY <2>1, GoneFacts
    <3> QED
      BY <1>1, <1>5, <2>1, <3>1
  <2>3. r = pruneUnreachableDocuments(refreshDependents(q, uri))
    BY <1>5, <2>1, ReloadClears
  <2>4. Linked(r) /\ Rooted(r) /\ r.openDocuments = q.openDocuments /\ KeepsVersions(q, r, {})
    BY <2>2, <2>3, PrunedFacts
  <2> QED
    BY <2>2, <2>4 DEF KeepsVersions
<1> QED
  BY <1>2, <1>3, <1>4, <1>5

\* A document that is closed goes back to the text on the disk, or is cleared.
LEMMA CloseReads ==
    ASSUME NEW s, Linked(s), DiskTypes, NEW uri \in Files, NEW r, r = closeDocument(s, uri),
           NEW open, open = s.openDocuments \ {uri},
           NEW read, read = [f \in Files |-> IF f = uri THEN disk[uri] ELSE Read(s)[f]]
    PROVE  \/ /\ s.importers[uri] # {} /\ disk[uri] # Missing
              /\ \E doc \in Documents :
                    /\ doc.text = disk[uri] /\ Fresh(doc, read)
                    /\ r = pruneUnreachableDocuments(Refreshing(Placed(s, uri, doc, open), uri))
           \/ /\ s.importers[uri] = {} \/ disk[uri] = Missing
              /\ r = pruneUnreachableDocuments(refreshDependents(
                        clearImports(Placed(s, uri, NoDocument, open), uri), uri))
<1>1. s \in Servers
  BY DEF Linked
<1>2. s = [documents |-> s.documents, openDocuments |-> s.openDocuments,
           imports |-> s.imports, importers |-> s.importers]
  BY <1>1, ServerFacts
<1>3. PICK documents : documents = [s.documents EXCEPT ![uri] = NoDocument]
  OBVIOUS
<1>4. PICK closed : closed = [s EXCEPT !.openDocuments = @ \ {uri}, !.documents[uri] = NoDocument]
  OBVIOUS
<1>5. closed = [documents |-> documents, openDocuments |-> open, imports |-> s.imports, importers |-> s.importers]
  <2>1. closed = [s EXCEPT !.openDocuments = open, !.documents = documents]
    BY <1>2, <1>3, <1>4
  <2> QED
    BY <1>2, <2>1
<1>6. closed = Placed(s, uri, NoDocument, open)
  BY <1>3, <1>5 DEF Placed
<1>7. PICK doc : doc = parseDocument(closed, uri, s.documents[uri].version, disk[uri])
  OBVIOUS
<1>8. PICK e : e = [closed EXCEPT !.documents[uri] = doc]
  OBVIOUS
<1>9. e = Placed(s, uri, doc, open)
  <2>1. PICK later : later = [s.documents EXCEPT ![uri] = doc]
    OBVIOUS
  <2>2. [documents EXCEPT ![uri] = doc] = later
    BY <1>1, <1>3, <2>1, ServerFacts
  <2>3. e = [closed EXCEPT !.documents = later]
    BY <1>5, <1>8, <2>2
  <2>4. e = [documents |-> later, openDocuments |-> open, imports |-> s.imports, importers |-> s.importers]
    BY <1>5, <2>3
  <2> QED
    BY <2>1, <2>4 DEF Placed
<1>10. ASSUME disk[uri] # Missing PROVE doc \in Documents /\ doc.text = disk[uri] /\ Fresh(doc, read)
  <2>1. disk[uri] \in Texts
    BY <1>10 DEF DiskTypes, Contents
  <2>2. Sourced(closed) /\ Read(closed) = read
    <3>1. \A f \in Files : f \in open => f # uri /\ f \in s.openDocuments /\ documents[f] = s.documents[f]
      BY <1>1, <1>3, ServerFacts
    <3>2. \A f \in Files : f # uri /\ f \in s.openDocuments => f \in open
      OBVIOUS
    <3>3. Sourced(s)
      BY LinkedSourced
    <3>4. closed.documents = documents /\ closed.openDocuments = open
      BY <1>5
    <3>5. \A f \in Files : Effective(closed, f) = IF f = uri THEN disk[uri] ELSE Effective(s, f)
      BY <3>1, <3>2, <3>4 DEF Effective
    <3>6. Sourced(closed)
      <4>1. \A f \in Files : documents[f].text \in Contents
        BY <1>1, <1>3, <3>3, ServerFacts DEF Sourced, NoDocument, Contents
      <4> QED
        BY <3>3, <3>4, <3>5, <4>1 DEF Sourced, DiskTypes
    <3> QED
      BY <3>5, <3>6 DEF Read
  <2>3. s.documents[uri].version \in Nat
    BY VersionsAreNumbers
  <2> QED
    BY <1>7, <2>1, <2>2, <2>3, ParseFacts
<1>11. PICK q : q = IF s.importers[uri] # {} /\ disk[uri] # Missing THEN refreshImports(e, uri)
                                                                   ELSE clearImports(closed, uri)
  OBVIOUS
<1>12. r = pruneUnreachableDocuments(refreshDependents(q, uri))
  <2> DEFINE Rest(c) ==
        pruneUnreachableDocuments(refreshDependents(
          IF s.importers[uri] # {} /\ disk[uri] # Missing
          THEN refreshImports([c EXCEPT !.documents[uri] =
                                 parseDocument(c, uri, s.documents[uri].version, disk[uri])], uri)
          ELSE clearImports(c, uri), uri))
  <2>1. r = Rest([s EXCEPT !.openDocuments = @ \ {uri}, !.documents[uri] = NoDocument])
    BY Zenon DEF closeDocument
  <2>2. Rest(closed) = pruneUnreachableDocuments(refreshDependents(q, uri))
    BY <1>7, <1>8, <1>11, Zenon
  <2> HIDE DEF Rest
  <2> QED
    BY <1>4, <2>1, <2>2
<1>13. CASE s.importers[uri] # {} /\ disk[uri] # Missing
  <2>1. r = pruneUnreachableDocuments(Refreshing(Placed(s, uri, doc, open), uri))
    BY <1>9, <1>11, <1>12, <1>13 DEF Refreshing
  <2> QED
    BY <1>10, <1>13, <2>1
<1>14. CASE ~(s.importers[uri] # {} /\ disk[uri] # Missing)
  BY <1>6, <1>11, <1>12, <1>14
<1> QED
  BY <1>13, <1>14

LEMMA CloseFacts ==
    ASSUME NEW s, Linked(s), DiskTypes, NEW uri \in Files, NEW r, r = closeDocument(s, uri)
    PROVE  Linked(r) /\ Rooted(r) /\ r.openDocuments = s.openDocuments \ {uri} /\ KeepsVersions(s, r, {})
<1>1. PICK open, read : /\ open = s.openDocuments \ {uri}
                        /\ read = [f \in Files |-> IF f = uri THEN disk[uri] ELSE Read(s)[f]]
  OBVIOUS
<1>2. open \in SUBSET Files /\ open \subseteq s.openDocuments
  BY <1>1, ServerFacts DEF Linked
<1>3. ASSUME NEW doc \in Documents, r = pruneUnreachableDocuments(Refreshing(Placed(s, uri, doc, open), uri))
      PROVE  Linked(r) /\ Rooted(r) /\ r.openDocuments = open /\ KeepsVersions(s, r, {})
  <2>1. Linked(r) /\ Rooted(r) /\ r.openDocuments = open /\ KeepsVersions(s, r, {uri})
    BY <1>2, <1>3, SetPruned
  <2> QED
    BY <1>1, <2>1 DEF KeepsVersions
<1>4. CASE r = pruneUnreachableDocuments(refreshDependents(
                  clearImports(Placed(s, uri, NoDocument, open), uri), uri))
  <2>1. PICK e, q : e = Placed(s, uri, NoDocument, open) /\ q = clearImports(e, uri)
    OBVIOUS
  <2>2. Linked(q) /\ q.openDocuments = open /\ \A f \in open : q.documents[f] = s.documents[f]
    BY <1>1, <1>2, <2>1, GoneFacts
  <2>3. Linked(r) /\ Rooted(r) /\ r.openDocuments = q.openDocuments /\ KeepsVersions(q, r, {})
    BY <1>4, <2>1, <2>2, PrunedFacts
  <2> QED
    BY <1>1, <2>2, <2>3 DEF KeepsVersions
<1> QED
  BY <1>1, <1>3, <1>4, CloseReads

-------------------------------------------------------------------------------
LEMMA InitGraphInv == Init => GraphInv
<1> SUFFICES ASSUME Init PROVE GraphInv
  OBVIOUS
<1>1. DiskTypes
  BY DEF Init, DiskTypes, Contents, Texts
<1>2. PICK documents, open, imports, importers :
        /\ documents = [f \in Files |-> NoDocument] /\ open = {}
        /\ imports = [f \in Files |-> {}] /\ importers = [f \in Files |-> {}]
  OBVIOUS
<1>3. server = [documents |-> documents, openDocuments |-> open, imports |-> imports, importers |-> importers]
  BY <1>2 DEF Init
<1>4. /\ documents \in [Files -> Documents \cup {NoDocument}] /\ open \in SUBSET Files
      /\ imports \in [Files -> SUBSET Files] /\ importers \in [Files -> SUBSET Files]
  BY <1>2
<1>5. server \in Servers /\ server.documents = documents /\ server.openDocuments = open
      /\ server.imports = imports /\ server.importers = importers
  BY <1>3, <1>4, ServerOf
<1>6. Loaded(server) = {}
  BY <1>2, <1>5 DEF Loaded
<1>7. Linked(server) /\ Rooted(server)
  BY <1>2, <1>5, <1>6 DEF Linked, Rooted
<1> QED
  BY <1>1, <1>7 DEF GraphInv, Init

\* What the editor sends is numbered as its buffer is.
LEMMA EditsAreNumbered ==
    ASSUME NEW f \in Files, NEW t \in TextsOf[f], DidOpen(f, t) \/ DidChange(f, t),
           editor[f] = Closed \/ editor[f].version \in Nat
    PROVE  \E v \in Nat : /\ editor' = [editor EXCEPT ![f] = [text |-> t, version |-> v]]
                          /\ server' = updateDocument(server, f, t, v)
                          /\ disk' = disk /\ pending' = pending
                          /\ v = IF editor[f] = Closed THEN 1 ELSE editor[f].version + 1
<1>1. CASE DidOpen(f, t)
  BY <1>1 DEF DidOpen
<1>2. CASE DidChange(f, t)
  <2>1. PICK v : v = editor[f].version + 1
    OBVIOUS
  <2>2. editor[f] # Closed /\ editor[f].version \in Nat
    BY <1>2 DEF DidChange
  <2>3. v \in Nat
    BY <2>1, <2>2
  <2>4. /\ editor' = [editor EXCEPT ![f] = [text |-> t, version |-> v]]
        /\ server' = updateDocument(server, f, t, v) /\ disk' = disk /\ pending' = pending
    BY <1>2, <2>1 DEF DidChange
  <2> QED
    BY <2>1, <2>2, <2>3, <2>4
<1> QED
  BY <1>1, <1>2

LEMMA GraphInvStep == GraphInv /\ [Next]_vars => GraphInv'
<1> SUFFICES ASSUME GraphInv, [Next]_vars PROVE GraphInv'
  OBVIOUS
<1>1. \A s : (Linked(s)' <=> Linked(s)) /\ (Rooted(s)' <=> Rooted(s))
  BY DEF Linked, Rooted, Loaded
<1>2. /\ editor = [f \in Files |-> editor[f]] /\ DiskTypes
      /\ \A f \in Files : editor[f] = Closed \/ (editor[f].text \in TextsOf[f] /\ editor[f].version \in Nat)
      /\ Linked(server) /\ Rooted(server)
  BY DEF GraphInv
<1>3. ASSUME disk' = disk PROVE DiskTypes'
  BY <1>2, <1>3 DEF DiskTypes
<1>4. ASSUME NEW f \in Files, NEW t \in TextsOf[f], DidOpen(f, t) \/ DidChange(f, t)
      PROVE  GraphInv'
  <2>1. PICK v \in Nat : /\ editor' = [editor EXCEPT ![f] = [text |-> t, version |-> v]]
                         /\ server' = updateDocument(server, f, t, v) /\ disk' = disk
    BY <1>2, <1>4, EditsAreNumbered
  <2>3. t \in Texts
    BY TextFacts
  <2>4. Linked(server') /\ Rooted(server')
    BY <1>2, <2>1, <2>3, UpdateFacts
  <2>5. /\ editor' = [g \in Files |-> editor'[g]]
        /\ \A g \in Files : editor'[g] = Closed \/ (editor'[g].text \in TextsOf[g] /\ editor'[g].version \in Nat)
    BY <1>2, <2>1
  <2> QED
    BY <1>1, <1>3, <2>1, <2>4, <2>5 DEF GraphInv
<1>5. ASSUME NEW f \in Files, DidClose(f)
      PROVE  GraphInv'
  <2>1. editor' = [editor EXCEPT ![f] = Closed] /\ disk' = disk /\ server' = closeDocument(server, f)
    BY <1>5 DEF DidClose
  <2>2. Linked(server') /\ Rooted(server')
    BY <1>2, <2>1, CloseFacts
  <2>3. /\ editor' = [g \in Files |-> editor'[g]]
        /\ \A g \in Files : editor'[g] = Closed \/ (editor'[g].text \in TextsOf[g] /\ editor'[g].version \in Nat)
    BY <1>2, <2>1
  <2> QED
    BY <1>1, <1>3, <2>1, <2>2, <2>3 DEF GraphInv
<1>6. ASSUME NEW f \in Files, DidSave(f) \/ DidChangeWatchedFiles(f)
      PROVE  GraphInv'
  <2>1. editor' = editor /\ disk' = disk /\ server' = reloadDocument(server, f)
    BY <1>6 DEF DidSave, DidChangeWatchedFiles
  <2>2. Linked(server') /\ Rooted(server')
    BY <1>2, <2>1, ReloadFacts
  <2> QED
    BY <1>1, <1>2, <1>3, <2>1, <2>2 DEF GraphInv
<1>7. ASSUME NEW f \in Files,
             WriteBuffer(f) \/ \E t \in TextsOf[f] \cup {Missing} : FileChanges(f, t)
      PROVE  GraphInv'
  <2>1. editor' = editor /\ server' = server
    BY <1>7 DEF WriteBuffer, FileChanges
  <2>2. PICK t \in TextsOf[f] \cup {Missing} : disk' = [disk EXCEPT ![f] = t]
    <3>1. CASE WriteBuffer(f)
      BY <1>2, <3>1 DEF WriteBuffer
    <3>2. CASE \E t \in TextsOf[f] \cup {Missing} : FileChanges(f, t)
      BY <3>2 DEF FileChanges
    <3> QED
      BY <1>7, <3>1, <3>2
  <2>3. DiskTypes'
    BY <1>2, <2>2 DEF DiskTypes, Contents, Texts
  <2> QED
    BY <1>1, <1>2, <2>1, <2>3 DEF GraphInv
<1>8. CASE UNCHANGED vars
  BY <1>1, <1>2, <1>3, <1>8 DEF GraphInv, vars
<1> QED
  BY <1>4, <1>5, <1>6, <1>7, <1>8 DEF Next

\* Whatever files there are and however they import each other, in cycles too:
\* after each notification the two maps of the import graph are inverse to each
\* other, only loaded documents have edges, and every document that is not reached
\* from an open one is gone. Dependents may be refreshed in any order.
THEOREM GraphStaysConsistent == Spec => []GraphIsConsistent
<1>1. GraphInv => GraphIsConsistent
  BY DEF GraphInv, Linked, Rooted, GraphIsConsistent
<1> QED
  BY <1>1, InitGraphInv, GraphInvStep, PTL DEF Spec

-------------------------------------------------------------------------------
\* What a text is known to depend on.

Reads == [Files -> Contents]

LEMMA ReadFacts ==
    ASSUME NEW s, Linked(s), DiskTypes
    PROVE  Read(s) \in Reads
<1>1. Sourced(s)
  BY LinkedSourced
<1> QED
  BY <1>1 DEF Sourced, Read, Reads

LEMMA FollowFacts ==
    ASSUME NEW read \in Reads, NEW late
    PROVE  /\ Follow(read, late) \in [Files -> SUBSET Files]
           /\ \A f \in Files : Follow(read, late)[f] = IF f \in late THEN {} ELSE ImportsOf[read[f]]
<1>1. \A f \in Files : ImportsOf[read[f]] \in SUBSET Files
  BY TextFacts DEF Reads
<1> QED
  BY <1>1 DEF Follow

LEMMA KnownFacts ==
    ASSUME NEW text \in Contents, NEW read \in Reads, NEW late, NEW K, K = Known(text, read, late)
    PROVE  /\ K \in SUBSET Files /\ ImportsOf[text] \subseteq K
           /\ \A f \in K : f \notin late => ImportsOf[read[f]] \subseteq K
           /\ \A f \in K : \/ f \in ImportsOf[text]
                           \/ \E h \in K : h \notin late /\ f \in ImportsOf[read[h]]
<1>1. PICK from, next : from = ImportsOf[text] /\ next = Follow(read, late)
  OBVIOUS
<1>2. from \in SUBSET Files /\ next \in [Files -> SUBSET Files]
      /\ \A f \in Files : next[f] = IF f \in late THEN {} ELSE ImportsOf[read[f]]
  BY <1>1, TextFacts, FollowFacts
<1>3. K = Reach(from, next)
  BY <1>1 DEF Known
<1>4. /\ from \subseteq K /\ K \in SUBSET Files
      /\ \A f \in K : f \in from \/ \E g \in K : f \in next[g]
  BY <1>2, <1>3, ReachFacts
<1>5. \A f \in K : next[f] \subseteq K
  BY <1>2, <1>3, ReachIsClosed
<1>6. \A f \in K : f \in Files
  BY <1>4
<1> QED
  BY <1>1, <1>2, <1>4, <1>5, <1>6

LEMMA KnownIsLeast ==
    ASSUME NEW text \in Contents, NEW read \in Reads, NEW late, NEW K, K = Known(text, read, late),
           NEW S, ImportsOf[text] \subseteq S,
           \A f \in S \cap K : f \notin late => ImportsOf[read[f]] \subseteq S
    PROVE  K \subseteq S
<1>1. PICK from, next : from = ImportsOf[text] /\ next = Follow(read, late)
  OBVIOUS
<1>2. from \in SUBSET Files /\ next \in [Files -> SUBSET Files]
      /\ \A f \in Files : next[f] = IF f \in late THEN {} ELSE ImportsOf[read[f]]
  BY <1>1, TextFacts, FollowFacts
<1>3. K = Reach(from, next)
  BY <1>1 DEF Known
<1>4. K \in SUBSET Files
  BY <1>2, <1>3, ReachFacts
<1>5. \A f \in S \cap K : next[f] \subseteq S
  BY <1>2, <1>4
<1> QED
  BY <1>1, <1>2, <1>3, <1>5, ReachIsLeast

LEMMA DocumentsOf ==
    ASSUME NEW s, Linked(s), NEW d \in Loaded(s)
    PROVE  /\ d \in Files /\ s.documents[d] \in Documents /\ s.documents[d].text \in Texts
           /\ s.documents[d].text \in Contents /\ s.documents[d].version \in Nat
           /\ ImportsOf[s.documents[d].text] \in SUBSET Files
<1>1. s \in Servers
  BY DEF Linked
<1>2. d \in Files /\ s.documents[d] \in Documents
  BY <1>1, ServerFacts
<1>3. s.documents[d].text \in Texts /\ s.documents[d].version \in Nat
  BY <1>2 DEF Documents
<1> QED
  BY <1>2, <1>3, TextFacts DEF Contents

-------------------------------------------------------------------------------
\* What a document was derived from, between any two notifications. In late are the
\* files whose contents are not what was loaded, and whose notification is to come.

Timely(s, read, late) == \A f \in Loaded(s) : f \in late \/ s.documents[f].text = read[f]

\* The graph fits what is read.
Settled(s, read, late) ==
    /\ Linked(s) /\ read \in Reads /\ Read(s) = read
    /\ Timely(s, read, late) /\ \A f \in Loaded(s) : Imported(s, read, f)

\* A document was derived from the closure of its text, and from nothing else.
Minimal(doc) ==
    \A W \in SUBSET Files :
        /\ ImportsOf[doc.text] \subseteq W
        /\ \A f \in W : f \in DOMAIN doc.inputs => ImportsOf[doc.inputs[f]] \subseteq W
        => DOMAIN doc.inputs \subseteq W

Knows(doc, read, late) ==
    \A f \in Known(doc.text, read, late) :
        f \in DOMAIN doc.inputs /\ (f \in late \/ doc.inputs[f] = read[f])

\* A file that is missing was missing when the document was derived.
Sure(doc, read, late) ==
    /\ Knows(doc, read, late)
    /\ \A f \in Known(doc.text, read, late) : read[f] = Missing => doc.inputs[f] = Missing

\* For whatever the document is known to depend on, and whose notification is to come,
\* there is an edge by which that notification finds the document.
Backed(s, d, read, late) ==
    /\ Knows(s.documents[d], read, late)
    /\ \A f \in ImportsOf[s.documents[d].text] : Edge(s, d, f) \/ s.documents[d].inputs[f] = read[f]
    /\ \A h \in Known(s.documents[d].text, read, late) : h \notin late =>
         \A f \in ImportsOf[read[h]] : Edge(s, h, f) \/ s.documents[d].inputs[f] = read[f]

Current(s, read, late) ==
    /\ Settled(s, read, late)
    /\ \A d \in Loaded(s) : Minimal(s.documents[d]) /\ Backed(s, d, read, late)

LEMMA FreshFacts ==
    ASSUME NEW doc, doc.text \in Texts, NEW read \in Reads, NEW late, Fresh(doc, read)
    PROVE  Minimal(doc) /\ Sure(doc, read, late)
<1>1. PICK text, inputs : text = doc.text /\ inputs = doc.inputs
  OBVIOUS
<1>2. PICK A, K : A = Known(text, read, {}) /\ K = Known(text, read, late)
  OBVIOUS
<1>3. text \in Contents
  BY <1>1 DEF Contents
<1>4. A \in SUBSET Files /\ ImportsOf[text] \subseteq A /\ \A f \in A : ImportsOf[read[f]] \subseteq A
  BY <1>2, <1>3, KnownFacts
<1>5. DOMAIN inputs = A /\ \A f \in A : inputs[f] = read[f]
  BY <1>1, <1>2 DEF Fresh
<1>6. K \subseteq A
  BY <1>2, <1>3, <1>4, KnownIsLeast
<1>7. ASSUME NEW W \in SUBSET Files, ImportsOf[text] \subseteq W,
             \A f \in W : f \in DOMAIN inputs => ImportsOf[inputs[f]] \subseteq W
      PROVE  DOMAIN inputs \subseteq W
  <2>1. \A f \in W \cap A : f \notin {} => ImportsOf[read[f]] \subseteq W
    BY <1>5, <1>7
  <2>2. A \subseteq W
    BY <1>2, <1>3, <1>7, <2>1, KnownIsLeast
  <2> QED
    BY <1>5, <2>2
<1>8. Minimal(doc)
  BY <1>1, <1>7 DEF Minimal
<1>9. Sure(doc, read, late)
  BY <1>1, <1>2, <1>5, <1>6 DEF Sure, Knows
<1> QED
  BY <1>8, <1>9

Ancestors(s, uri) == Reach({uri}, [f \in Files |-> s.importers[f] \cap Loaded(s)])

LEMMA AncestorFacts ==
    ASSUME NEW s, Linked(s), NEW uri \in Files, NEW A, A = Ancestors(s, uri)
    PROVE  /\ A \in SUBSET Files /\ uri \in A /\ Dependents(s, uri) = A \ {uri}
           /\ \A f \in A : \A h \in Loaded(s) : f \in s.imports[h] => h \in A
<1>1. PICK next : next = [f \in Files |-> s.importers[f] \cap Loaded(s)]
  OBVIOUS
<1>2. s \in Servers
  BY DEF Linked
<1>3. next \in [Files -> SUBSET Files] /\ {uri} \in SUBSET Files
  BY <1>1, <1>2, ServerFacts
<1>4. A = Reach({uri}, next) /\ Dependents(s, uri) = A \ {uri}
  BY <1>1 DEF Ancestors, Dependents
<1>5. A \in SUBSET Files /\ uri \in A
  BY <1>3, <1>4, ReachFacts
<1>6. ASSUME NEW f \in A, NEW h \in Loaded(s), f \in s.imports[h] PROVE h \in A
  <2>1. f \in Files /\ h \in Files
    BY <1>5 DEF Loaded
  <2>2. h \in s.importers[f]
    BY <1>6, <2>1 DEF Linked
  <2>3. h \in next[f]
    BY <1>1, <2>1, <2>2
  <2> QED
    BY <1>3, <1>4, <2>3, ReachIsClosed
<1> QED
  BY <1>4, <1>5, <1>6

\* Files that are known are loaded, if they are there, and edges lead to them.
LEMMA KnownAreLoaded ==
    ASSUME NEW s, NEW read, NEW late, Settled(s, read, late), NEW d \in Loaded(s),
           NEW K, K = Known(s.documents[d].text, read, late), NEW uri \in Files,
           NEW A, A = Ancestors(s, uri),
           NEW h \in K, read[h] # Missing
    PROVE  h \in Loaded(s) /\ (h \in A => d \in A)
<1>1. Linked(s) /\ read \in Reads /\ Timely(s, read, late) /\ \A f \in Loaded(s) : Imported(s, read, f)
  BY DEF Settled
<1>2. PICK text : text = s.documents[d].text
  OBVIOUS
<1>3. text \in Contents /\ K = Known(text, read, late)
  BY <1>1, <1>2, DocumentsOf
<1>4. K \in SUBSET Files /\ ImportsOf[text] \in SUBSET Files
  BY <1>1, <1>3, KnownFacts, TextFacts
<1>5. \A f \in A : \A g \in Loaded(s) : f \in s.imports[g] => g \in A
  BY <1>1, AncestorFacts
<1>6. PICK S : S = {f \in Files : read[f] # Missing => f \in Loaded(s) /\ (f \in A => d \in A)}
  OBVIOUS
<1>7. ImportsOf[text] \subseteq S
  <2>1. ASSUME NEW f \in ImportsOf[text], read[f] # Missing PROVE f \in Loaded(s) /\ (f \in A => d \in A)
    <3>1. Edge(s, d, f)
      BY <1>1, <1>2, <2>1 DEF Imported
    <3> QED
      BY <1>5, <3>1 DEF Edge
  <2> QED
    BY <1>4, <1>6, <2>1
<1>8. ASSUME NEW g \in S \cap K, g \notin late, NEW f \in ImportsOf[read[g]] PROVE f \in S
  <2>1. read[g] \in Contents /\ g \in Files
    BY <1>1, <1>6 DEF Reads
  <2>2. read[g] # Missing /\ f \in Files
    BY <1>8, <2>1, TextFacts, DocumentsAssumption
  <2>3. g \in Loaded(s) /\ (g \in A => d \in A)
    BY <1>6, <2>2
  <2>4. ASSUME read[f] # Missing PROVE f \in Loaded(s) /\ (f \in A => d \in A)
    <3>1. s.documents[g].text = read[g]
      BY <1>1, <1>8, <2>3 DEF Timely
    <3>2. Edge(s, g, f)
      BY <1>1, <1>8, <2>3, <2>4, <3>1 DEF Imported
    <3> QED
      BY <1>5, <2>3, <3>2 DEF Edge
  <2> QED
    BY <1>6, <2>2, <2>4
<1>9. K \subseteq S
  BY <1>1, <1>3, <1>7, <1>8, KnownIsLeast
<1> QED
  BY <1>6, <1>9

LEMMA KnownHaveEdges ==
    ASSUME NEW s, NEW read, NEW late, Settled(s, read, late), NEW d \in Loaded(s),
           NEW h \in Known(s.documents[d].text, read, late), h \notin late,
           NEW f \in ImportsOf[read[h]]
    PROVE  /\ h \in Files /\ f \in Files /\ h \in Loaded(s) /\ read[h] # Missing
           /\ read[f] # Missing => Edge(s, h, f)
<1>1. Linked(s) /\ read \in Reads /\ Timely(s, read, late) /\ \A g \in Loaded(s) : Imported(s, read, g)
  BY DEF Settled
<1>2. h \in Files
  BY <1>1, DocumentsOf, KnownFacts
<1>3. read[h] \in Contents
  BY <1>1, <1>2 DEF Reads
<1>4. read[h] # Missing /\ f \in Files
  BY <1>3, TextFacts, DocumentsAssumption
<1>5. h \in Loaded(s)
  BY <1>2, <1>4, KnownAreLoaded
<1>6. s.documents[h].text = read[h]
  BY <1>1, <1>5 DEF Timely
<1>7. read[f] # Missing => Edge(s, h, f)
  BY <1>1, <1>5, <1>6 DEF Imported
<1> QED
  BY <1>2, <1>4, <1>5, <1>7

LEMMA SureIsBacked ==
    ASSUME NEW s, NEW read, NEW late, Settled(s, read, late), NEW d \in Loaded(s),
           Sure(s.documents[d], read, late)
    PROVE  Backed(s, d, read, late)
<1>1. Linked(s) /\ read \in Reads /\ \A g \in Loaded(s) : Imported(s, read, g)
  BY DEF Settled
<1>2. PICK doc, K : doc = s.documents[d] /\ K = Known(doc.text, read, late)
  OBVIOUS
<1>3. doc.text \in Contents
  BY <1>1, <1>2, DocumentsOf
<1>4. ImportsOf[doc.text] \subseteq K /\ \A f \in K : f \notin late => ImportsOf[read[f]] \subseteq K
  BY <1>1, <1>2, <1>3, KnownFacts
<1>5. Knows(doc, read, late) /\ \A f \in K : read[f] = Missing => doc.inputs[f] = read[f]
  BY <1>2 DEF Sure
<1>6. ASSUME NEW f \in ImportsOf[doc.text] PROVE Edge(s, d, f) \/ doc.inputs[f] = read[f]
  <2>1. read[f] # Missing => Edge(s, d, f)
    BY <1>1, <1>2 DEF Imported
  <2> QED
    BY <1>4, <1>5, <2>1
<1>7. ASSUME NEW h \in K, h \notin late, NEW f \in ImportsOf[read[h]]
      PROVE  Edge(s, h, f) \/ doc.inputs[f] = read[f]
  <2>1. read[f] # Missing => Edge(s, h, f)
    BY <1>2, <1>7, KnownHaveEdges
  <2> QED
    BY <1>4, <1>5, <1>7, <2>1
<1> QED
  BY <1>2, <1>5, <1>6, <1>7 DEF Backed

\* A document that is left alone stays backed when edges from files that it does not
\* depend on, or that import nothing, go.
LEMMA BackedStays ==
    ASSUME NEW s, NEW r, NEW read, NEW late, Settled(s, read, late), Settled(r, read, late),
           NEW d \in Loaded(s), d \in Loaded(r), r.documents[d] = s.documents[d],
           NEW U, d \notin U,
           \A h \in Known(s.documents[d].text, read, late) : h \notin late /\ ImportsOf[read[h]] # {} => h \notin U,
           \A h \in Loaded(r) \ U : \A f \in Files : Edge(s, h, f) => Edge(r, h, f),
           Backed(s, d, read, late)
    PROVE  Backed(r, d, read, late)
<1>1. PICK doc, K : doc = s.documents[d] /\ K = Known(doc.text, read, late)
  OBVIOUS
<1>2. Linked(s)
  BY DEF Settled
<1>3. /\ Knows(doc, read, late)
      /\ \A f \in ImportsOf[doc.text] : Edge(s, d, f) \/ doc.inputs[f] = read[f]
      /\ \A h \in K : h \notin late => \A f \in ImportsOf[read[h]] : Edge(s, h, f) \/ doc.inputs[f] = read[f]
  BY <1>1 DEF Backed
<1>4. ASSUME NEW f \in ImportsOf[doc.text] PROVE Edge(r, d, f) \/ doc.inputs[f] = read[f]
  <2>1. f \in Files
    BY <1>1, <1>2, DocumentsOf
  <2> QED
    BY <1>3, <2>1
<1>5. ASSUME NEW h \in K, h \notin late, NEW f \in ImportsOf[read[h]]
      PROVE  Edge(r, h, f) \/ doc.inputs[f] = read[f]
  <2>1. f \in Files /\ h \in Loaded(r)
    BY <1>1, <1>5, KnownHaveEdges
  <2>2. h \notin U
    BY <1>1, <1>5
  <2> QED
    BY <1>3, <1>5, <2>1, <2>2
<1> QED
  BY <1>1, <1>3, <1>4, <1>5 DEF Backed

LEMMA SameRead ==
    ASSUME NEW s, NEW r, Linked(s), Linked(r), r.openDocuments = s.openDocuments,
           \A f \in Loaded(r) : f \in Loaded(s) => r.documents[f] = s.documents[f]
    PROVE  Read(r) = Read(s)
<1>1. \A f \in Files : f \in s.openDocuments => f \in Loaded(s) /\ f \in Loaded(r)
  BY DEF Linked
<1>2. \A f \in Files : Effective(r, f) = Effective(s, f)
  BY <1>1 DEF Effective
<1> QED
  BY <1>2 DEF Read

LEMMA PruneSettles ==
    ASSUME NEW s, NEW read, NEW late, Settled(s, read, late), NEW r, r = pruneUnreachableDocuments(s)
    PROVE  Settled(r, read, late)
<1>1. Linked(s) /\ read \in Reads /\ Read(s) = read /\ Timely(s, read, late)
      /\ \A f \in Loaded(s) : Imported(s, read, f)
  BY DEF Settled
<1>2. /\ Linked(r) /\ r.openDocuments = s.openDocuments /\ Loaded(r) \subseteq Loaded(s)
      /\ \A f \in Loaded(r) : r.documents[f] = s.documents[f]
      /\ \A h \in Loaded(r) : \A f \in Files : Edge(s, h, f) => Edge(r, h, f)
  BY <1>1, PruneFacts
<1>3. Read(r) = read
  BY <1>1, <1>2, SameRead
<1>4. Timely(r, read, late)
  BY <1>1, <1>2 DEF Timely
<1>5. ASSUME NEW f \in Loaded(r) PROVE Imported(r, read, f)
  <2>1. f \in Loaded(s) /\ r.documents[f] = s.documents[f]
    BY <1>2
  <2>2. ImportsOf[s.documents[f].text] \in SUBSET Files
    BY <1>1, <2>1, DocumentsOf
  <2>3. \A g \in ImportsOf[s.documents[f].text] : read[g] # Missing => Edge(s, f, g)
    BY <1>1, <2>1 DEF Imported
  <2> QED
    BY <1>2, <2>1, <2>2, <2>3 DEF Imported
<1> QED
  BY <1>1, <1>2, <1>3, <1>4, <1>5 DEF Settled

LEMMA PruneIsCurrent ==
    ASSUME NEW s, NEW read, NEW late, Current(s, read, late), NEW r, r = pruneUnreachableDocuments(s)
    PROVE  Current(r, read, late) /\ r.openDocuments = s.openDocuments
<1>1. Settled(s, read, late) /\ \A d \in Loaded(s) : Minimal(s.documents[d]) /\ Backed(s, d, read, late)
  BY DEF Current
<1>2. Settled(r, read, late)
  BY <1>1, PruneSettles
<1>3. /\ r.openDocuments = s.openDocuments /\ Loaded(r) \subseteq Loaded(s)
      /\ \A f \in Loaded(r) : r.documents[f] = s.documents[f]
      /\ \A h \in Loaded(r) : \A f \in Files : Edge(s, h, f) => Edge(r, h, f)
  BY <1>1, PruneFacts DEF Settled
<1>4. ASSUME NEW d \in Loaded(r) PROVE Minimal(r.documents[d]) /\ Backed(r, d, read, late)
  <2>1. d \in Loaded(s) /\ r.documents[d] = s.documents[d] /\ Backed(s, d, read, late)
    BY <1>1, <1>3
  <2>2. PICK U : U = {}
    OBVIOUS
  <2>3. d \notin U /\ \A h \in Loaded(r) \ U : \A f \in Files : Edge(s, h, f) => Edge(r, h, f)
    BY <1>3, <2>2
  <2>4. \A h \in Known(s.documents[d].text, read, late) : h \notin late /\ ImportsOf[read[h]] # {} => h \notin U
    BY <2>2
  <2>5. Backed(r, d, read, late)
    BY <1>1, <1>2, <2>1, <2>3, <2>4, BackedStays
  <2> QED
    BY <1>1, <2>1, <2>5
<1> QED
  BY <1>2, <1>3, <1>4 DEF Current

\* A refresh of the imports of uri makes up for the edges of uri that do not fit.
LEMMA RefreshSettles ==
    ASSUME NEW s, Linked(s), DiskTypes, NEW read, read = Read(s), NEW late, Timely(s, read, late),
           NEW uri \in Files, \A f \in Loaded(s) \ {uri} : Imported(s, read, f),
           NEW r, r = refreshImports(s, uri)
    PROVE  Settled(r, read, late) /\ Refreshed(s, uri, r) /\ r.openDocuments = s.openDocuments
<1>1. Linked(r) /\ r.openDocuments = s.openDocuments /\ Refreshed(s, uri, r)
  BY RefreshFacts
<1>2. /\ \A f \in Loaded(r) : IF f \in Loaded(s) THEN r.documents[f] = s.documents[f]
                             ELSE Fresh(r.documents[f], read) /\ r.documents[f].text = read[f]
      /\ \A h \in Loaded(r) \ {uri} : \A f \in Files : Edge(s, h, f) => Edge(r, h, f)
      /\ \A h \in Loaded(r) : h \in Loaded(s) \ {uri} \/ Imported(r, read, h)
  BY <1>1 DEF Refreshed
<1>3. Read(r) = read
  BY <1>1, <1>2, SameRead
<1>4. Timely(r, read, late)
  BY <1>2 DEF Timely
<1>5. ASSUME NEW f \in Loaded(r) \ {uri}, f \in Loaded(s) PROVE Imported(r, read, f)
  <2>1. r.documents[f] = s.documents[f] /\ Imported(s, read, f)
    BY <1>2, <1>5
  <2>2. ImportsOf[s.documents[f].text] \in SUBSET Files
    BY <1>5, DocumentsOf
  <2>3. \A g \in ImportsOf[s.documents[f].text] : read[g] # Missing => Edge(s, f, g)
    BY <2>1 DEF Imported
  <2> QED
    BY <1>2, <2>1, <2>2, <2>3 DEF Imported
<1>6. \A f \in Loaded(r) : Imported(r, read, f)
  BY <1>2, <1>5
<1>7. read \in Reads
  BY ReadFacts
<1> QED
  BY <1>1, <1>3, <1>4, <1>6, <1>7 DEF Settled

-------------------------------------------------------------------------------
\* The refresh of the dependents, in the middle of it.

\* A document that the notification does not concern.
Untouched(s, d, read, late, D) ==
    /\ Backed(s, d, read, late) /\ d \notin D
    /\ \A h \in Known(s.documents[d].text, read, late) : h \notin late /\ ImportsOf[read[h]] # {} => h \notin D

\* The dependents in todo are not refreshed yet.
Half(s, read, late, D, todo) ==
    /\ Settled(s, read, late)
    /\ \A d \in Loaded(s) : /\ Minimal(s.documents[d])
                            /\ d \in todo \/ Sure(s.documents[d], read, late) \/ Untouched(s, d, read, late, D)

LEMMA HalfStep ==
    ASSUME NEW s, NEW read, NEW late, NEW D, NEW todo, Half(s, read, late, D, todo), DiskTypes,
           NEW x \in D, x \in Files, NEW r, r = Reparsed(x, s)
    PROVE  Half(r, read, late, D, todo \ {x}) /\ r.openDocuments = s.openDocuments
<1>1. /\ Settled(s, read, late)
      /\ \A d \in Loaded(s) : /\ Minimal(s.documents[d])
                              /\ d \in todo \/ Sure(s.documents[d], read, late) \/ Untouched(s, d, read, late, D)
  BY DEF Half
<1>2. /\ Linked(s) /\ read \in Reads /\ Read(s) = read /\ Timely(s, read, late)
      /\ \A f \in Loaded(s) : Imported(s, read, f)
  BY <1>1 DEF Settled
<1>3. CASE x \notin Loaded(s)
  <2>1. r = s
    BY <1>3 DEF Reparsed
  <2>2. \A d \in Loaded(s) : d \in todo \ {x} \/ Sure(s.documents[d], read, late) \/ Untouched(s, d, read, late, D)
    BY <1>1, <1>3
  <2> QED
    BY <1>1, <2>1, <2>2 DEF Half
<1>4. CASE x \in Loaded(s)
  <2>1. s.documents[x] \in Documents /\ s.documents[x].text \in Texts /\ s.documents[x].version \in Nat
    BY <1>2, <1>4, DocumentsOf
  <2>2. PICK doc : doc = parseDocument(s, x, s.documents[x].version, s.documents[x].text)
    OBVIOUS
  <2>3. doc \in Documents /\ doc.text = s.documents[x].text /\ Fresh(doc, read)
    BY <1>2, <2>1, <2>2, LinkedSourced, ParseFacts
  <2>4. PICK m : m = [s EXCEPT !.documents[x] = doc]
    OBVIOUS
  <2>5. Linked(m)
    BY <1>2, <2>3, <2>4, ReparsedFacts
  <2>6. /\ m.openDocuments = s.openDocuments /\ m.imports = s.imports
        /\ m.documents = [s.documents EXCEPT ![x] = doc]
        /\ s.documents \in [Files -> Documents \cup {NoDocument}]
    BY <1>2, <2>4, ServerFacts DEF Linked
  <2>7. Loaded(m) = Loaded(s) /\ m.documents[x] = doc
        /\ \A d \in Files : d # x => m.documents[d] = s.documents[d]
    <3>1. doc # NoDocument
      BY <2>3, TextFacts
    <3> QED
      BY <1>4, <2>6, <3>1 DEF Loaded
  <2>8. \A d \in Loaded(m) : m.documents[d].text = s.documents[d].text
    BY <2>3, <2>7 DEF Loaded
  <2>9. \A f, g \in Files : Edge(m, f, g) <=> Edge(s, f, g)
    BY <2>6, <2>7 DEF Edge
  <2>10. Read(m) = read
    <3>1. \A f \in Files : f \in s.openDocuments => f \in Loaded(m)
      BY <2>5, <2>6 DEF Linked
    <3>2. \A f \in Files : Effective(m, f) = Effective(s, f)
      BY <2>6, <2>8, <3>1 DEF Effective
    <3> QED
      BY <1>2, <3>2 DEF Read
  <2>11. Timely(m, read, late)
    BY <1>2, <2>7, <2>8 DEF Timely
  <2>12. ASSUME NEW f \in Loaded(m) PROVE Imported(m, read, f)
    <3>1. ImportsOf[s.documents[f].text] \in SUBSET Files /\ f \in Files /\ Imported(s, read, f)
      BY <1>2, <2>7, <2>12, DocumentsOf
    <3> QED
      BY <2>8, <2>9, <2>12, <3>1 DEF Imported
  <2>13. r = refreshImports(m, x)
    BY <1>4, <2>2, <2>4 DEF Reparsed
  <2>14. Settled(r, read, late) /\ Refreshed(m, x, r) /\ r.openDocuments = m.openDocuments
    BY <2>5, <2>10, <2>11, <2>12, <2>13, RefreshSettles
  <2>15. /\ \A f \in Loaded(r) : IF f \in Loaded(m) THEN r.documents[f] = m.documents[f]
                                 ELSE Fresh(r.documents[f], read)
         /\ \A h \in Loaded(r) \ {x} : \A f \in Files : Edge(m, h, f) => Edge(r, h, f)
    BY <2>10, <2>14 DEF Refreshed
  <2>16. ASSUME NEW d \in Loaded(r), Fresh(r.documents[d], read)
         PROVE  Minimal(r.documents[d]) /\ Sure(r.documents[d], read, late)
    <3>1. r.documents[d].text \in Texts
      BY <2>14, DocumentsOf DEF Settled
    <3> QED
      BY <1>2, <2>16, <3>1, FreshFacts
  <2>17. ASSUME NEW d \in Loaded(r), d \in Loaded(s), d # x
         PROVE  /\ Minimal(r.documents[d])
                /\ d \in todo \ {x} \/ Sure(r.documents[d], read, late) \/ Untouched(r, d, read, late, D)
    <3>1. r.documents[d] = s.documents[d]
      BY <2>7, <2>15, <2>17 DEF Loaded
    <3>2. ASSUME Untouched(s, d, read, late, D) PROVE Untouched(r, d, read, late, D)
      <4>1. PICK U : U = {x}
        OBVIOUS
      <4>2. /\ Backed(s, d, read, late) /\ d \notin D
            /\ \A h \in Known(s.documents[d].text, read, late) :
                  h \notin late /\ ImportsOf[read[h]] # {} => h \notin D
        BY <3>2 DEF Untouched
      <4>3. d \notin U /\ \A h \in Known(s.documents[d].text, read, late) :
                             h \notin late /\ ImportsOf[read[h]] # {} => h \notin U
        BY <2>17, <4>1, <4>2
      <4>4. \A h \in Loaded(r) \ U : \A f \in Files : Edge(s, h, f) => Edge(r, h, f)
        BY <2>9, <2>15, <4>1 DEF Loaded
      <4>5. Backed(r, d, read, late)
        BY <1>1, <2>14, <2>17, <3>1, <4>2, <4>3, <4>4, BackedStays
      <4> QED
        BY <3>1, <4>2, <4>5 DEF Untouched
    <3> QED
      BY <1>1, <2>17, <3>1, <3>2
  <2>18. \A d \in Loaded(r) : /\ Minimal(r.documents[d])
                              /\ \/ d \in todo \ {x} \/ Sure(r.documents[d], read, late)
                                 \/ Untouched(r, d, read, late, D)
    BY <2>3, <2>7, <2>15, <2>16, <2>17
  <2> QED
    BY <2>6, <2>14, <2>18 DEF Half
<1> QED
  BY <1>3, <1>4

LEMMA DependentsAreDone ==
    ASSUME NEW s, NEW read, NEW late, NEW uri \in Files, NEW D, D = Dependents(s, uri),
           Half(s, read, late, D, D), DiskTypes, NEW r, r = refreshDependents(s, uri)
    PROVE  Half(r, read, late, D, {}) /\ r.openDocuments = s.openDocuments
<1>1. \A q : Half(q, read, late, D, D) => Linked(q)
  BY DEF Half, Settled
<1>2. Linked(s)
  BY <1>1
<1>3. D \in SUBSET Files
  BY <1>2, DependentsAreFiles
<1>4. PICK A : A = {q \in Servers : Linked(q)}
  OBVIOUS
<1>5. s \in A
  BY <1>2, <1>4 DEF Linked
<1>6. ASSUME NEW q \in A, NEW d \in Files PROVE Reparsed(d, q) \in A
  <2>1. PICK e : e = Reparsed(d, q)
    OBVIOUS
  <2>2. Linked(e)
    BY <1>4, <2>1, ReparsedKeeps
  <2> QED
    BY <1>4, <2>1, <2>2 DEF Linked
<1>7. PICK G : G = [t \in SUBSET D |->
                      {q \in Servers : Half(q, read, late, D, D \ t) /\ q.openDocuments = s.openDocuments}]
  OBVIOUS
<1>8. s \in G[{}]
  <2>1. {} \in SUBSET D /\ D \ {} = D /\ s \in Servers
    BY <1>2 DEF Linked
  <2>2. Half(s, read, late, D, D \ {})
    BY <2>1
  <2> QED
    BY <1>7, <2>1, <2>2
<1>9. ASSUME NEW t \in SUBSET D, NEW d \in D \ t, NEW q \in G[t]
      PROVE  Reparsed(d, q) \in G[t \cup {d}]
  <2>1. Half(q, read, late, D, D \ t) /\ q.openDocuments = s.openDocuments
    BY <1>7
  <2>2. PICK e, left : e = Reparsed(d, q) /\ left = D \ t
    OBVIOUS
  <2>3. d \in D /\ d \in Files /\ Half(q, read, late, D, left)
    BY <1>3, <2>1, <2>2
  <2>4. Half(e, read, late, D, left \ {d}) /\ e.openDocuments = s.openDocuments
    BY <2>1, <2>2, <2>3, HalfStep
  <2>5. left \ {d} = D \ (t \cup {d}) /\ t \cup {d} \in SUBSET D
    BY <2>2
  <2>6. e \in Servers
    BY <2>4 DEF Half, Settled, Linked
  <2>7. Half(e, read, late, D, D \ (t \cup {d}))
    BY <2>4, <2>5
  <2> QED
    BY <1>7, <2>2, <2>4, <2>5, <2>6, <2>7
<1>10. r \in G[D]
  BY <1>2, <1>5, <1>6, <1>8, <1>9, DependentsEach
<1>11. Half(r, read, late, D, D \ D) /\ r.openDocuments = s.openDocuments
  BY <1>7, <1>10
<1>12. D \ D = {}
  OBVIOUS
<1> QED
  BY <1>11, <1>12

LEMMA NothingLeft ==
    ASSUME NEW s, NEW read, NEW late, NEW D, Half(s, read, late, D, {})
    PROVE  Current(s, read, late)
<1>1. /\ Settled(s, read, late)
      /\ \A d \in Loaded(s) : /\ Minimal(s.documents[d])
                              /\ Sure(s.documents[d], read, late) \/ Untouched(s, d, read, late, D)
  BY DEF Half
<1>2. ASSUME NEW d \in Loaded(s) PROVE Backed(s, d, read, late)
  <2>1. CASE Sure(s.documents[d], read, late)
    BY <1>1, <2>1, SureIsBacked
  <2>2. CASE Untouched(s, d, read, late, D)
    BY <2>2 DEF Untouched
  <2> QED
    BY <1>1, <2>1, <2>2
<1> QED
  BY <1>1, <1>2 DEF Current

-------------------------------------------------------------------------------
\* The notification of a change of uri, before the dependents of uri are refreshed.

\* What is read is as it was, apart from uri.
Apart(read0, late0, read, late, uri) ==
    \A f \in Files \ {uri} : read[f] = read0[f] /\ (f \in late <=> f \in late0)

Follows(s, q, uri, read) ==
    /\ \A d \in Loaded(q) \ {uri} : IF d \in Loaded(s) THEN q.documents[d] = s.documents[d]
                                    ELSE Fresh(q.documents[d], read)
    /\ \A h \in Loaded(q) \ {uri} : \A f \in Files :
         Edge(s, h, f) => f \in q.imports[h] /\ (f = uri \/ f \in Loaded(q))

\* A document that is no dependent of uri is not concerned: an edge led from what it
\* depends on to uri, or it was derived when uri was missing, which it is still.
LEMMA OthersAreUntouched ==
    ASSUME NEW s, NEW read0, NEW late0, Current(s, read0, late0),
           NEW q, NEW read, NEW late, Settled(q, read, late),
           NEW uri \in Files, Apart(read0, late0, read, late, uri), Follows(s, q, uri, read),
           NEW D, D = Dependents(q, uri),
           NEW d \in Loaded(q) \ {uri}, d \in Loaded(s), d \notin D
    PROVE  Untouched(q, d, read, late, D)
<1>1. Linked(q) /\ read \in Reads /\ \A f \in Loaded(q) : Imported(q, read, f)
  BY DEF Settled
<1>2. Settled(s, read0, late0) /\ Backed(s, d, read0, late0)
  BY DEF Current
<1>3. Linked(s) /\ read0 \in Reads /\ Imported(s, read0, d)
  BY <1>2 DEF Settled
<1>4. PICK doc, text, inputs : doc = s.documents[d] /\ text = doc.text /\ inputs = doc.inputs
  OBVIOUS
<1>5. q.documents[d] = doc
  BY <1>4 DEF Follows
<1>6. text \in Contents /\ ImportsOf[text] \in SUBSET Files
  BY <1>3, <1>4, DocumentsOf
<1>7. PICK K, K0 : K = Known(text, read, late) /\ K0 = Known(text, read0, late0)
  OBVIOUS
<1>8. /\ K \in SUBSET Files /\ ImportsOf[text] \subseteq K
      /\ \A f \in K : f \notin late => ImportsOf[read[f]] \subseteq K
      /\ \A f \in K : f \in ImportsOf[text] \/ \E h \in K : h \notin late /\ f \in ImportsOf[read[h]]
  BY <1>1, <1>6, <1>7, KnownFacts
<1>9. /\ ImportsOf[text] \subseteq K0
      /\ \A f \in K0 : f \notin late0 => ImportsOf[read0[f]] \subseteq K0
  BY <1>3, <1>6, <1>7, KnownFacts
<1>10. PICK A : A = Ancestors(q, uri)
  OBVIOUS
<1>11. /\ D = A \ {uri} /\ uri \in A
       /\ \A f \in A : \A h \in Loaded(q) : f \in q.imports[h] => h \in A
  BY <1>1, <1>10, AncestorFacts
<1>12. d \notin A
  BY <1>11
<1>13. ASSUME NEW h \in K, read[h] # Missing PROVE h \in Loaded(q) /\ h \notin A
  BY <1>4, <1>5, <1>7, <1>10, <1>12, <1>13, KnownAreLoaded
<1>14. uri \in K => read[uri] = Missing
  BY <1>11, <1>13
<1>15. ASSUME NEW f \in K, f # uri PROVE f \in Files /\ read[f] = read0[f] /\ (f \in late <=> f \in late0)
  BY <1>8, <1>15 DEF Apart
<1>16. K \subseteq K0
  <2>1. ASSUME NEW f \in K0 \cap K, f \notin late PROVE ImportsOf[read[f]] \subseteq K0
    <3>1. CASE f = uri
      BY <1>14, <2>1, <3>1, DocumentsAssumption
    <3>2. CASE f # uri
      BY <1>9, <1>15, <2>1, <3>2
    <3> QED
      BY <3>1, <3>2
  <2> QED
    BY <1>1, <1>6, <1>7, <1>9, <2>1, KnownIsLeast
<1>17. /\ \A f \in K0 : f \in DOMAIN inputs /\ (f \in late0 \/ inputs[f] = read0[f])
       /\ \A f \in ImportsOf[text] : Edge(s, d, f) \/ inputs[f] = read0[f]
       /\ \A h \in K0 : h \notin late0 => \A f \in ImportsOf[read0[h]] : Edge(s, h, f) \/ inputs[f] = read0[f]
  BY <1>2, <1>4, <1>7 DEF Backed, Knows
<1>18. ASSUME NEW h \in K, h \notin late, NEW f \in ImportsOf[read[h]]
       PROVE  /\ h \in Files /\ f \in Files /\ h \in Loaded(q) /\ h \notin A /\ h # uri /\ read[h] # Missing
              /\ h \in K0 /\ h \notin late0 /\ read0[h] = read[h] /\ f \in K
  <2>1. h \in Files /\ f \in Files /\ h \in Loaded(q) /\ read[h] # Missing
    BY <1>4, <1>5, <1>7, <1>18, KnownHaveEdges
  <2> QED
    BY <1>8, <1>11, <1>13, <1>15, <1>16, <1>18, <2>1
<1>19. ASSUME NEW h \in Loaded(q) \ {uri}, h \notin A PROVE ~Edge(s, h, uri)
  BY <1>11, <1>19 DEF Follows
<1>20. ASSUME uri \in K PROVE inputs[uri] = read[uri]
  <2>1. ASSUME uri \in ImportsOf[text] PROVE inputs[uri] = read0[uri] /\ read0[uri] = Missing
    <3>1. ~Edge(s, d, uri)
      BY <1>12, <1>19
    <3>2. read0[uri] # Missing => Edge(s, d, uri)
      BY <1>3, <1>4, <2>1 DEF Imported
    <3> QED
      BY <1>17, <2>1, <3>1, <3>2
  <2>2. ASSUME NEW h \in K, h \notin late, uri \in ImportsOf[read[h]]
        PROVE  inputs[uri] = read0[uri] /\ read0[uri] = Missing
    <3>1. /\ h \in Loaded(q) /\ h \notin A /\ h # uri /\ h \in K0 /\ h \notin late0
          /\ uri \in ImportsOf[read0[h]]
      BY <1>18, <2>2
    <3>2. ~Edge(s, h, uri)
      BY <1>19, <3>1
    <3>3. read0[uri] # Missing => Edge(s, h, uri)
      BY <1>2, <1>4, <1>7, <3>1, KnownHaveEdges
    <3> QED
      BY <1>17, <3>1, <3>2, <3>3
  <2> QED
    BY <1>8, <1>14, <1>20, <2>1, <2>2
<1>21. Knows(doc, read, late)
  <2>1. ASSUME NEW f \in K PROVE f \in DOMAIN inputs /\ (f \in late \/ inputs[f] = read[f])
    BY <1>15, <1>16, <1>17, <1>20
  <2> QED
    BY <1>4, <1>7, <2>1 DEF Knows
<1>22. ASSUME NEW h \in Loaded(q) \ {uri}, NEW f \in Files, f # uri, Edge(s, h, f) PROVE Edge(q, h, f)
  BY <1>22 DEF Follows, Edge
<1>23. ASSUME NEW f \in ImportsOf[text] PROVE Edge(q, d, f) \/ inputs[f] = read[f]
  BY <1>6, <1>8, <1>15, <1>17, <1>20, <1>22
<1>24. ASSUME NEW h \in K, h \notin late, NEW f \in ImportsOf[read[h]]
       PROVE  Edge(q, h, f) \/ inputs[f] = read[f]
  BY <1>15, <1>17, <1>18, <1>20, <1>22, <1>24
<1>25. Backed(q, d, read, late)
  BY <1>4, <1>5, <1>7, <1>21, <1>23, <1>24 DEF Backed
<1>26. ASSUME NEW h \in K, h \notin late, ImportsOf[read[h]] # {} PROVE h \notin D
  BY <1>11, <1>18, <1>26
<1> QED
  BY <1>4, <1>5, <1>7, <1>25, <1>26 DEF Untouched

LEMMA BeginsHalf ==
    ASSUME NEW s, NEW read0, NEW late0, Current(s, read0, late0),
           NEW q, NEW read, NEW late, Settled(q, read, late),
           NEW uri \in Files, Apart(read0, late0, read, late, uri), Follows(s, q, uri, read),
           uri \in Loaded(q) => Minimal(q.documents[uri]) /\ Sure(q.documents[uri], read, late),
           NEW D, D = Dependents(q, uri)
    PROVE  Half(q, read, late, D, D)
<1>1. Linked(q) /\ read \in Reads
  BY DEF Settled
<1>2. ASSUME NEW d \in Loaded(q) \ {uri}
      PROVE  /\ Minimal(q.documents[d])
             /\ d \in D \/ Sure(q.documents[d], read, late) \/ Untouched(q, d, read, late, D)
  <2>1. CASE d \in Loaded(s)
    <3>1. q.documents[d] = s.documents[d] /\ Minimal(s.documents[d])
      BY <1>2, <2>1 DEF Follows, Current
    <3>2. d \notin D => Untouched(q, d, read, late, D)
      BY <1>2, <2>1, OthersAreUntouched
    <3> QED
      BY <3>1, <3>2
  <2>2. CASE d \notin Loaded(s)
    <3>1. Fresh(q.documents[d], read)
      BY <1>2, <2>2 DEF Follows
    <3>2. q.documents[d].text \in Texts
      BY <1>1, <1>2, DocumentsOf
    <3> QED
      BY <1>1, <3>1, <3>2, FreshFacts
  <2> QED
    BY <2>1, <2>2
<1> QED
  BY <1>2 DEF Half

\* The maps after the document at uri is set, and before its imports are refreshed.
Amended(s, m, uri) ==
    /\ Linked(m) /\ m.imports = s.imports /\ Loaded(m) = Loaded(s) \cup {uri}
    /\ \A f \in Files \ {uri} : m.documents[f] = s.documents[f]

\* A file that comes into being is one that no document missed.
Appears(s, read0, read, uri) ==
    read0[uri] = Missing /\ read[uri] # Missing =>
        \A d \in Loaded(s) : uri \notin DOMAIN s.documents[d].inputs

LEMMA OthersAreImported ==
    ASSUME NEW s, NEW read0, NEW late0, Current(s, read0, late0), NEW uri \in Files,
           NEW read, NEW late, Apart(read0, late0, read, late, uri), Appears(s, read0, read, uri),
           NEW f \in Loaded(s), NEW g \in ImportsOf[s.documents[f].text], read[g] # Missing
    PROVE  Edge(s, f, g)
<1>1. Settled(s, read0, late0) /\ Backed(s, f, read0, late0)
  BY DEF Current
<1>2. Linked(s) /\ read0 \in Reads /\ Imported(s, read0, f)
  BY <1>1 DEF Settled
<1>3. PICK text, K : text = s.documents[f].text /\ K = Known(text, read0, late0)
  OBVIOUS
<1>4. text \in Contents /\ ImportsOf[text] \in SUBSET Files
  BY <1>2, <1>3, DocumentsOf
<1>5. g \in Files /\ g \in K
  BY <1>2, <1>3, <1>4, KnownFacts
<1>6. g \in DOMAIN s.documents[f].inputs
  BY <1>1, <1>3, <1>5 DEF Backed, Knows
<1>7. read0[g] # Missing
  <2>1. CASE g = uri
    BY <1>6, <2>1 DEF Appears
  <2>2. CASE g # uri
    BY <1>5, <2>2 DEF Apart
  <2> QED
    BY <2>1, <2>2
<1> QED
  BY <1>2, <1>7 DEF Imported

LEMMA AmendedIsCurrent ==
    ASSUME NEW s, NEW read0, NEW late0, Current(s, read0, late0), DiskTypes, NEW uri \in Files,
           NEW m, Amended(s, m, uri), NEW read, read = Read(m), m.documents[uri].text = read[uri],
           NEW late, Apart(read0, late0, read, late, uri), Appears(s, read0, read, uri),
           Minimal(m.documents[uri]), Sure(m.documents[uri], read, late),
           NEW r, r = Refreshing(m, uri)
    PROVE  Current(r, read, late) /\ r.openDocuments = m.openDocuments
<1>1. /\ Linked(m) /\ m.imports = s.imports /\ Loaded(m) = Loaded(s) \cup {uri}
      /\ \A f \in Files \ {uri} : m.documents[f] = s.documents[f]
  BY DEF Amended
<1>2. /\ Timely(s, read0, late0) /\ Linked(s) /\ Loaded(s) \subseteq Files
  BY DEF Current, Settled, Loaded
<1>3. read \in Reads
  BY <1>1, ReadFacts
<1>4. Timely(m, read, late)
  <2>1. ASSUME NEW f \in Loaded(m), f # uri PROVE f \in late \/ m.documents[f].text = read[f]
    <3>1. f \in Loaded(s) /\ f \in Files /\ m.documents[f] = s.documents[f]
      BY <1>1, <1>2, <2>1
    <3>2. read[f] = read0[f] /\ (f \in late <=> f \in late0)
      BY <2>1, <3>1 DEF Apart
    <3> QED
      BY <1>2, <3>1, <3>2 DEF Timely
  <2> QED
    BY <2>1 DEF Timely
<1>5. \A f, g \in Files : Edge(s, f, g) => Edge(m, f, g)
  BY <1>1 DEF Edge
<1>6. ASSUME NEW f \in Loaded(m) \ {uri} PROVE Imported(m, read, f)
  <2>1. f \in Loaded(s) /\ f \in Files /\ m.documents[f] = s.documents[f]
    BY <1>1, <1>2, <1>6
  <2>2. ASSUME NEW g \in ImportsOf[s.documents[f].text], read[g] # Missing PROVE Edge(m, f, g)
    <3>1. Edge(s, f, g)
      BY <2>1, <2>2, OthersAreImported
    <3>2. g \in Files
      BY <1>2, <2>1, <2>2, DocumentsOf
    <3> QED
      BY <1>5, <2>1, <3>1, <3>2
  <2> QED
    BY <2>1, <2>2 DEF Imported
<1>7. PICK q : q = refreshImports(m, uri)
  OBVIOUS
<1>8. Settled(q, read, late) /\ Refreshed(m, uri, q) /\ q.openDocuments = m.openDocuments
  BY <1>1, <1>4, <1>6, <1>7, RefreshSettles
<1>9. /\ \A f \in Loaded(q) : IF f \in Loaded(m) THEN q.documents[f] = m.documents[f]
                              ELSE Fresh(q.documents[f], read) /\ q.documents[f].text = read[f]
      /\ \A h \in Loaded(q) \ {uri} : \A f \in Files : Edge(m, h, f) => Edge(q, h, f)
  BY <1>8 DEF Refreshed
<1>10. Follows(s, q, uri, read)
  <2>1. ASSUME NEW d \in Loaded(q) \ {uri}
        PROVE  IF d \in Loaded(s) THEN q.documents[d] = s.documents[d] ELSE Fresh(q.documents[d], read)
    <3>1. d \in Files
      BY DEF Loaded
    <3> QED
      BY <1>1, <1>9, <3>1
  <2>2. ASSUME NEW h \in Loaded(q) \ {uri}, NEW f \in Files, Edge(s, h, f)
        PROVE  f \in q.imports[h] /\ (f = uri \/ f \in Loaded(q))
    <3>1. h \in Files
      BY DEF Loaded
    <3>2. Edge(q, h, f)
      BY <1>5, <1>9, <2>2, <3>1
    <3> QED
      BY <3>2 DEF Edge
  <2> QED
    BY <2>1, <2>2 DEF Follows
<1>11. uri \in Loaded(q) => Minimal(q.documents[uri]) /\ Sure(q.documents[uri], read, late)
  BY <1>1, <1>9
<1>12. PICK D : D = Dependents(q, uri)
  OBVIOUS
<1>13. Half(q, read, late, D, D)
  BY <1>8, <1>10, <1>11, <1>12, BeginsHalf
<1>14. r = refreshDependents(q, uri)
  BY <1>7 DEF Refreshing
<1>15. Half(r, read, late, D, {}) /\ r.openDocuments = q.openDocuments
  BY <1>12, <1>13, <1>14, DependentsAreDone
<1> QED
  BY <1>8, <1>15, NothingLeft

LEMMA ClearedIsCurrent ==
    ASSUME NEW s, NEW read0, NEW late0, Current(s, read0, late0), DiskTypes, NEW uri \in Files,
           NEW open, open = s.openDocuments \ {uri},
           NEW w, w = Placed(s, uri, NoDocument, open), NEW q, q = clearImports(w, uri),
           NEW read, read = [f \in Files |-> IF f = uri THEN disk[uri] ELSE read0[f]],
           NEW late, Apart(read0, late0, read, late, uri), Appears(s, read0, read, uri),
           s.importers[uri] = {} \/ disk[uri] = Missing,
           NEW r, r = refreshDependents(q, uri)
    PROVE  Current(r, read, late) /\ r.openDocuments = open
<1>1. /\ Linked(s) /\ Timely(s, read0, late0) /\ read0 \in Reads /\ Read(s) = read0
      /\ Loaded(s) \subseteq Files
  BY DEF Current, Settled, Loaded
<1>2. /\ Linked(q) /\ q.openDocuments = open /\ Loaded(q) = Loaded(s) \ {uri}
      /\ \A f \in Files \ {uri} : q.documents[f] = s.documents[f] /\ q.imports[f] = s.imports[f]
  BY <1>1, GoneFacts
<1>3. Read(q) = read /\ read \in Reads
  <2>1. ASSUME NEW f \in Files PROVE Effective(q, f) = IF f = uri THEN disk[uri] ELSE Effective(s, f)
    <3>1. CASE f = uri
      BY <1>2, <3>1 DEF Effective
    <3>2. CASE f # uri
      BY <1>2, <3>2 DEF Effective
    <3> QED
      BY <3>1, <3>2
  <2>2. \A f \in Files : Effective(s, f) = read0[f]
    BY <1>1 DEF Read
  <2>3. Read(q) = read
    BY <2>1, <2>2 DEF Read
  <2> QED
    BY <1>2, <2>3, ReadFacts
<1>4. Timely(q, read, late)
  <2>1. ASSUME NEW f \in Loaded(q) PROVE f \in late \/ q.documents[f].text = read[f]
    <3>1. f \in Loaded(s) /\ f \in Files /\ f # uri /\ q.documents[f] = s.documents[f]
      BY <1>1, <1>2, <2>1
    <3>2. read[f] = read0[f] /\ (f \in late <=> f \in late0)
      BY <3>1 DEF Apart
    <3> QED
      BY <1>1, <3>1, <3>2 DEF Timely
  <2> QED
    BY <2>1 DEF Timely
<1>5. ASSUME NEW f \in Loaded(q) PROVE Imported(q, read, f)
  <2>1. f \in Loaded(s) /\ f \in Files /\ f # uri /\ q.documents[f] = s.documents[f] /\ q.imports[f] = s.imports[f]
    BY <1>1, <1>2, <1>5
  <2>2. ASSUME NEW g \in ImportsOf[s.documents[f].text], read[g] # Missing PROVE Edge(q, f, g)
    <3>1. Edge(s, f, g)
      BY <2>1, <2>2, OthersAreImported
    <3>2. g \in Files
      BY <1>1, <2>1, <2>2, DocumentsOf
    <3>3. g \in s.imports[f] /\ g \in Loaded(s)
      BY <3>1 DEF Edge
    <3>4. g # uri
      <4>1. g = uri => uri \in Files /\ f \in s.importers[uri] /\ read[uri] = disk[uri]
        BY <1>1, <2>1, <3>2, <3>3 DEF Linked
      <4> QED
        BY <2>2, <4>1
    <3> QED
      BY <1>2, <2>1, <3>3, <3>4 DEF Edge
  <2> QED
    BY <2>1, <2>2 DEF Imported
<1>6. Settled(q, read, late)
  BY <1>2, <1>3, <1>4, <1>5 DEF Settled
<1>7. Follows(s, q, uri, read)
  <2>1. \A d \in Loaded(q) \ {uri} : d \in Loaded(s) /\ q.documents[d] = s.documents[d]
    BY <1>1, <1>2
  <2>2. ASSUME NEW h \in Loaded(q) \ {uri}, NEW f \in Files, Edge(s, h, f)
        PROVE  f \in q.imports[h] /\ (f = uri \/ f \in Loaded(q))
    BY <1>1, <1>2, <2>2 DEF Edge
  <2> QED
    BY <2>1, <2>2 DEF Follows
<1>8. uri \notin Loaded(q)
  BY <1>2
<1>9. PICK D : D = Dependents(q, uri)
  OBVIOUS
<1>10. Half(q, read, late, D, D)
  BY <1>6, <1>7, <1>8, <1>9, BeginsHalf
<1>11. Half(r, read, late, D, {}) /\ r.openDocuments = q.openDocuments
  BY <1>9, <1>10, DependentsAreDone
<1> QED
  BY <1>2, <1>11, NothingLeft

-------------------------------------------------------------------------------
\* The notifications.

LEMMA PlacedFacts ==
    ASSUME NEW s, Linked(s), NEW uri \in Files, NEW doc \in Documents, NEW open \in SUBSET Files,
           open \subseteq s.openDocuments \cup {uri}, NEW m, m = Placed(s, uri, doc, open)
    PROVE  Amended(s, m, uri) /\ m.openDocuments = open /\ m.documents[uri] = doc
<1>1. s \in Servers
  BY DEF Linked
<1>2. PICK e : e = [documents |-> [s.documents EXCEPT ![uri] = doc], openDocuments |-> open,
                    imports |-> s.imports, importers |-> s.importers]
  OBVIOUS
<1>3. m = e
  BY <1>2 DEF Placed
<1>4. Linked(e)
  BY <1>2, SetFacts
<1>5. /\ e.documents = [s.documents EXCEPT ![uri] = doc] /\ e.openDocuments = open
      /\ e.imports = s.imports /\ Loaded(s) \ {uri} \subseteq Loaded(e) /\ uri \in Loaded(e)
      /\ \A f \in Files \ {uri} : f \notin Loaded(s) => f \notin Loaded(e)
  BY <1>1, <1>2, ChangedFacts
<1>6. e.documents[uri] = doc /\ \A f \in Files \ {uri} : e.documents[f] = s.documents[f]
  BY <1>1, <1>5, ServerFacts
<1>7. Loaded(e) = Loaded(s) \cup {uri}
  BY <1>5 DEF Loaded
<1> QED
  BY <1>3, <1>4, <1>5, <1>6, <1>7 DEF Amended

LEMMA AmendedReads ==
    ASSUME NEW s, NEW m, NEW uri \in Files, Amended(s, m, uri),
           m.openDocuments \ {uri} = s.openDocuments \ {uri},
           NEW text, uri \in m.openDocuments => m.documents[uri].text = text,
           uri \notin m.openDocuments => disk[uri] = text
    PROVE  Read(m) = [f \in Files |-> IF f = uri THEN text ELSE Read(s)[f]]
<1>1. ASSUME NEW f \in Files PROVE Effective(m, f) = IF f = uri THEN text ELSE Effective(s, f)
  <2>1. CASE f = uri
    BY <2>1 DEF Effective
  <2>2. CASE f # uri
    <3>1. m.documents[f] = s.documents[f] /\ (f \in m.openDocuments <=> f \in s.openDocuments)
      BY <2>2 DEF Amended
    <3> QED
      BY <2>2, <3>1 DEF Effective
  <2> QED
    BY <2>1, <2>2
<1> QED
  BY <1>1 DEF Read

LEMMA UpdateIsCurrent ==
    ASSUME NEW s, NEW read0, NEW late0, Current(s, read0, late0), DiskTypes, NEW uri \in Files,
           NEW text \in Texts, NEW version \in Nat, NEW r, r = updateDocument(s, uri, text, version),
           uri \in Loaded(s) => s.documents[uri].version < version,
           NEW read, read = [f \in Files |-> IF f = uri THEN text ELSE read0[f]],
           NEW late, Apart(read0, late0, read, late, uri), Appears(s, read0, read, uri)
    PROVE  Current(r, read, late) /\ r.openDocuments = s.openDocuments \cup {uri}
<1>1. Linked(s) /\ Read(s) = read0
  BY DEF Current, Settled
<1>2. PICK doc \in Documents : /\ doc.text = text /\ Fresh(doc, read)
                               /\ r = Refreshing(Placed(s, uri, doc, s.openDocuments \cup {uri}), uri)
  <2>1. read = [f \in Files |-> IF f = uri THEN text ELSE Read(s)[f]]
    BY <1>1
  <2>2. s.documents[uri].version \in Nat
    BY <1>1, VersionsAreNumbers
  <2>3. Opening(s, uri, text, version, r)
    BY <1>1, <2>2, UpdateOpens
  <2> QED
    BY <2>1, <2>3 DEF Opening
<1>3. PICK open, m : open = s.openDocuments \cup {uri} /\ m = Placed(s, uri, doc, open)
  OBVIOUS
<1>4. open \in SUBSET Files
  BY <1>1, <1>3, ServerFacts DEF Linked
<1>5. Amended(s, m, uri) /\ m.openDocuments = open /\ m.documents[uri] = doc
  BY <1>1, <1>3, <1>4, PlacedFacts
<1>6. Read(m) = read
  <2>1. /\ m.openDocuments \ {uri} = s.openDocuments \ {uri}
        /\ uri \in m.openDocuments /\ m.documents[uri].text = text
    BY <1>2, <1>3, <1>5
  <2>2. Read(m) = [f \in Files |-> IF f = uri THEN text ELSE Read(s)[f]]
    BY <1>5, <2>1, AmendedReads
  <2> QED
    BY <1>1, <2>2
<1>7. read \in Reads
  BY <1>5, <1>6, ReadFacts DEF Amended
<1>8. Minimal(doc) /\ Sure(doc, read, late)
  BY <1>2, <1>7, FreshFacts
<1>9. m.documents[uri].text = read[uri]
  BY <1>2, <1>5
<1>10. r = Refreshing(m, uri)
  BY <1>2, <1>3
<1>11. Current(r, read, late) /\ r.openDocuments = m.openDocuments
  <2>1. Minimal(m.documents[uri]) /\ Sure(m.documents[uri], read, late)
    BY <1>5, <1>8
  <2>2. Amended(s, m, uri) /\ read = Read(m)
    BY <1>5, <1>6
  <2> QED
    BY <1>9, <1>10, <2>1, <2>2, AmendedIsCurrent
<1> QED
  BY <1>3, <1>5, <1>11

\* A document that is not open goes back to the text on the disk.
LEMMA ReadIsCurrent ==
    ASSUME NEW s, NEW read0, NEW late0, Current(s, read0, late0), DiskTypes, NEW uri \in Files,
           NEW open, open = s.openDocuments \ {uri}, NEW doc \in Documents, doc.text = disk[uri],
           NEW read, read = [f \in Files |-> IF f = uri THEN disk[uri] ELSE read0[f]], Fresh(doc, read),
           NEW r, r = pruneUnreachableDocuments(Refreshing(Placed(s, uri, doc, open), uri)),
           NEW late, Apart(read0, late0, read, late, uri), Appears(s, read0, read, uri)
    PROVE  Current(r, read, late) /\ r.openDocuments = open
<1>1. Linked(s) /\ Read(s) = read0
  BY DEF Current, Settled
<1>2. PICK m, q : m = Placed(s, uri, doc, open) /\ q = Refreshing(m, uri)
  OBVIOUS
<1>3. open \in SUBSET Files /\ open \subseteq s.openDocuments \cup {uri}
  BY <1>1, ServerFacts DEF Linked
<1>4. Amended(s, m, uri) /\ m.openDocuments = open /\ m.documents[uri] = doc
  BY <1>1, <1>2, <1>3, PlacedFacts
<1>5. Read(m) = read
  <2>1. m.openDocuments \ {uri} = s.openDocuments \ {uri} /\ uri \notin m.openDocuments
    BY <1>4
  <2> QED
    BY <1>1, <1>4, <2>1, AmendedReads
<1>6. read \in Reads
  BY <1>4, <1>5, ReadFacts DEF Amended
<1>7. Minimal(doc) /\ Sure(doc, read, late)
  <2>1. doc.text \in Texts
    BY DEF Documents
  <2> QED
    BY <1>6, <2>1, FreshFacts
<1>8. m.documents[uri].text = read[uri]
  BY <1>4
<1>9. Current(q, read, late) /\ q.openDocuments = m.openDocuments
  BY <1>2, <1>4, <1>5, <1>7, <1>8, AmendedIsCurrent
<1> QED
  BY <1>2, <1>4, <1>9, PruneIsCurrent

LEMMA CloseIsCurrent ==
    ASSUME NEW s, NEW read0, NEW late0, Current(s, read0, late0), DiskTypes, NEW uri \in s.openDocuments,
           NEW r, r = closeDocument(s, uri), uri \in Files,
           NEW read, read = [f \in Files |-> IF f = uri THEN disk[uri] ELSE read0[f]],
           NEW late, Apart(read0, late0, read, late, uri)
    PROVE  Current(r, read, late) /\ r.openDocuments = s.openDocuments \ {uri}
<1>1. Linked(s) /\ Read(s) = read0
  BY DEF Current, Settled
<1>2. Appears(s, read0, read, uri)
  <2>1. uri \in Loaded(s)
    BY <1>1 DEF Linked
  <2>2. s.documents[uri].text # Missing
    BY <1>1, <2>1, DocumentsOf, TextFacts
  <2>3. read0[uri] = s.documents[uri].text
    BY <1>1 DEF Read, Effective
  <2> QED
    BY <2>2, <2>3 DEF Appears
<1>3. PICK open : open = s.openDocuments \ {uri}
  OBVIOUS
<1>4. ASSUME NEW doc \in Documents, doc.text = disk[uri], Fresh(doc, read),
             r = pruneUnreachableDocuments(Refreshing(Placed(s, uri, doc, open), uri))
      PROVE  Current(r, read, late) /\ r.openDocuments = open
  BY <1>2, <1>3, <1>4, ReadIsCurrent
<1>5. ASSUME s.importers[uri] = {} \/ disk[uri] = Missing,
             r = pruneUnreachableDocuments(refreshDependents(
                    clearImports(Placed(s, uri, NoDocument, open), uri), uri))
      PROVE  Current(r, read, late) /\ r.openDocuments = open
  <2>1. PICK w, q, d : /\ w = Placed(s, uri, NoDocument, open) /\ q = clearImports(w, uri)
                       /\ d = refreshDependents(q, uri)
    OBVIOUS
  <2>2. Current(d, read, late) /\ d.openDocuments = open
    BY <1>2, <1>3, <1>5, <2>1, ClearedIsCurrent
  <2> QED
    BY <1>5, <2>1, <2>2, PruneIsCurrent
<1> QED
  BY <1>1, <1>3, <1>4, <1>5, CloseReads

\* A notification about a file that is not loaded changes nothing.
LEMMA OtherIsCurrent ==
    ASSUME NEW s, NEW read, NEW late0, Current(s, read, late0), NEW uri \in Files, uri \notin Loaded(s),
           NEW late, Apart(read, late0, read, late, uri)
    PROVE  Current(s, read, late)
<1>1. /\ Linked(s) /\ Timely(s, read, late0) /\ read \in Reads /\ Loaded(s) \subseteq Files
      /\ \A f \in Loaded(s) : Imported(s, read, f)
  BY DEF Current, Settled, Loaded
<1>2. Settled(s, read, late)
  <2>1. Timely(s, read, late)
    BY <1>1 DEF Timely, Apart
  <2> QED
    BY <1>1, <2>1 DEF Current, Settled
<1>3. ASSUME NEW d \in Loaded(s) PROVE Backed(s, d, read, late)
  <2>1. PICK doc, text, inputs : doc = s.documents[d] /\ text = doc.text /\ inputs = doc.inputs
    OBVIOUS
  <2>2. PICK K, K0 : K = Known(text, read, late) /\ K0 = Known(text, read, late0)
    OBVIOUS
  <2>3. text \in Contents /\ ImportsOf[text] \in SUBSET Files
    BY <1>1, <2>1, DocumentsOf
  <2>4. /\ K \in SUBSET Files /\ ImportsOf[text] \subseteq K
        /\ \A f \in K : f \notin late => ImportsOf[read[f]] \subseteq K
        /\ \A f \in K : f \in ImportsOf[text] \/ \E h \in K : h \notin late /\ f \in ImportsOf[read[h]]
    BY <1>1, <2>2, <2>3, KnownFacts
  <2>5. /\ ImportsOf[text] \subseteq K0
        /\ \A f \in K0 : f \notin late0 => ImportsOf[read[f]] \subseteq K0
    BY <1>1, <2>2, <2>3, KnownFacts
  <2>6. uri \in K => read[uri] = Missing
    BY <1>2, <2>1, <2>2, KnownAreLoaded
  <2>7. \A f \in Files \ {uri} : f \in late <=> f \in late0
    BY DEF Apart
  <2>8. K \subseteq K0
    <3>1. ASSUME NEW f \in K0 \cap K, f \notin late PROVE ImportsOf[read[f]] \subseteq K0
      <4>1. CASE f = uri
        BY <2>6, <3>1, <4>1, DocumentsAssumption
      <4>2. CASE f # uri
        BY <2>4, <2>5, <2>7, <3>1, <4>2
      <4> QED
        BY <4>1, <4>2
    <3> QED
      BY <1>1, <2>2, <2>3, <2>5, <3>1, KnownIsLeast
  <2>9. /\ \A f \in K0 : f \in DOMAIN inputs /\ (f \in late0 \/ inputs[f] = read[f])
        /\ \A f \in ImportsOf[text] : Edge(s, d, f) \/ inputs[f] = read[f]
        /\ \A h \in K0 : h \notin late0 => \A f \in ImportsOf[read[h]] : Edge(s, h, f) \/ inputs[f] = read[f]
    BY <2>1, <2>2 DEF Current, Backed, Knows
  <2>10. ASSUME NEW h \in K, h \notin late, NEW f \in ImportsOf[read[h]] PROVE h \in K0 /\ h \notin late0
    <3>1. h # uri
      BY <2>6, <2>10, DocumentsAssumption
    <3> QED
      BY <2>4, <2>7, <2>8, <2>10, <3>1
  <2>11. uri \in K => inputs[uri] = read[uri]
    BY <2>4, <2>9, <2>10 DEF Edge
  <2>12. Knows(doc, read, late)
    <3>1. ASSUME NEW f \in K PROVE f \in DOMAIN inputs /\ (f \in late \/ inputs[f] = read[f])
      BY <2>4, <2>7, <2>8, <2>9, <2>11, <3>1
    <3> QED
      BY <2>1, <2>2, <3>1 DEF Knows
  <2> QED
    BY <2>1, <2>2, <2>9, <2>10, <2>12 DEF Backed
<1> QED
  BY <1>2, <1>3 DEF Current

LEMMA ReloadIsCurrent ==
    ASSUME NEW s, NEW read, NEW late0, Current(s, read, late0), DiskTypes, NEW uri \in Files,
           NEW r, r = reloadDocument(s, uri), NEW late, Apart(read, late0, read, late, uri),
           uri \in s.openDocuments =>
              \A f \in late : f \in DOMAIN s.documents[uri].inputs => read[f] # Missing,
           uri \in s.openDocuments => (uri \in late <=> uri \in late0)
    PROVE  Current(r, read, late) /\ r.openDocuments = s.openDocuments
<1>1. Linked(s) /\ Read(s) = read /\ read \in Reads /\ Timely(s, read, late0)
  BY DEF Current, Settled
<1>2. Appears(s, read, read, uri)
  BY DEF Appears
<1>3. CASE uri \in s.openDocuments
  <2>1. uri \in Loaded(s)
    BY <1>1, <1>3 DEF Linked
  <2>2. PICK doc : doc = s.documents[uri]
    OBVIOUS
  <2>3. Follow(read, late) = Follow(read, late0)
    <3>1. \A f \in Files : f \in late <=> f \in late0
      BY <1>3 DEF Apart
    <3> QED
      BY <3>1 DEF Follow
  <2>4. PICK K : K = Known(doc.text, read, late) /\ K = Known(doc.text, read, late0)
    BY <2>3 DEF Known
  <2>5. K \in SUBSET Files
    <3>1. doc.text \in Contents
      BY <1>1, <2>1, <2>2, DocumentsOf
    <3> QED
      BY <1>1, <2>4, <3>1, KnownFacts
  <2>6. ASSUME NEW f \in K
        PROVE  f \in DOMAIN doc.inputs /\ (f \in late \/ doc.inputs[f] = read[f])
    <3>1. f \in DOMAIN doc.inputs /\ (f \in late0 \/ doc.inputs[f] = read[f])
      BY <2>1, <2>2, <2>4 DEF Current, Backed, Knows
    <3>2. f \in late <=> f \in late0
      BY <1>3, <2>5 DEF Apart
    <3> QED
      BY <3>1, <3>2
  <2>7. Sure(doc, read, late)
    <3>1. ASSUME NEW f \in K, read[f] = Missing PROVE doc.inputs[f] = Missing
      BY <1>3, <2>2, <2>6, <3>1
    <3> QED
      BY <2>4, <2>6, <3>1 DEF Sure, Knows
  <2>8. Minimal(doc)
    BY <2>1, <2>2 DEF Current
  <2>9. Amended(s, s, uri)
    BY <1>1, <2>1 DEF Amended
  <2>10. doc.text = read[uri]
    BY <1>1, <1>3, <2>2 DEF Read, Effective
  <2>11. r = Refreshing(s, uri)
    BY <1>3 DEF reloadDocument, Refreshing
  <2> QED
    BY <1>1, <1>2, <2>2, <2>7, <2>8, <2>9, <2>10, <2>11, AmendedIsCurrent
<1>4. PICK open : open = s.openDocuments \ {uri}
  OBVIOUS
<1>5. ASSUME uri \notin s.openDocuments
      PROVE  /\ open = s.openDocuments /\ read[uri] = disk[uri]
             /\ read = [f \in Files |-> IF f = uri THEN disk[uri] ELSE read[f]]
  <2>1. read[uri] = disk[uri]
    BY <1>1, <1>5 DEF Read, Effective
  <2>2. read = [f \in Files |-> read[f]]
    BY <1>1 DEF Reads
  <2> QED
    BY <1>4, <1>5, <2>1, <2>2
<1>6. CASE uri \notin s.openDocuments /\ uri \notin Loaded(s)
  <2>1. r = s
    BY <1>6 DEF reloadDocument
  <2> QED
    BY <1>6, <2>1, OtherIsCurrent
<1>7. CASE uri \notin s.openDocuments /\ uri \in Loaded(s) /\ disk[uri] # Missing
  <2>1. PICK doc \in Documents :
          /\ doc.text = disk[uri] /\ Fresh(doc, Read(s))
          /\ r = pruneUnreachableDocuments(Refreshing(Placed(s, uri, doc, s.openDocuments), uri))
    BY <1>1, <1>7, ReloadReads
  <2>2. Fresh(doc, read) /\ r = pruneUnreachableDocuments(Refreshing(Placed(s, uri, doc, open), uri))
    BY <1>1, <1>5, <1>7, <2>1
  <2>3. Current(r, read, late) /\ r.openDocuments = open
    BY <1>2, <1>4, <1>5, <1>7, <2>1, <2>2, ReadIsCurrent
  <2> QED
    BY <1>5, <1>7, <2>3
<1>8. CASE uri \notin s.openDocuments /\ uri \in Loaded(s) /\ disk[uri] = Missing
  <2>1. PICK w, q, d : /\ w = Placed(s, uri, NoDocument, open) /\ q = clearImports(w, uri)
                       /\ d = refreshDependents(q, uri)
    OBVIOUS
  <2>2. r = pruneUnreachableDocuments(d)
    BY <1>1, <1>4, <1>8, <2>1, ReloadClears
  <2>3. Current(d, read, late) /\ d.openDocuments = open
    BY <1>2, <1>4, <1>5, <1>8, <2>1, ClearedIsCurrent
  <2>4. Current(r, read, late) /\ r.openDocuments = open
    BY <2>2, <2>3, PruneIsCurrent
  <2> QED
    BY <1>5, <1>8, <2>4
<1> QED
  BY <1>3, <1>6, <1>7, <1>8

\* A file changes, and its notification is to come.
LEMMA ChangeFacts ==
    ASSUME NEW s, NEW read0, NEW late0, Current(s, read0, late0), NEW uri \in Files,
           NEW read \in Reads, NEW late, uri \in late, Apart(read0, late0, read, late, uri),
           Appears(s, read0, read, uri)
    PROVE  /\ Timely(s, read, late) /\ \A f \in Loaded(s) : Imported(s, read, f)
           /\ \A d \in Loaded(s) : Minimal(s.documents[d]) /\ Backed(s, d, read, late)
<1>1. /\ Settled(s, read0, late0) /\ Linked(s) /\ Timely(s, read0, late0) /\ read0 \in Reads
      /\ \A f \in Loaded(s) : f \in Files /\ Imported(s, read0, f)
  BY DEF Current, Settled, Loaded
<1>2. \A f \in Files \ {uri} : read[f] = read0[f] /\ (f \in late <=> f \in late0)
  BY DEF Apart
<1>3. Timely(s, read, late)
  BY <1>1, <1>2 DEF Timely
<1>4. ASSUME NEW f \in Loaded(s) PROVE Imported(s, read, f)
  BY <1>4, OthersAreImported DEF Imported
<1>5. ASSUME NEW d \in Loaded(s) PROVE Backed(s, d, read, late)
  <2>1. PICK doc, text, inputs : doc = s.documents[d] /\ text = doc.text /\ inputs = doc.inputs
    OBVIOUS
  <2>2. PICK K, K0 : K = Known(text, read, late) /\ K0 = Known(text, read0, late0)
    OBVIOUS
  <2>3. text \in Contents /\ ImportsOf[text] \in SUBSET Files
    BY <1>1, <2>1, DocumentsOf
  <2>4. /\ K \in SUBSET Files /\ ImportsOf[text] \subseteq K
        /\ \A f \in K : f \notin late => ImportsOf[read[f]] \subseteq K
    BY <2>2, <2>3, KnownFacts
  <2>5. /\ ImportsOf[text] \subseteq K0
        /\ \A f \in K0 : f \notin late0 => ImportsOf[read0[f]] \subseteq K0
    BY <1>1, <2>2, <2>3, KnownFacts
  <2>6. ASSUME NEW h \in K, h \notin late
        PROVE  h # uri /\ h \notin late0 /\ read0[h] = read[h]
    BY <1>2, <2>4, <2>6
  <2>7. K \subseteq K0
    <3>1. \A f \in K0 \cap K : f \notin late => ImportsOf[read[f]] \subseteq K0
      BY <2>5, <2>6
    <3> QED
      BY <2>2, <2>3, <2>5, <3>1, KnownIsLeast
  <2>8. /\ \A f \in K0 : f \in DOMAIN inputs /\ (f \in late0 \/ inputs[f] = read0[f])
        /\ \A f \in ImportsOf[text] : Edge(s, d, f) \/ inputs[f] = read0[f]
        /\ \A h \in K0 : h \notin late0 => \A f \in ImportsOf[read0[h]] : Edge(s, h, f) \/ inputs[f] = read0[f]
    BY <2>1, <2>2 DEF Current, Backed, Knows
  <2>9. Knows(doc, read, late)
    <3>1. ASSUME NEW f \in K PROVE f \in DOMAIN inputs /\ (f \in late \/ inputs[f] = read[f])
      BY <1>2, <2>4, <2>7, <2>8
    <3> QED
      BY <2>1, <2>2, <3>1 DEF Knows
  <2>10. uri \in K0 /\ read0[uri] = Missing => read[uri] = Missing
    BY <2>1, <2>8 DEF Appears
  <2>11. ASSUME NEW f \in ImportsOf[text] PROVE Edge(s, d, f) \/ inputs[f] = read[f]
    <3>1. read0[f] # Missing => Edge(s, d, f)
      BY <1>1, <2>1, <2>11 DEF Imported
    <3>2. f \in Files /\ f \in K0 /\ (Edge(s, d, f) \/ inputs[f] = read0[f])
      BY <2>3, <2>5, <2>8, <2>11
    <3> QED
      BY <1>2, <2>10, <3>1, <3>2
  <2>12. ASSUME NEW h \in K, h \notin late, NEW f \in ImportsOf[read[h]]
         PROVE  Edge(s, h, f) \/ inputs[f] = read[f]
    <3>1. h \in K0 /\ h \notin late0 /\ f \in ImportsOf[read0[h]]
      BY <2>6, <2>7, <2>12
    <3>2. f \in Files /\ (read0[f] # Missing => Edge(s, h, f))
      BY <1>1, <2>1, <2>2, <3>1, KnownHaveEdges
    <3>3. f \in K0 /\ (Edge(s, h, f) \/ inputs[f] = read0[f])
      BY <2>5, <2>8, <3>1
    <3> QED
      BY <1>2, <2>10, <3>2, <3>3
  <2> QED
    BY <2>1, <2>2, <2>9, <2>11, <2>12 DEF Backed
<1> QED
  BY <1>3, <1>4, <1>5 DEF Current

-------------------------------------------------------------------------------
\* An open document has the version of its buffer: when no opening is ignored, no
\* change is.
Numbered ==
    \A f \in Files :
        /\ editor[f] = Closed <=> f \notin server.openDocuments
        /\ editor[f] # Closed => server.documents[f].version = editor[f].version

\* A notification is above the version that is loaded.
LEMMA NoneIsIgnored ==
    ASSUME ~IgnoredOpens, GraphInv, Numbered, NEW f \in Files, NEW t \in TextsOf[f],
           DidOpen(f, t) \/ DidChange(f, t),
           NEW v, v = IF editor[f] = Closed THEN 1 ELSE editor[f].version + 1
    PROVE  server.documents[f].version < v
<1>1. CASE DidOpen(f, t)
  BY <1>1 DEF DidOpen
<1>2. CASE DidChange(f, t)
  <2>1. editor[f] # Closed
    BY <1>2 DEF DidChange
  <2>2. editor[f].version \in Nat /\ server.documents[f].version = editor[f].version
    BY <2>1 DEF GraphInv, Numbered
  <2> QED
    BY <2>1, <2>2
<1> QED
  BY <1>1, <1>2

LEMMA NumberedStep ==
    ASSUME ~IgnoredOpens
    PROVE  GraphInv /\ Numbered /\ [Next]_vars => Numbered'
<1> SUFFICES ASSUME GraphInv, Numbered, [Next]_vars PROVE Numbered'
  OBVIOUS
<1>1. /\ editor = [f \in Files |-> editor[f]] /\ DiskTypes /\ Linked(server) /\ Rooted(server)
      /\ \A f \in Files : editor[f] = Closed \/ editor[f].version \in Nat
      /\ server.openDocuments \in SUBSET Files
      /\ \A f \in Files : server.documents[f].version \in Nat
  BY VersionsAreNumbers, ServerFacts DEF GraphInv, Linked
<1>2. ASSUME NEW f \in Files, NEW t \in TextsOf[f], DidOpen(f, t) \/ DidChange(f, t)
      PROVE  Numbered'
  <2>1. PICK v \in Nat : /\ editor' = [editor EXCEPT ![f] = [text |-> t, version |-> v]]
                         /\ server' = updateDocument(server, f, t, v)
                         /\ v = IF editor[f] = Closed THEN 1 ELSE editor[f].version + 1
    BY <1>1, <1>2, EditsAreNumbered
  <2>2. t \in Texts /\ t # Missing
    BY TextFacts
  <2>3. server.documents[f].version < v
    BY <1>2, <2>1, NoneIsIgnored
  <2>4. /\ server'.openDocuments = server.openDocuments \cup {f}
        /\ \A g \in server'.openDocuments :
              server'.documents[g].version = IF g = f THEN v ELSE server.documents[g].version
    <3>1. PICK s, r : s = server /\ r = server'
      OBVIOUS
    <3>2. /\ Linked(s) /\ Rooted(s) /\ r = updateDocument(s, f, t, v) /\ DiskTypes
          /\ s.documents[f].version < v
      BY <1>1, <2>1, <2>3, <3>1
    <3>3. /\ r.openDocuments = s.openDocuments \cup {f}
          /\ \A g \in r.openDocuments :
                r.documents[g].version = IF g = f THEN v ELSE s.documents[g].version
      BY <2>2, <3>2, UpdateFacts
    <3> QED
      BY <3>1, <3>3
  <2>5. \A g \in Files : editor'[g] = IF g = f THEN [text |-> t, version |-> v] ELSE editor[g]
    BY <1>1, <2>1
  <2>6. editor'[f] # Closed
    BY <2>2, <2>5 DEF Closed
  <2> QED
    BY <2>4, <2>5, <2>6 DEF Numbered
<1>3. ASSUME NEW f \in Files, DidClose(f)
      PROVE  Numbered'
  <2>1. editor' = [editor EXCEPT ![f] = Closed] /\ server' = closeDocument(server, f)
    BY <1>3 DEF DidClose
  <2>2. server'.openDocuments = server.openDocuments \ {f} /\ KeepsVersions(server, server', {})
    BY <1>1, <2>1, CloseFacts
  <2>3. \A g \in Files : editor'[g] = IF g = f THEN Closed ELSE editor[g]
    BY <1>1, <2>1
  <2> QED
    BY <2>2, <2>3 DEF Numbered, KeepsVersions
<1>4. ASSUME NEW f \in Files, DidSave(f) \/ DidChangeWatchedFiles(f)
      PROVE  Numbered'
  <2>1. editor' = editor /\ server' = reloadDocument(server, f)
    BY <1>4 DEF DidSave, DidChangeWatchedFiles
  <2>2. server'.openDocuments = server.openDocuments /\ KeepsVersions(server, server', {})
    BY <1>1, <2>1, ReloadFacts
  <2> QED
    BY <2>1, <2>2 DEF Numbered, KeepsVersions
<1>5. ASSUME NEW f \in Files,
             WriteBuffer(f) \/ \E t \in TextsOf[f] \cup {Missing} : FileChanges(f, t)
      PROVE  Numbered'
  BY <1>5 DEF WriteBuffer, FileChanges, Numbered
<1>6. CASE UNCHANGED vars
  BY <1>6 DEF vars, Numbered
<1> QED
  BY <1>2, <1>3, <1>4, <1>5, <1>6 DEF Next

-------------------------------------------------------------------------------
Late == pending \ server.openDocuments

\* An open document has the text of its buffer.
Buffered ==
    \A f \in Files :
        /\ editor[f] = Closed <=> f \notin server.openDocuments
        /\ editor[f] # Closed => server.documents[f].text = editor[f].text

CurrentInv == GraphInv /\ Numbered /\ Buffered /\ Current(server, Read(server), Late)

\* A handler runs while the files stay as they are.
LEMMA HandledIsCurrent ==
    ASSUME NEW r, NEW read, NEW late, Current(r, read, late), disk' = disk, server' = r, Late' = late
    PROVE  Current(server, Read(server), Late)'
<1>1. Read(r)' = Read(r)
  BY DEF Read, Effective
<1>2. Read(r) = read
  BY DEF Current, Settled
<1>3. Current(r, read, late)'
  BY <1>1 DEF Current, Settled
<1>4. Read(server)' = read
  BY <1>1, <1>2
<1> QED
  BY <1>3, <1>4

LEMMA BuffersFollow ==
    ASSUME NEW r, NEW read, NEW late, Current(r, read, late),
           NEW f \in Files, f \in r.openDocuments
    PROVE  r.documents[f].text = read[f]
  BY DEF Current, Settled, Read, Effective

LEMMA InitCurrentInv == Init => CurrentInv
<1> SUFFICES ASSUME Init PROVE CurrentInv
  OBVIOUS
<1>1. GraphInv
  BY InitGraphInv
<1>2. /\ server.openDocuments = {} /\ server.documents = [f \in Files |-> NoDocument]
      /\ editor = [f \in Files |-> Closed]
  BY DEF Init
<1>3. Loaded(server) = {}
  BY <1>2 DEF Loaded
<1>4. Linked(server) /\ DiskTypes
  BY <1>1 DEF GraphInv
<1>5. Read(server) \in Reads
  BY <1>4, ReadFacts
<1>6. Current(server, Read(server), Late)
  BY <1>3, <1>4, <1>5 DEF Current, Settled, Timely
<1> QED
  BY <1>1, <1>2, <1>6 DEF CurrentInv, Numbered, Buffered

LEMMA CurrentInvStep ==
    ASSUME ~Creations, ~Races, ~IgnoredOpens
    PROVE  CurrentInv /\ [Next]_vars => CurrentInv'
<1> SUFFICES ASSUME CurrentInv, [Next]_vars PROVE CurrentInv'
  OBVIOUS
<1>1. GraphInv /\ GraphInv' /\ Numbered /\ Numbered' /\ Buffered /\ Current(server, Read(server), Late)
  BY GraphInvStep, NumberedStep DEF CurrentInv
<1>2. PICK s, read0, late0 : s = server /\ read0 = Read(server) /\ late0 = Late
  OBVIOUS
<1>3. Current(s, read0, late0) /\ Linked(s) /\ read0 \in Reads /\ DiskTypes /\ s.openDocuments \in SUBSET Files
  <2>1. Linked(s) /\ DiskTypes
    BY <1>1, <1>2 DEF GraphInv
  <2> QED
    BY <1>1, <1>2, <2>1, ServerFacts DEF Current, Settled, Linked
<1>4. late0 = pending \ s.openDocuments /\ \A f \in Files : read0[f] = Effective(server, f)
  BY <1>2 DEF Late, Read
<1>5. \A f \in Files : /\ editor[f] = Closed <=> f \notin s.openDocuments
                       /\ editor[f] # Closed => read0[f] = editor[f].text /\ editor[f].text \in TextsOf[f]
                       /\ editor[f] # Closed => editor[f].text # Missing
  <2>1. \A f \in Files : /\ editor[f] = Closed <=> f \notin server.openDocuments
                         /\ editor[f] # Closed => server.documents[f].text = editor[f].text
    BY <1>1 DEF Buffered
  <2>2. \A f \in Files : editor[f] = Closed \/ editor[f].text \in TextsOf[f]
    BY <1>1 DEF GraphInv
  <2> QED
    BY <1>2, <1>4, <2>1, <2>2, DocumentsAssumption DEF Effective
<1>6. editor = [f \in Files |-> editor[f]]
  BY <1>1 DEF GraphInv
<1>7. ASSUME NEW f \in Files, NEW t \in TextsOf[f], DidOpen(f, t) \/ DidChange(f, t)
      PROVE  CurrentInv'
  <2>1. PICK v \in Nat : /\ editor' = [editor EXCEPT ![f] = [text |-> t, version |-> v]]
                         /\ server' = updateDocument(server, f, t, v)
                         /\ disk' = disk /\ pending' = pending
                         /\ v = IF editor[f] = Closed THEN 1 ELSE editor[f].version + 1
    <3>1. editor[f] = Closed \/ editor[f].version \in Nat
      BY <1>1 DEF GraphInv
    <3> QED
      BY <1>7, <3>1, EditsAreNumbered
  <2>2. server.documents[f].version < v
    BY <1>1, <1>7, <2>1, NoneIsIgnored
  <2>3. t \in Texts /\ t # Missing
    BY TextFacts
  <2>4. PICK r, read, late : /\ r = server' /\ late = late0 \ {f}
                             /\ read = [g \in Files |-> IF g = f THEN t ELSE read0[g]]
    OBVIOUS
  <2>5. Apart(read0, late0, read, late, f)
    BY <2>4 DEF Apart
  <2>6. Appears(s, read0, read, f)
    <3>1. CASE DidOpen(f, t)
      BY <1>2, <1>4, <3>1 DEF DidOpen, MayAppear, Appears
    <3>2. CASE DidChange(f, t)
      <4>1. read0[f] # Missing
        BY <1>5, <3>2 DEF DidChange
      <4> QED
        BY <4>1 DEF Appears
    <3> QED
      BY <1>7, <3>1, <3>2
  <2>7. r = updateDocument(s, f, t, v) /\ s.documents[f].version < v
    BY <1>2, <2>1, <2>2, <2>4
  <2>8. Current(r, read, late) /\ r.openDocuments = s.openDocuments \cup {f}
    BY <1>3, <2>3, <2>4, <2>5, <2>6, <2>7, UpdateIsCurrent
  <2>9. Late' = late
    BY <1>4, <2>1, <2>4, <2>8 DEF Late
  <2>10. Current(server, Read(server), Late)'
    BY <2>1, <2>4, <2>8, <2>9, HandledIsCurrent
  <2>11. \A g \in Files : g \in r.openDocuments => r.documents[g].text = read[g]
    BY <2>8, BuffersFollow
  <2>12. \A g \in Files : editor'[g] = IF g = f THEN [text |-> t, version |-> v] ELSE editor[g]
    BY <1>6, <2>1
  <2>13. editor'[f] # Closed /\ editor'[f].text = t
    BY <2>3, <2>12 DEF Closed
  <2>14. Buffered'
    <3>1. ASSUME NEW g \in Files
          PROVE  /\ editor'[g] = Closed <=> g \notin r.openDocuments
                 /\ editor'[g] # Closed => r.documents[g].text = editor'[g].text
      <4>1. CASE g = f
        BY <2>4, <2>8, <2>11, <2>13, <4>1
      <4>2. CASE g # f
        BY <1>5, <2>4, <2>8, <2>11, <2>12, <4>2
      <4> QED
        BY <4>1, <4>2
    <3> QED
      BY <2>4, <3>1 DEF Buffered
  <2> QED
    BY <1>1, <2>10, <2>14 DEF CurrentInv
<1>8. ASSUME NEW f \in Files, DidClose(f)
      PROVE  CurrentInv'
  <2>1. /\ disk' = disk /\ pending' = pending /\ editor' = [editor EXCEPT ![f] = Closed]
        /\ server' = closeDocument(server, f) /\ editor[f] # Closed
    BY <1>8 DEF DidClose
  <2>2. PICK r, read, late : /\ r = server' /\ late = pending \ (s.openDocuments \ {f})
                             /\ read = [g \in Files |-> IF g = f THEN disk[f] ELSE read0[g]]
    OBVIOUS
  <2>3. Apart(read0, late0, read, late, f)
    BY <1>4, <2>2 DEF Apart
  <2>4. r = closeDocument(s, f) /\ f \in s.openDocuments
    BY <1>2, <1>5, <2>1, <2>2
  <2>5. Current(r, read, late) /\ r.openDocuments = s.openDocuments \ {f}
    BY <1>3, <2>2, <2>3, <2>4, CloseIsCurrent
  <2>6. Late' = late
    BY <2>1, <2>2, <2>5 DEF Late
  <2>7. Current(server, Read(server), Late)'
    BY <2>1, <2>2, <2>5, <2>6, HandledIsCurrent
  <2>8. \A g \in Files : g \in r.openDocuments => r.documents[g].text = read[g]
    BY <2>5, BuffersFollow
  <2>9. \A g \in Files : editor'[g] = IF g = f THEN Closed ELSE editor[g]
    BY <1>6, <2>1
  <2>10. Buffered'
    <3>1. ASSUME NEW g \in Files
          PROVE  /\ editor'[g] = Closed <=> g \notin r.openDocuments
                 /\ editor'[g] # Closed => r.documents[g].text = editor'[g].text
      BY <1>5, <2>2, <2>5, <2>8, <2>9
    <3> QED
      BY <2>2, <3>1 DEF Buffered
  <2> QED
    BY <1>1, <2>7, <2>10 DEF CurrentInv
<1>9. ASSUME NEW f \in Files, DidSave(f) \/ DidChangeWatchedFiles(f)
      PROVE  CurrentInv'
  <2>1. /\ disk' = disk /\ editor' = editor /\ server' = reloadDocument(server, f) /\ MayReload(f)
        /\ pending' = pending \/ pending' = pending \ {f}
        /\ f \in s.openDocuments \/ pending' = pending \ {f}
    <3>1. CASE DidSave(f)
      BY <1>5, <3>1 DEF DidSave
    <3>2. CASE DidChangeWatchedFiles(f)
      BY <3>2 DEF DidChangeWatchedFiles
    <3> QED
      BY <1>9, <3>1, <3>2
  <2>2. PICK r, late : r = server' /\ late = pending' \ s.openDocuments
    OBVIOUS
  <2>3. Apart(read0, late0, read0, late, f) /\ (f \in s.openDocuments => (f \in late <=> f \in late0))
    BY <1>4, <2>1, <2>2 DEF Apart
  <2>4. ASSUME f \in s.openDocuments, NEW g \in late, g \in DOMAIN s.documents[f].inputs
        PROVE  read0[g] # Missing
    <3>1. g \in Files
      <4>1. f \in Loaded(s)
        BY <1>3, <2>4 DEF Linked
      <4>2. s.documents[f] \in Documents
        BY <1>3, <4>1, DocumentsOf
      <4>3. s.documents[f].inputs \in Closures
        BY <4>2 DEF Documents
      <4> QED
        BY <2>4, <4>3 DEF Closures
    <3>2. g \in pending /\ g \notin s.openDocuments
      BY <2>1, <2>2
    <3>3. disk[g] # Missing
      BY <1>2, <2>1, <2>4, <3>2 DEF MayReload
    <3> QED
      BY <1>2, <1>4, <3>1, <3>2, <3>3 DEF Effective
  <2>5. r = reloadDocument(s, f)
    BY <1>2, <2>1, <2>2
  <2>6. Current(r, read0, late) /\ r.openDocuments = s.openDocuments
    BY <1>3, <2>3, <2>4, <2>5, ReloadIsCurrent
  <2>7. Late' = late
    BY <2>2, <2>6 DEF Late
  <2>8. Current(server, Read(server), Late)'
    BY <2>1, <2>2, <2>6, <2>7, HandledIsCurrent
  <2>9. \A g \in Files : g \in r.openDocuments => r.documents[g].text = read0[g]
    BY <2>6, BuffersFollow
  <2>10. Buffered'
    BY <1>5, <2>1, <2>2, <2>6, <2>9 DEF Buffered
  <2> QED
    BY <1>1, <2>8, <2>10 DEF CurrentInv
<1>10. ASSUME NEW f \in Files,
              WriteBuffer(f) \/ \E t \in TextsOf[f] \cup {Missing} : FileChanges(f, t)
       PROVE  CurrentInv'
  <2>1. /\ editor' = editor /\ server' = server /\ pending' = pending \cup {f}
        /\ \A g \in Files \ {f} : disk'[g] = disk[g]
        /\ f \in s.openDocuments \/ MayAppear(f)
    <3>1. CASE WriteBuffer(f)
      BY <1>3, <1>5, <3>1 DEF WriteBuffer, DiskTypes
    <3>2. CASE \E t \in TextsOf[f] \cup {Missing} : FileChanges(f, t)
      BY <1>3, <3>2 DEF FileChanges, DiskTypes
    <3> QED
      BY <1>10, <3>1, <3>2
  <2>2. PICK read, late : read = Read(server)' /\ late = Late'
    OBVIOUS
  <2>3. late = (pending \cup {f}) \ s.openDocuments
    BY <1>2, <2>1, <2>2 DEF Late
  <2>4. read = [g \in Files |-> IF g \in s.openDocuments THEN s.documents[g].text ELSE disk'[g]]
    BY <1>2, <2>1, <2>2 DEF Read, Effective
  <2>5. Apart(read0, late0, read, late, f)
    BY <1>2, <1>4, <2>1, <2>3, <2>4 DEF Apart, Effective
  <2>6. read \in Reads
    <3>1. DiskTypes'
      BY <1>1 DEF GraphInv
    <3>2. \A g \in Files : g \in s.openDocuments => read0[g] = s.documents[g].text
      BY <1>2, <1>4 DEF Effective
    <3> QED
      BY <1>3, <2>4, <3>1, <3>2 DEF Reads, DiskTypes
  <2>7. /\ Timely(s, read, late) /\ \A d \in Loaded(s) : Imported(s, read, d)
        /\ \A d \in Loaded(s) : Minimal(s.documents[d]) /\ Backed(s, d, read, late)
    <3>1. CASE f \in s.openDocuments
      <4>1. late = late0
        BY <1>4, <2>3, <3>1
      <4>2. \A g \in Files : read[g] = read0[g]
        BY <1>2, <1>4, <2>1, <2>4, <3>1 DEF Effective
      <4>3. read = read0
        BY <1>3, <2>6, <4>2 DEF Reads
      <4> QED
        BY <1>3, <4>1, <4>3 DEF Current, Settled
    <3>2. CASE f \notin s.openDocuments
      <4>1. Appears(s, read0, read, f)
        BY <1>2, <1>4, <2>1, <3>2 DEF MayAppear, Appears
      <4>2. f \in late
        BY <2>3, <3>2
      <4> QED
        BY <1>3, <2>5, <2>6, <4>1, <4>2, ChangeFacts
    <3> QED
      BY <3>1, <3>2
  <2>8. Current(s, read, late)'
    <3>1. Read(s)' = read
      BY <1>2, <2>1, <2>4 DEF Read, Effective
    <3> QED
      BY <1>3, <2>6, <2>7, <3>1 DEF Current, Settled
  <2>9. Current(server, Read(server), Late)'
    BY <1>2, <2>1, <2>2, <2>8
  <2>10. Buffered'
    BY <1>1, <2>1 DEF Buffered
  <2> QED
    BY <1>1, <2>9, <2>10 DEF CurrentInv
<1>11. CASE UNCHANGED vars
  <2>1. disk' = disk /\ pending' = pending /\ editor' = editor /\ server' = server
    BY <1>11 DEF vars
  <2>2. Late' = late0 /\ server' = s
    BY <1>2, <2>1 DEF Late
  <2>3. Current(server, Read(server), Late)'
    BY <1>3, <2>1, <2>2, HandledIsCurrent
  <2>4. Buffered'
    BY <1>1, <2>1 DEF Buffered
  <2> QED
    BY <1>1, <2>3, <2>4 DEF CurrentInv
<1> QED
  BY <1>7, <1>8, <1>9, <1>10, <1>11 DEF Next

\* When none of the files a document was derived from has a notification to come, it
\* was derived from its whole import closure, and from nothing else.
LEMMA CurrentIsDerived ==
    ASSUME NEW s, NEW read, NEW late, Current(s, read, late), NEW d \in Loaded(s),
           NEW text, text = s.documents[d].text, NEW inputs, inputs = s.documents[d].inputs,
           DOMAIN inputs \cap late = {}
    PROVE  inputs = [f \in Reach(ImportsOf[text], [f \in Files |-> ImportsOf[read[f]]]) |-> read[f]]
<1>1. Linked(s) /\ read \in Reads
  BY DEF Current, Settled
<1>2. PICK doc : doc = s.documents[d]
  OBVIOUS
<1>3. text \in Contents /\ doc \in Documents /\ doc.text = text /\ doc.inputs = inputs
  BY <1>1, <1>2, DocumentsOf
<1>4. PICK K, next : K = Known(text, read, late) /\ next = Follow(read, {})
  OBVIOUS
<1>5. /\ K \in SUBSET Files /\ ImportsOf[text] \subseteq K
      /\ \A f \in K : f \notin late => ImportsOf[read[f]] \subseteq K
  BY <1>1, <1>3, <1>4, KnownFacts
<1>6. \A f \in K : f \in DOMAIN inputs /\ (f \in late \/ inputs[f] = read[f])
  BY <1>2, <1>3, <1>4 DEF Current, Backed, Knows
<1>7. \A f \in K : f \notin late /\ inputs[f] = read[f]
  BY <1>6
<1>8. DOMAIN inputs \subseteq K
  <2>1. \A f \in K : f \in DOMAIN inputs => ImportsOf[inputs[f]] \subseteq K
    BY <1>5, <1>7
  <2>2. Minimal(doc)
    BY <1>2 DEF Current
  <2> QED
    BY <1>3, <1>5, <2>1, <2>2 DEF Minimal
<1>9. inputs = [f \in K |-> read[f]]
  <2>1. inputs = [f \in DOMAIN inputs |-> inputs[f]]
    <3>1. inputs \in Closures
      BY <1>3 DEF Documents
    <3> QED
      BY <3>1 DEF Closures
  <2>2. DOMAIN inputs = K
    BY <1>6, <1>8
  <2> QED
    BY <1>7, <2>1, <2>2
<1>10. K = Reach(ImportsOf[text], next)
  <2>1. PICK from, some : from = ImportsOf[text] /\ some = Follow(read, late)
    OBVIOUS
  <2>2. K = Reach(from, some)
    BY <1>4, <2>1 DEF Known
  <2>3. /\ some \in [Files -> SUBSET Files] /\ next \in [Files -> SUBSET Files] /\ from \in SUBSET Files
        /\ \A f \in Files : some[f] = IF f \in late THEN {} ELSE ImportsOf[read[f]]
        /\ \A f \in Files : next[f] = IF f \in {} THEN {} ELSE ImportsOf[read[f]]
    BY <1>1, <1>3, <1>4, <2>1, FollowFacts, TextFacts
  <2>4. \A f \in Reach(from, some) : next[f] = some[f]
    BY <1>5, <1>7, <2>2, <2>3
  <2> QED
    BY <2>1, <2>2, <2>3, <2>4, ReachAgrees
<1>11. next = [f \in Files |-> ImportsOf[read[f]]]
  BY <1>4 DEF Follow
<1> QED
  BY <1>9, <1>10, <1>11

LEMMA CurrentSnapshots == CurrentInv => SnapshotsAreCurrent
<1> SUFFICES ASSUME CurrentInv PROVE SnapshotsAreCurrent
  OBVIOUS
<1>1. GraphInv /\ Buffered /\ Current(server, Read(server), Late)
  BY DEF CurrentInv
<1>2. PICK read : read = Read(server)
  OBVIOUS
<1>3. ASSUME NEW f \in Files PROVE Actual(f) = read[f]
  BY <1>1, <1>2 DEF Buffered, Actual, Read, Effective
<1>4. ASSUME NEW d \in Loaded(server), d \notin pending PROVE server.documents[d].text = Actual(d)
  <2>1. Timely(server, read, Late)
    BY <1>1, <1>2 DEF Current, Settled
  <2>2. d \notin Late /\ d \in Files
    BY <1>4 DEF Late, Loaded
  <2> QED
    BY <1>3, <1>4, <2>1, <2>2 DEF Timely
<1>5. ASSUME NEW d \in Loaded(server), DOMAIN server.documents[d].inputs \cap pending = {}
      PROVE  server.documents[d].inputs =
                [f \in Reach(ImportsOf[server.documents[d].text], [f \in Files |-> ImportsOf[Actual(f)]])
                    |-> Actual(f)]
  <2>1. PICK text, inputs : text = server.documents[d].text /\ inputs = server.documents[d].inputs
    OBVIOUS
  <2>2. DOMAIN inputs \cap Late = {}
    BY <1>5, <2>1 DEF Late
  <2>3. PICK next : next = [f \in Files |-> ImportsOf[read[f]]]
    OBVIOUS
  <2>4. inputs = [f \in Reach(ImportsOf[text], next) |-> read[f]]
    BY <1>1, <1>2, <2>1, <2>2, <2>3, CurrentIsDerived
  <2>5. next = [f \in Files |-> ImportsOf[Actual(f)]]
    BY <1>3, <2>3
  <2>6. Reach(ImportsOf[text], next) \subseteq Files
    <3>1. Linked(server) /\ read \in Reads
      BY <1>1, <1>2 DEF Current, Settled
    <3>2. ImportsOf[text] \in SUBSET Files
      BY <2>1, <3>1, DocumentsOf
    <3>3. next \in [Files -> SUBSET Files]
      BY <2>3, <3>1, TextFacts DEF Reads
    <3> QED
      BY <3>2, <3>3, ReachFacts
  <2>7. inputs = [f \in Reach(ImportsOf[text], next) |-> Actual(f)]
    BY <1>3, <2>4, <2>6
  <2> QED
    BY <2>1, <2>5, <2>7
<1> QED
  BY <1>4, <1>5 DEF SnapshotsAreCurrent

\* Whatever files there are, however they import each other and in whatever order
\* documents are edited, saved and closed, files change and notifications come: a
\* document has the text that the user has, and is derived from what its import
\* closure holds now, but for files whose notification is still to come. Three things
\* that the code does not handle are excluded, each shown by a run: a file that comes
\* into being where loaded documents missed it, a reload of an open document while
\* the deletion of a file of its closure is not notified yet, and an opening under a
\* version that the server has already, which it ignores.
THEOREM SnapshotsStayCurrent ==
    ~Creations /\ ~Races /\ ~IgnoredOpens => (Spec => []SnapshotsAreCurrent)
<1> SUFFICES ASSUME ~Creations, ~Races, ~IgnoredOpens PROVE Spec => []SnapshotsAreCurrent
  OBVIOUS
<1>1. CurrentInv /\ [Next]_vars => CurrentInv'
  BY CurrentInvStep
<1> QED
  BY <1>1, InitCurrentInv, CurrentSnapshots, PTL DEF Spec
===============================================================================
