------------------------------ MODULE Iteration ------------------------------
(***************************************************************************)
(* A loop over the entries 1..n of a list, as the code has many: the       *)
(* value after each entry is a Step from the value after the one before.   *)
(* A module with a loop instantiates this one with its own Step, and has   *)
(* the three facts that everything about the loop follows from: what it    *)
(* does for no entries, what one more entry does, and induction.           *)
(***************************************************************************)
EXTENDS Naturals, WellFoundedInduction, TLAPS

CONSTANT Step(_, _, _)    \* parameters of the loop, entry number, value so far

\* The value after entries 1..n, from the value base before them.
After(p, base, n) ==
  LET after[i \in 0..n] == IF i = 0 THEN base ELSE Step(p, i, after[i - 1])
  IN  after[n]

-----------------------------------------------------------------------------
\* That the recursion has a solution, and only one.

IsRun(p, base, n, f) ==
  /\ DOMAIN f = 0..n
  /\ f = [i \in 0..n |-> f[i]]
  /\ f[0] = base
  /\ \A i \in 1..n : f[i] = Step(p, i, f[i - 1])

\* A set of numbers has a least one.
LEMMA LeastNumber ==
  ASSUME NEW S \in SUBSET Nat, S # {}
  PROVE  \E n \in S : \A m \in S : n <= m
<1> DEFINE R == {ss \in Nat \X Nat : ss[1] < ss[2]}
<1>1. IsWellFoundedOn(R, Nat)
  BY NatLessThanWellFounded DEF OpToRel
<1> HIDE DEF R
<1>2. PICK n \in S : \A m \in S : <<m, n>> \notin R
  BY <1>1, WFMin
<1>3. ASSUME NEW m \in S
      PROVE  n <= m
  <2>1. <<m, n>> \in Nat \X Nat /\ <<m, n>>[1] = m /\ <<m, n>>[2] = n
    OBVIOUS
  <2>2. ~(m < n)
    BY <1>2, <2>1 DEF R
  <2> QED
    BY <2>2
<1> QED
  BY <1>3

LEMMA RunExists ==
  ASSUME NEW p, NEW base, NEW n \in Nat
  PROVE  \E f : IsRun(p, base, n, f)
<1> DEFINE S == {m \in Nat : ~ \E f : IsRun(p, base, m, f)}
<1> SUFFICES ASSUME S # {} PROVE FALSE
  OBVIOUS
<1>1. PICK m \in S : \A k \in S : m <= k
  BY LeastNumber
<1>2. m # 0
  <2>1. IsRun(p, base, 0, [i \in 0..0 |-> base])
    BY DEF IsRun
  <2> QED
    BY <1>1, <2>1
<1>3. m - 1 \in Nat /\ m - 1 \notin S
  BY <1>1, <1>2
<1>4. PICK f : IsRun(p, base, m - 1, f)
  BY <1>3
<1> DEFINE g == [i \in 0..m |-> IF i = m THEN Step(p, m, f[m - 1]) ELSE f[i]]
<1>5. IsRun(p, base, m, g)
  <2>1. DOMAIN g = 0..m /\ g = [i \in 0..m |-> g[i]]
    OBVIOUS
  <2>2. g[0] = base
    BY <1>2, <1>4 DEF IsRun
  <2>3. ASSUME NEW i \in 1..m
        PROVE  g[i] = Step(p, i, g[i - 1])
    <3>1. i - 1 \in 0..(m - 1) /\ g[i - 1] = f[i - 1]
      BY <1>2
    <3>2. i \in 1..(m - 1) => f[i] = Step(p, i, f[i - 1])
      BY <1>4 DEF IsRun
    <3> QED
      BY <3>1, <3>2
  <2> QED
    BY <2>1, <2>2, <2>3 DEF IsRun
<1> QED
  BY <1>1, <1>5

LEMMA RunUnique ==
  ASSUME NEW p, NEW base, NEW n \in Nat, NEW f, NEW g, NEW m \in Nat, m <= n,
         IsRun(p, base, n, f), IsRun(p, base, m, g), NEW i \in 0..m
  PROVE  f[i] = g[i]
<1> DEFINE S == {k \in 0..m : f[k] # g[k]}
<1> SUFFICES ASSUME S # {} PROVE FALSE
  OBVIOUS
<1>1. S \in SUBSET Nat
  OBVIOUS
<1>2. PICK k \in S : \A j \in S : k <= j
  <2> HIDE DEF S
  <2> QED
    BY <1>1, LeastNumber
<1>3. k # 0
  BY <1>2 DEF IsRun
<1>4. k - 1 \in 0..m /\ k - 1 \notin S /\ k \in 1..m /\ k \in 1..n
  BY <1>2, <1>3
<1> QED
  BY <1>2, <1>4 DEF IsRun

LEMMA AfterIsRun ==
  ASSUME NEW p, NEW base, NEW n \in Nat
  PROVE  \E f : IsRun(p, base, n, f) /\ After(p, base, n) = f[n]
<1> DEFINE Solves(f) == f = [i \in 0..n |-> IF i = 0 THEN base ELSE Step(p, i, f[i - 1])]
           g == CHOOSE f : Solves(f)
<1>1. PICK f : IsRun(p, base, n, f)
  BY RunExists
<1>2. Solves(f)
  <2>1. ASSUME NEW i \in 0..n
        PROVE  f[i] = IF i = 0 THEN base ELSE Step(p, i, f[i - 1])
    <3>1. CASE i = 0
      BY <1>1, <3>1 DEF IsRun
    <3>2. CASE i # 0
      <4>1. i \in 1..n
        BY <3>2
      <4> QED
        BY <1>1, <3>2, <4>1 DEF IsRun
    <3> QED
      BY <3>1, <3>2
  <2> QED
    BY <1>1, <2>1 DEF IsRun
<1>3. Solves(g)
  BY <1>2
<1>4. IsRun(p, base, n, g)
  <2> HIDE DEF g
  <2> QED
    BY <1>3 DEF IsRun
<1>5. After(p, base, n) = g[n]
  BY DEF After
<1> QED
  BY <1>4, <1>5

-----------------------------------------------------------------------------

\* A loop over no entries does nothing.
THEOREM AfterZero ==
  ASSUME NEW p, NEW base
  PROVE  After(p, base, 0) = base
BY AfterIsRun DEF IsRun

\* A loop over one entry more makes one Step more.
THEOREM AfterStep ==
  ASSUME NEW p, NEW base, NEW n \in Nat \ {0}
  PROVE  After(p, base, n) = Step(p, n, After(p, base, n - 1))
<1>1. PICK f : IsRun(p, base, n, f) /\ After(p, base, n) = f[n]
  BY AfterIsRun
<1>2. PICK g : IsRun(p, base, n - 1, g) /\ After(p, base, n - 1) = g[n - 1]
  BY AfterIsRun
<1>3. f[n - 1] = g[n - 1]
  BY <1>1, <1>2, RunUnique
<1> QED
  BY <1>1, <1>2, <1>3 DEF IsRun

\* Induction.  S[i] is what holds after entry i, as the set of the values for
\* which it does.
THEOREM AfterInduction ==
  ASSUME NEW p, NEW base, NEW n \in Nat, NEW S,
         base \in S[0],
         \A i \in 1..n : \A value \in S[i - 1] : Step(p, i, value) \in S[i]
  PROVE  After(p, base, n) \in S[n]
<1> DEFINE Bad == {i \in 0..n : After(p, base, i) \notin S[i]}
<1> SUFFICES ASSUME Bad # {} PROVE FALSE
  OBVIOUS
<1>1. Bad \in SUBSET Nat
  OBVIOUS
<1>2. PICK k \in Bad : \A j \in Bad : k <= j
  <2> HIDE DEF Bad
  <2> QED
    BY <1>1, LeastNumber
<1>3. k # 0
  BY <1>2, AfterZero
<1>4. k \in 1..n /\ k - 1 \in 0..n /\ k - 1 \notin Bad /\ k \in Nat \ {0}
  BY <1>2, <1>3
<1>5. After(p, base, k) = Step(p, k, After(p, base, k - 1))
  BY <1>4, AfterStep
<1> HIDE DEF Bad
<1>6. After(p, base, k - 1) \in S[k - 1]
  BY <1>4 DEF Bad
<1> QED
  BY <1>2, <1>4, <1>5, <1>6 DEF Bad

=============================================================================
