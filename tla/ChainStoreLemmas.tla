-------------------------- MODULE ChainStoreLemmas --------------------------
(***************************************************************************)
(* What the operators of the block store compute, for any tree of blocks   *)
(* and any transactions: chains and their common ancestors, the writes of  *)
(* a reorganisation, and what they come to; the invariant of the block     *)
(* store, and that one write of writeBlock keeps it.                       *)
(***************************************************************************)
EXTENDS ChainStore, WellFoundedInduction, TLAPS

-----------------------------------------------------------------------------
(* Induction and recursion over the natural numbers in a form the provers  *)
(* can use: about sets and functions instead of operators.                 *)

\* A set of natural numbers that is not empty has a least element.
LEMMA LeastNatural ==
    ASSUME NEW T \in SUBSET Nat, T # {}
    PROVE  \E m \in T : \A n \in T : m <= n
<1> DEFINE R == {p \in Nat \X Nat : p[1] < p[2]}
<1>1. IsWellFoundedOn(R, Nat)
  BY NatLessThanWellFounded DEF OpToRel
<1>2. PICK m \in T : \A n \in T : ~ (<<n, m>> \in R)
  <2> HIDE DEF R
  <2> QED
    BY <1>1, WFMin, Zenon
<1>3. ASSUME NEW n \in T PROVE m <= n
  <2>1. m \in Nat /\ n \in Nat
    OBVIOUS
  <2>2. <<n, m>> \in Nat \X Nat
    BY <2>1
  <2>3. ~(n < m)
    BY <1>2, <2>2
  <2> QED
    BY <2>1, <2>3
<1> QED
  BY <1>3

\* A set that holds 0 and with every natural number the next holds them all.
LEMMA Induction ==
    ASSUME NEW S, 0 \in S, \A n \in Nat : n \in S => n + 1 \in S
    PROVE  \A n \in Nat : n \in S
<1> SUFFICES ASSUME Nat \ S # {}
             PROVE  FALSE
  OBVIOUS
<1>1. PICK m \in Nat \ S : \A n \in Nat \ S : m <= n
  BY LeastNatural, Zenon
<1>2. m # 0 /\ m - 1 \in Nat
  BY <1>1
<1>3. m - 1 \in S
  BY <1>1, <1>2
<1> QED
  BY <1>1, <1>2, <1>3

\* f starts with start, and step leads from each of its values to the next.
Steps(f, V, start, step) ==
    /\ f \in [Nat -> V]
    /\ f[0] = start
    /\ \A n \in Nat : f[n + 1] = step[n][f[n]]

\* A function of the natural numbers may be given by its value at 0 and by
\* how each value follows from the one before.
LEMMA Recursion ==
    ASSUME NEW V, NEW start \in V, NEW step \in [Nat -> [V -> V]]
    PROVE  \E f : Steps(f, V, start, step)
<1> DEFINE Part(n) == {g \in [0 .. n -> V] :
                          /\ g[0] = start
                          /\ \A i \in 0 .. n - 1 : g[i + 1] = step[i][g[i]]}
           Known == {n \in Nat : Part(n) # {}}
           Agree == {i \in Nat : \A n, m \in Nat : \A g \in Part(n), h \in Part(m) :
                                     i <= n /\ i <= m => g[i] = h[i]}
<1>1. \A n \in Nat : n \in Known
  <2>1. 0 \in Known
    <3>1. [i \in 0 .. 0 |-> start] \in Part(0)
      OBVIOUS
    <3> QED
      BY <3>1
  <2>2. ASSUME NEW n \in Nat, n \in Known PROVE n + 1 \in Known
    <3>1. PICK g : g \in Part(n)
      BY <2>2
    <3> DEFINE h == [i \in 0 .. n + 1 |-> IF i = n + 1 THEN step[n][g[n]] ELSE g[i]]
    <3>2. g \in [0 .. n -> V] /\ g[n] \in V /\ step[n][g[n]] \in V
      BY <3>1
    <3>3. h \in [0 .. n + 1 -> V]
      BY <3>2
    <3>4. h[0] = start
      BY <3>1
    <3>5. ASSUME NEW i \in 0 .. n PROVE h[i + 1] = step[i][h[i]]
      <4>1. h[i] = g[i] /\ i \in 0 .. n + 1 /\ i + 1 \in 0 .. n + 1
        OBVIOUS
      <4>2. CASE i = n
        BY <4>1, <4>2
      <4>3. CASE i # n
        <5>1. i \in 0 .. n - 1 /\ h[i + 1] = g[i + 1]
          BY <4>1, <4>3
        <5> QED
          BY <4>1, <5>1, <3>1
      <4> QED
        BY <4>2, <4>3
    <3>6. h \in Part(n + 1)
      <4>1. (n + 1) - 1 = n
        OBVIOUS
      <4> HIDE DEF h
      <4> QED
        BY <3>3, <3>4, <3>5, <4>1
    <3> HIDE DEF Part, h
    <3> QED
      BY <3>6
  <2> HIDE DEF Known
  <2> QED
    BY <2>1, <2>2, Induction
<1>2. \A i \in Nat : i \in Agree
  <2>1. 0 \in Agree
    OBVIOUS
  <2>2. ASSUME NEW i \in Nat, i \in Agree PROVE i + 1 \in Agree
    <3> HIDE DEF Part
    <3> SUFFICES ASSUME NEW n \in Nat, NEW m \in Nat, NEW g \in Part(n), NEW h \in Part(m),
                        i + 1 <= n, i + 1 <= m
                 PROVE  g[i + 1] = h[i + 1]
      OBVIOUS
    <3>1. g[i] = h[i]
      BY <2>2
    <3>2. i \in 0 .. n - 1 /\ i \in 0 .. m - 1
      OBVIOUS
    <3> QED
      BY <3>1, <3>2 DEF Part
  <2> HIDE DEF Agree
  <2> QED
    BY <2>1, <2>2, Induction
<1> DEFINE G(n) == CHOOSE g : g \in Part(n)
           f == [n \in Nat |-> G(n)[n]]
<1>3. \A n \in Nat : G(n) \in Part(n)
  BY <1>1, Zenon
<1> HIDE DEF G
<1>4. f \in [Nat -> V]
  BY <1>3
<1>5. f[0] = start
  BY <1>3
<1>6. ASSUME NEW n \in Nat PROVE f[n + 1] = step[n][f[n]]
  <2>1. G(n) \in Part(n) /\ G(n + 1) \in Part(n + 1)
    BY <1>3
  <2>2. G(n + 1)[n] = G(n)[n]
    <3> HIDE DEF Part
    <3> QED
      BY <1>2, <2>1
  <2>3. G(n + 1)[n + 1] = step[n][G(n + 1)[n]]
    BY <2>1
  <2> QED
    BY <2>2, <2>3
<1> HIDE DEF f
<1>7. Steps(f, V, start, step)
  BY <1>4, <1>5, <1>6 DEF Steps
<1> QED
  BY <1>7

\* Sequences with the same elements at the same positions are equal.
LEMMA SameElements ==
    ASSUME NEW S, NEW s \in Seq(S), NEW t \in Seq(S), Len(s) = Len(t), \A i \in 1 .. Len(s) : s[i] = t[i]
    PROVE  s = t
OBVIOUS

\* What a concatenation holds, and at which positions.
LEMMA ConcatElements ==
    ASSUME NEW S, NEW s \in Seq(S), NEW t \in Seq(S)
    PROVE  /\ s \o t \in Seq(S)
           /\ Len(s) \in Nat /\ Len(t) \in Nat /\ Len(s \o t) = Len(s) + Len(t)
           /\ DOMAIN s = 1 .. Len(s) /\ DOMAIN t = 1 .. Len(t)
           /\ DOMAIN (s \o t) = 1 .. Len(s) + Len(t)
           /\ \A i \in DOMAIN (s \o t) :
                 (s \o t)[i] = IF i <= Len(s) THEN s[i] ELSE t[i - Len(s)]
           /\ Range(s \o t) = Range(s) \cup Range(t)
<1>1. /\ s \o t \in Seq(S)
      /\ Len(s) \in Nat /\ Len(t) \in Nat /\ Len(s \o t) = Len(s) + Len(t)
      /\ DOMAIN s = 1 .. Len(s) /\ DOMAIN t = 1 .. Len(t)
      /\ DOMAIN (s \o t) = 1 .. Len(s) + Len(t)
      /\ \A i \in 1 .. Len(s) + Len(t) :
            (s \o t)[i] = IF i <= Len(s) THEN s[i] ELSE t[i - Len(s)]
  OBVIOUS
<1>2. ASSUME NEW i \in DOMAIN (s \o t) PROVE (s \o t)[i] \in Range(s) \cup Range(t)
  <2>1. CASE i <= Len(s)
    <3>1. i \in DOMAIN s /\ (s \o t)[i] = s[i]
      BY <1>1, <2>1
    <3> QED
      BY <3>1 DEF Range
  <2>2. CASE ~(i <= Len(s))
    <3>1. i - Len(s) \in DOMAIN t /\ (s \o t)[i] = t[i - Len(s)]
      BY <1>1, <2>2
    <3> QED
      BY <3>1 DEF Range
  <2> QED
    BY <2>1, <2>2
<1>3. ASSUME NEW i \in DOMAIN s PROVE s[i] \in Range(s \o t)
  <2>1. i \in DOMAIN (s \o t) /\ (s \o t)[i] = s[i]
    BY <1>1
  <2> QED
    BY <2>1 DEF Range
<1>4. ASSUME NEW i \in DOMAIN t PROVE t[i] \in Range(s \o t)
  <2>1. Len(s) + i \in 1 .. Len(s) + Len(t) /\ ~(Len(s) + i <= Len(s))
        /\ (Len(s) + i) - Len(s) = i
    BY <1>1
  <2>2. Len(s) + i \in DOMAIN (s \o t) /\ (s \o t)[Len(s) + i] = t[i]
    BY <1>1, <2>1
  <2> QED
    BY <2>2 DEF Range
<1>5. Range(s \o t) = Range(s) \cup Range(t)
  BY <1>2, <1>3, <1>4, Zenon DEF Range
<1> QED
  BY <1>1, <1>5

\* The elements of a concatenation.
LEMMA ConcatSet ==
    ASSUME NEW S, NEW s \in Seq(S), NEW t \in Seq(S)
    PROVE  Range(s \o t) = Range(s) \cup Range(t)
BY ConcatElements

\* An element put before a sequence.
LEMMA ConsElements ==
    ASSUME NEW S, NEW x \in S, NEW s \in Seq(S)
    PROVE  /\ <<x>> \o s \in Seq(S) /\ (<<x>> \o s)[1] = x
           /\ Range(<<x>> \o s) = {x} \cup Range(s)
<1>1. <<x>> \in Seq(S) /\ Len(<<x>>) = 1 /\ DOMAIN <<x>> = {1} /\ <<x>>[1] = x
  OBVIOUS
<1>2. <<x>> \o s \in Seq(S)
  OBVIOUS
<1>3. (<<x>> \o s)[1] = x
  OBVIOUS
<1>4. Range(<<x>>) = {x}
  BY <1>1 DEF Range
<1>5. Range(<<x>> \o s) = Range(<<x>>) \cup Range(s)
  <2> DEFINE u == <<x>>
  <2>1. u \in Seq(S)
    OBVIOUS
  <2> HIDE DEF u
  <2>2. Range(u \o s) = Range(u) \cup Range(s)
    BY <2>1, ConcatSet
  <2> QED
    BY <2>2 DEF u
<1> QED
  BY <1>2, <1>3, <1>4, <1>5

\* Short sequences.
LEMMA OneElement ==
    ASSUME NEW S, NEW x \in S
    PROVE  <<x>> \in Seq(S) /\ Range(<<x>>) = {x}
<1>1. DOMAIN <<x>> = {1} /\ <<x>>[1] = x
  OBVIOUS
<1> QED
  BY <1>1 DEF Range

-----------------------------------------------------------------------------
(* Chains.                                                                 *)

\* b and its ancestors
Anc(b) == Range(Chain[b])

\* The recursion that gives the chain of a block down to the genesis block
\* has a solution, so Chain is one.
LEMMA ChainEquation ==
    \A b \in Block : Chain[b] = IF b = Genesis THEN <<b>> ELSE <<b>> \o Chain[Parent[b]]
\* A function of the numbers from 1 on is a sequence.
<1>AsSequence. ASSUME NEW S, NEW n \in Nat, NEW f \in [1 .. n -> S]
               PROVE  f \in Seq(S) /\ Len(f) = n /\ DOMAIN f = 1 .. n
  BY <1>AsSequence
<1> DEFINE Up == [b \in Block |-> IF b = Genesis THEN b ELSE Parent[b]]
           V == [Block -> Block]
           start == [b \in Block |-> b]
           step == [n \in Nat |-> [a \in V |-> [b \in Block |-> a[Up[b]]]]]
<1>1. Up \in V /\ start \in V /\ step \in [Nat -> [V -> V]]
  BY ChainAssumption
<1>2. PICK A : Steps(A, V, start, step)
  <2> HIDE DEF V, start, step
  <2> QED
    BY <1>1, Recursion
<1>3. /\ \A n \in Nat : A[n] \in V
      /\ \A b \in Block : A[0][b] = b
      /\ \A n \in Nat, b \in Block : A[n + 1][b] = A[n][Up[b]]
  <2>1. A \in [Nat -> V] /\ A[0] = start /\ \A n \in Nat : A[n + 1] = step[n][A[n]]
    <3> HIDE DEF V, start, step
    <3> QED
      BY <1>2 DEF Steps
  <2>2. ASSUME NEW n \in Nat, NEW b \in Block PROVE A[n + 1][b] = A[n][Up[b]]
    <3>1. A[n] \in V /\ A[n + 1] = step[n][A[n]]
      BY <2>1, Zenon
    <3>2. step[n][A[n]] = [c \in Block |-> A[n][Up[c]]]
      BY <3>1
    <3> QED
      BY <3>1, <3>2
  <2> QED
    BY <2>1, <2>2
<1> DEFINE F == [b \in Block |-> [i \in 1 .. Height[b] + 1 |-> A[i - 1][b]]]
           Eq(f) == f = [b \in Block |-> IF b = Genesis THEN <<b>> ELSE <<b>> \o f[Parent[b]]]
<1> HIDE DEF V, start, step
<1>4. ASSUME NEW b \in Block
      PROVE  /\ F[b] \in Seq(Block) /\ Len(F[b]) = Height[b] + 1
             /\ \A i \in 1 .. Height[b] + 1 : F[b][i] = A[i - 1][b]
  <2>1. Height[b] + 1 \in Nat
    BY ChainAssumption
  <2>2. \A i \in 1 .. Height[b] + 1 : A[i - 1][b] \in Block
    BY <1>3 DEF V
  <2>3. F[b] = [i \in 1 .. Height[b] + 1 |-> A[i - 1][b]]
    OBVIOUS
  <2> HIDE DEF F
  <2>4. F[b] \in [1 .. Height[b] + 1 -> Block]
    BY <2>2, <2>3
  <2>5. F[b] \in Seq(Block) /\ Len(F[b]) = Height[b] + 1
    <3> DEFINE g == F[b]
               n == Height[b] + 1
    <3>1. n \in Nat /\ g \in [1 .. n -> Block]
      BY <2>1, <2>4
    <3> HIDE DEF g, n
    <3>2. g \in Seq(Block) /\ Len(g) = n
      BY <3>1, <1>AsSequence
    <3> QED
      BY <3>2 DEF g, n
  <2> QED
    BY <2>3, <2>5
<1>5. ASSUME NEW b \in Block
      PROVE  F[b] = IF b = Genesis THEN <<b>> ELSE <<b>> \o F[Parent[b]]
  <2> HIDE DEF F
  <2>1. CASE b = Genesis
    <3>1. F[b] \in Seq(Block) /\ Len(F[b]) = 1 /\ F[b][1] = A[0][b]
      <4>1. Height[b] + 1 = 1
        BY ChainAssumption, <2>1
      <4>2. F[b] \in Seq(Block) /\ Len(F[b]) = Height[b] + 1
        BY <1>4
      <4>3. \A i \in 1 .. Height[b] + 1 : F[b][i] = A[i - 1][b]
        BY <1>4
      <4>4. F[b][1] = A[0][b]
        BY <4>1, <4>3
      <4> QED
        BY <4>1, <4>2, <4>4
    <3>2. F[b][1] = b
      BY <1>3, <3>1
    <3> QED
      BY <2>1, <3>1, <3>2
  <2>2. CASE b # Genesis
    <3> DEFINE p == Parent[b]
    <3>1. p \in Block /\ Height[b] = Height[p] + 1 /\ Up[b] = p
      BY ChainAssumption, <2>2
    <3>2. F[p] \in Seq(Block) /\ Len(F[p]) = Height[p] + 1
      BY <1>4, <3>1
    <3> HIDE DEF p
    <3>3. <<b>> \in Seq(Block) /\ Len(<<b>>) = 1
      OBVIOUS
    <3>4. /\ <<b>> \o F[p] \in Seq(Block)
          /\ Len(<<b>> \o F[p]) = Height[b] + 1
          /\ DOMAIN (<<b>> \o F[p]) = 1 .. Height[b] + 1
          /\ \A i \in 1 .. Height[b] + 1 :
                (<<b>> \o F[p])[i] = IF i <= 1 THEN <<b>>[i] ELSE F[p][i - 1]
      BY <3>1, <3>2, <3>3, ConcatElements
    <3>5. ASSUME NEW i \in 1 .. Height[b] + 1 PROVE F[b][i] = (<<b>> \o F[p])[i]
      <4>1. F[b][i] = A[i - 1][b]
        BY <1>4
      <4>2. CASE i = 1
        BY <1>3, <3>4, <4>1, <4>2
      <4>3. CASE i # 1
        <5>1. i - 2 \in Nat /\ i - 1 = (i - 2) + 1 /\ i - 1 \in 1 .. Height[p] + 1
          BY ChainAssumption, <3>1, <4>3
        <5>2. A[i - 1][b] = A[i - 2][p]
          BY <1>3, <3>1, <5>1
        <5>3. F[p][i - 1] = A[(i - 1) - 1][p] /\ (i - 1) - 1 = i - 2
          BY <1>4, <3>1, <5>1
        <5>4. (<<b>> \o F[p])[i] = F[p][i - 1]
          BY <3>4, <4>3
        <5> QED
          BY <4>1, <5>2, <5>3, <5>4, Zenon
      <4> QED
        BY <4>2, <4>3, Zenon
    <3>6. F[b] \in Seq(Block) /\ Len(F[b]) = Height[b] + 1
      BY <1>4
    <3>7. F[b] = <<b>> \o F[p]
      <4> DEFINE s == F[b]
                 t == <<b>> \o F[p]
      <4>1. s \in Seq(Block) /\ t \in Seq(Block) /\ Len(s) = Len(t)
            /\ \A i \in 1 .. Len(s) : s[i] = t[i]
        BY <3>4, <3>5, <3>6
      <4> HIDE DEF s, t
      <4>2. s = t
        BY <4>1, SameElements
      <4> QED
        BY <4>2 DEF s, t
    <3> QED
      BY <2>2, <3>7 DEF p
  <2> QED
    BY <2>1, <2>2
<1>6. Eq(F)
  BY <1>5, Zenon
<1>7. Eq(CHOOSE f : Eq(f))
  <2> HIDE DEF Eq
  <2> QED
    BY <1>6
<1>8. Chain = CHOOSE f : Eq(f)
  BY DEF Chain
<1>9. Eq(Chain)
  <2> HIDE DEF Eq
  <2> QED
    BY <1>7, <1>8
<1> QED
  BY <1>9, Zenon

\* A chain goes down one height at a time to the genesis block.
LEMMA ChainShape ==
    ASSUME NEW b \in Block
    PROVE  /\ Chain[b] \in Seq(Block)
           /\ Len(Chain[b]) = Height[b] + 1
           /\ DOMAIN Chain[b] = 1 .. Height[b] + 1
           /\ \A i \in 1 .. Height[b] + 1 :
                 Chain[b][i] \in Block /\ Height[Chain[b][i]] = Height[b] - i + 1
<1> DEFINE Good(c) == /\ Chain[c] \in Seq(Block)
                      /\ Len(Chain[c]) = Height[c] + 1
                      /\ \A i \in 1 .. Height[c] + 1 : Height[Chain[c][i]] = Height[c] - i + 1
           S == {n \in Nat : \A c \in Block : Height[c] = n => Good(c)}
<1>1. 0 \in S
  <2> SUFFICES ASSUME NEW c \in Block, Height[c] = 0
               PROVE  Good(c)
    OBVIOUS
  <2>1. c = Genesis
    BY ChainAssumption
  <2>2. Chain[c] = <<c>>
    BY <2>1, ChainEquation, Zenon
  <2> QED
    BY <2>2
<1>2. ASSUME NEW n \in Nat, n \in S PROVE n + 1 \in S
  <2> SUFFICES ASSUME NEW c \in Block, Height[c] = n + 1
               PROVE  Good(c)
    OBVIOUS
  <2> DEFINE p == Parent[c]
             s == Chain[p]
  <2>1. c # Genesis /\ p \in Block /\ Height[p] = n
    <3>1. c # Genesis
      BY ChainAssumption
    <3> QED
      BY ChainAssumption, <3>1
  <2>2. Good(p)
    <3> HIDE DEF Good, p
    <3> QED
      BY <1>2, <2>1
  <2>3. Chain[c] = <<c>> \o s
    <3> HIDE DEF S
    <3> QED
      BY <2>1, ChainEquation, Zenon
  <2> HIDE DEF S, s, p
  <2>4. s \in Seq(Block) /\ Len(s) = n + 1
        /\ \A i \in 1 .. n + 1 : Height[s[i]] = n - i + 1
    BY <2>1, <2>2 DEF s
  <2>5. /\ <<c>> \o s \in Seq(Block)
        /\ Len(<<c>> \o s) = n + 2
        /\ \A i \in 1 .. n + 2 :
              (<<c>> \o s)[i] = IF i <= 1 THEN <<c>>[i] ELSE s[i - 1]
    <3>1. <<c>> \in Seq(Block) /\ Len(<<c>>) = 1
      OBVIOUS
    <3> QED
      BY <2>4, <3>1, ConcatElements
  <2>6. ASSUME NEW i \in 1 .. n + 2 PROVE Height[(<<c>> \o s)[i]] = n + 1 - i + 1
    <3>1. CASE i = 1
      BY <2>5, <3>1
    <3>2. CASE i # 1
      <4>1. i - 1 \in 1 .. n + 1 /\ ~(i <= 1)
        BY <3>2
      <4>2. Height[s[i - 1]] = n - (i - 1) + 1
        BY <2>4, <4>1
      <4> QED
        BY <2>5, <4>1, <4>2
    <3> QED
      BY <3>1, <3>2, Zenon
  <2> QED
    BY ChainAssumption, <2>3, <2>5, <2>6
<1>3. \A n \in Nat : n \in S
  <2> HIDE DEF S
  <2> QED
    BY <1>1, <1>2, Induction
<1>4. Good(b)
  <2> HIDE DEF Good
  <2> QED
    BY ChainAssumption, <1>3
<1>5. DOMAIN Chain[b] = 1 .. Height[b] + 1
      /\ \A i \in 1 .. Height[b] + 1 : Chain[b][i] \in Block
  BY <1>4
<1> QED
  BY <1>4, <1>5

\* The ancestors of a block are the block and those of its parent.
LEMMA AncestorsStep ==
    ASSUME NEW b \in Block
    PROVE  /\ Chain[b][1] = b /\ b \in Anc(b) /\ Anc(b) \subseteq Block
           /\ b = Genesis => Anc(b) = {b}
           /\ b # Genesis => Anc(b) = {b} \cup Anc(Parent[b])
<1>1. ASSUME NEW c \in Block PROVE Chain[c] \in Seq(Block) /\ Anc(c) \subseteq Block
  <2>1. Chain[c] \in Seq(Block) /\ DOMAIN Chain[c] = 1 .. Height[c] + 1
        /\ \A i \in 1 .. Height[c] + 1 : Chain[c][i] \in Block
    BY ChainShape
  <2> QED
    BY <2>1 DEF Anc, Range
<1>2. CASE b = Genesis
  <2>1. Chain[b] = <<b>>
    BY <1>2, ChainEquation, Zenon
  <2>2. DOMAIN <<b>> = {1} /\ <<b>>[1] = b
    OBVIOUS
  <2> QED
    BY <1>2, <2>1, <2>2 DEF Anc, Range
<1>3. CASE b # Genesis
  <2> DEFINE s == Chain[Parent[b]]
  <2>1. Parent[b] \in Block /\ s \in Seq(Block)
    BY ChainAssumption, <1>1, <1>3
  <2>2. Chain[b] = <<b>> \o s
    BY <1>3, ChainEquation, Zenon
  <2> HIDE DEF s
  <2>3. (<<b>> \o s)[1] = b /\ Range(<<b>> \o s) = {b} \cup Range(s)
    BY <2>1, ConsElements
  <2> QED
    BY <1>1, <1>3, <2>2, <2>3 DEF Anc, s
<1> QED
  BY <1>2, <1>3

\* An ancestor is found in the chain by its height, so there is one at most
\* for a height.
LEMMA AncestorHeight ==
    ASSUME NEW b \in Block, NEW c \in Anc(b)
    PROVE  /\ c \in Block /\ Height[c] <= Height[b]
           /\ c = Chain[b][Height[b] - Height[c] + 1]
<1>1. /\ DOMAIN Chain[b] = 1 .. Height[b] + 1
      /\ \A i \in 1 .. Height[b] + 1 :
            Chain[b][i] \in Block /\ Height[Chain[b][i]] = Height[b] - i + 1
  BY ChainShape
<1>2. PICK i \in 1 .. Height[b] + 1 : c = Chain[b][i]
  BY <1>1 DEF Anc, Range
<1>3. c \in Block /\ Height[c] = Height[b] - i + 1
  BY <1>1, <1>2
<1>4. Height[b] \in Nat /\ Height[b] - Height[c] + 1 = i
  BY <1>3, ChainAssumption
<1> QED
  BY <1>2, <1>3, <1>4

\* A block has at most one ancestor of a height: the height index cannot need
\* two entries there.
LEMMA AncestorUnique ==
    ASSUME NEW b \in Block, NEW c \in Anc(b), NEW d \in Anc(b), Height[c] = Height[d]
    PROVE  c = d
BY AncestorHeight

\* There is an ancestor at every height up to the block's own.
LEMMA AncestorAt ==
    ASSUME NEW b \in Block, NEW n \in 0 .. Height[b]
    PROVE  /\ Chain[b][Height[b] - n + 1] \in Anc(b)
           /\ Height[Chain[b][Height[b] - n + 1]] = n
<1>1. /\ DOMAIN Chain[b] = 1 .. Height[b] + 1
      /\ \A i \in 1 .. Height[b] + 1 : Height[Chain[b][i]] = Height[b] - i + 1
  BY ChainShape
<1>2. Height[b] \in Nat
  BY ChainAssumption
<1>3. Height[b] - n + 1 \in 1 .. Height[b] + 1
      /\ Height[b] - (Height[b] - n + 1) + 1 = n
  BY <1>2
<1>4. Height[Chain[b][Height[b] - n + 1]] = Height[b] - (Height[b] - n + 1) + 1
  BY <1>1, <1>3
<1> QED
  BY <1>1, <1>3, <1>4 DEF Anc, Range

\* The ancestors of an ancestor are those of the block that are not higher.
LEMMA AncestorsBelow ==
    ASSUME NEW b \in Block, NEW c \in Anc(b)
    PROVE  Anc(c) = {d \in Anc(b) : Height[d] <= Height[c]}
<1> DEFINE Good(x, y) == Anc(y) = {d \in Anc(x) : Height[d] <= Height[y]}
           S == {n \in Nat : \A x \in Block : Height[x] = n => \A y \in Anc(x) : Good(x, y)}
<1>1. ASSUME NEW x \in Block PROVE Good(x, x)
  BY AncestorHeight
<1>2. 0 \in S
  <2> SUFFICES ASSUME NEW x \in Block, Height[x] = 0, NEW y \in Anc(x)
               PROVE  Good(x, y)
    OBVIOUS
  <2>1. x = Genesis
    BY ChainAssumption
  <2>2. y = x
    BY <2>1, AncestorsStep
  <2> QED
    BY <1>1, <2>2
<1>3. ASSUME NEW n \in Nat, n \in S PROVE n + 1 \in S
  <2> SUFFICES ASSUME NEW x \in Block, Height[x] = n + 1, NEW y \in Anc(x)
               PROVE  Good(x, y)
    OBVIOUS
  <2>1. CASE y = x
    BY <1>1, <2>1
  <2>2. CASE y # x
    <3> DEFINE p == Parent[x]
    <3>1. x # Genesis /\ p \in Block /\ Height[p] = n
      <4>1. x # Genesis
        BY ChainAssumption
      <4> QED
        BY ChainAssumption, <4>1
    <3>2. Anc(x) = {x} \cup Anc(p)
      <4> HIDE DEF S
      <4> QED
        BY <3>1, AncestorsStep
    <3> HIDE DEF p
    <3>3. y \in Anc(p)
      BY <2>2, <3>2
    <3>4. Good(p, y)
      <4> HIDE DEF Good
      <4> QED
        BY <1>3, <3>1, <3>3
    <3>5. Height[y] <= n /\ y \in Block
      <4> HIDE DEF S
      <4> QED
        BY <3>1, <3>3, AncestorHeight
    <3>6. ~(Height[x] <= Height[y])
      BY ChainAssumption, <3>5
    <3> HIDE DEF S
    <3> QED
      BY <3>2, <3>4, <3>6
  <2> QED
    BY <2>1, <2>2
<1>4. \A n \in Nat : n \in S
  <2> HIDE DEF S
  <2> QED
    BY <1>2, <1>3, Induction
<1>5. Good(b, c)
  <2> HIDE DEF Good
  <2> QED
    BY ChainAssumption, <1>4
<1> QED
  BY <1>5

-----------------------------------------------------------------------------
(* What the running operation has still to write.                          *)

Kinds == {"header", "delHeader", "canon", "last", "txs", "delTxs", "receipts",
          "delReceipts", "drop"}

WriteType == [what : Kinds, block : Block \cup {None}, txs : SUBSET Tx]

\* Every write but the deletion of transactions is about a block.
OfBlock(w) == w.what # "drop" => w.block \in Block /\ w.txs = TxsOf[w.block]

\* The blocks, and the transactions, of the writes of a kind among W
Blocks(W, k) == {w.block : w \in {v \in W : v.what = k}}
TxsIn(W, k)  == UNION {w.txs : w \in {v \in W : v.what = k}}

\* The last of the writes that set the head sets it to b.
LastOf(ws, b) ==
    (\E w \in Range(ws) : w.what = "last") =>
       \E i \in DOMAIN ws : /\ ws[i].what = "last" /\ ws[i].block = b
                            /\ \A j \in DOMAIN ws : j > i => ws[j].what # "last"

\* Receipts are deleted before any is written.
ReceiptsLast(ws) ==
    \A i, j \in DOMAIN ws :
        ws[i].what = "receipts" /\ ws[j].what = "delReceipts" => j < i

\* A write of a block has the type of a write, and the block's transactions.
LEMMA WriteFields ==
    ASSUME NEW k \in Kinds, NEW b \in Block
    PROVE  /\ Write(k, b) \in WriteType
           /\ Write(k, b).what = k /\ Write(k, b).block = b /\ Write(k, b).txs = TxsOf[b]
           /\ OfBlock(Write(k, b))
BY ChainAssumption DEF Write, WriteType, OfBlock

\* The writes each helper of the code makes.
LEMMA HelperWrites ==
    ASSUME NEW b \in Block
    PROVE  /\ InsertHeader(b) \in Seq(WriteType)
           /\ Range(InsertHeader(b)) = {Write("canon", b), Write("last", b)}
           /\ StoreBody(b) \in Seq(WriteType)
           /\ Range(StoreBody(b)) = {Write("txs", b), Write("receipts", b)}
           /\ Unlink(b) \in Seq(WriteType)
           /\ Range(Unlink(b)) =
                {Write("delReceipts", b), Write("delTxs", b), Write("delHeader", b)}
           /\ <<Write("header", b)>> \in Seq(WriteType)
           /\ Range(<<Write("header", b)>>) = {Write("header", b)}
\* A pair has the two elements it is written with.
<1>TwoElements. ASSUME NEW S, NEW x \in S, NEW y \in S
                PROVE  <<x, y>> \in Seq(S) /\ Range(<<x, y>>) = {x, y}
  <2> USE <1>TwoElements
  <2>1. DOMAIN <<x, y>> = {1, 2} /\ <<x, y>>[1] = x /\ <<x, y>>[2] = y
    OBVIOUS
  <2> QED
    BY <2>1 DEF Range
\* And a triple has three.
<1>ThreeElements. ASSUME NEW S, NEW x \in S, NEW y \in S, NEW z \in S
                  PROVE  <<x, y, z>> \in Seq(S) /\ Range(<<x, y, z>>) = {x, y, z}
  <2> USE <1>ThreeElements
  <2>1. DOMAIN <<x, y, z>> = {1, 2, 3}
        /\ <<x, y, z>>[1] = x /\ <<x, y, z>>[2] = y /\ <<x, y, z>>[3] = z
    OBVIOUS
  <2> QED
    BY <2>1 DEF Range
<1>1. \A k \in Kinds : Write(k, b) \in WriteType
  BY WriteFields
<1>2. {"header", "delHeader", "canon", "last", "txs", "delTxs", "receipts", "delReceipts"}
        \subseteq Kinds
  BY DEF Kinds
<1> DEFINE W(k) == Write(k, b)
<1>3. \A k \in Kinds : W(k) \in WriteType
  BY <1>1
<1> HIDE DEF W
<1>4. <<W("canon"), W("last")>> \in Seq(WriteType)
      /\ Range(<<W("canon"), W("last")>>) = {W("canon"), W("last")}
  BY <1>2, <1>3, <1>TwoElements
<1>5. <<W("txs"), W("receipts")>> \in Seq(WriteType)
      /\ Range(<<W("txs"), W("receipts")>>) = {W("txs"), W("receipts")}
  BY <1>2, <1>3, <1>TwoElements
<1>6. <<W("delReceipts"), W("delTxs"), W("delHeader")>> \in Seq(WriteType)
      /\ Range(<<W("delReceipts"), W("delTxs"), W("delHeader")>>)
           = {W("delReceipts"), W("delTxs"), W("delHeader")}
  BY <1>2, <1>3, <1>ThreeElements
<1>7. <<W("header")>> \in Seq(WriteType) /\ Range(<<W("header")>>) = {W("header")}
  BY <1>2, <1>3, OneElement
<1> QED
  BY <1>4, <1>5, <1>6, <1>7 DEF W, InsertHeader, StoreBody, Unlink

\* Writes that delete no receipts may follow a list that deletes them first.
LEMMA ReceiptsLastConcat ==
    ASSUME NEW s \in Seq(WriteType), NEW t \in Seq(WriteType),
           ReceiptsLast(s), \A w \in Range(t) : w.what # "delReceipts"
    PROVE  ReceiptsLast(s \o t)
<1> DEFINE st == s \o t
<1>1. /\ Len(s) \in Nat /\ Len(t) \in Nat
      /\ DOMAIN s = 1 .. Len(s) /\ DOMAIN t = 1 .. Len(t)
      /\ DOMAIN st = 1 .. Len(s) + Len(t)
  BY ConcatElements
<1>2. \A i \in DOMAIN st : st[i] = IF i <= Len(s) THEN s[i] ELSE t[i - Len(s)]
  BY ConcatElements
<1> HIDE DEF st
<1>3. ASSUME NEW i \in DOMAIN st, NEW j \in DOMAIN st,
             st[i].what = "receipts", st[j].what = "delReceipts"
      PROVE  j < i
  <2>1. j <= Len(s)
    <3> SUFFICES ASSUME ~(j <= Len(s))
                 PROVE  FALSE
      OBVIOUS
    <3>1. j - Len(s) \in DOMAIN t /\ st[j] = t[j - Len(s)]
      BY <1>1, <1>2
    <3> QED
      BY <1>3, <3>1 DEF Range
  <2>2. st[j] = s[j] /\ j \in DOMAIN s
    BY <1>1, <1>2, <2>1
  <2>3. CASE i <= Len(s)
    <3>1. st[i] = s[i] /\ i \in DOMAIN s
      BY <1>1, <1>2, <2>3
    <3> QED
      BY <1>3, <2>2, <3>1 DEF ReceiptsLast
  <2>4. CASE ~(i <= Len(s))
    BY <1>1, <2>1, <2>4
  <2> QED
    BY <2>3, <2>4
<1> QED
  BY <1>3 DEF st, ReceiptsLast

\* What reorg writes, given the blocks it takes off and puts on the chain.
LEMMA ReorgWritesShape ==
    ASSUME NEW head, NEW b, Gone(head, b) \in Seq(Block), Added(head, b) \in Seq(Block)
    PROVE  LET drop == [what |-> "drop", block |-> None,
                        txs |-> TxDifference(Gone(head, b), Added(head, b))]
           IN  /\ ReorgWrites(head, b) \in Seq(WriteType)
               /\ ReceiptsLast(ReorgWrites(head, b))
               /\ \A w : w \in Range(ReorgWrites(head, b)) <=>
                     \/ \E c \in Range(Gone(head, b)) : w \in Range(Unlink(c))
                     \/ \E c \in Range(Added(head, b)) :
                           w \in Range(InsertHeader(c)) \cup Range(StoreBody(c))
                     \/ w = drop
\* The same, by what is written: insertBHeader2Chain never deletes, and reorg
\* deletes nothing but the records of the block it takes off the chain.
<1>HelperKinds. ASSUME NEW g \in Block
                PROVE  /\ \A w \in Range(Unlink(g)) :
                             w.what \in {"delReceipts", "delTxs", "delHeader"} /\ w.block = g /\ w.txs = TxsOf[g]
                       /\ \A w \in Range(InsertHeader(g)) :
                             w.what \in {"canon", "last"} /\ w.block = g /\ w.txs = TxsOf[g]
                       /\ \A w \in Range(StoreBody(g)) :
                             w.what \in {"txs", "receipts"} /\ w.block = g /\ w.txs = TxsOf[g]
  <2> USE <1>HelperKinds
  <2>1. \A k : Write(k, g).what = k /\ Write(k, g).block = g /\ Write(k, g).txs = TxsOf[g]
    BY DEF Write
  <2>2. /\ Range(InsertHeader(g)) = {Write("canon", g), Write("last", g)}
        /\ Range(StoreBody(g)) = {Write("txs", g), Write("receipts", g)}
        /\ Range(Unlink(g)) =
             {Write("delReceipts", g), Write("delTxs", g), Write("delHeader", g)}
    BY HelperWrites, Zenon
  <2> QED
    BY <2>1, <2>2
\* FlattenSeq takes its elements from the sequences it joins, and has every
\* one of them.
<1>FlattenElements. ASSUME NEW S, NEW seqs \in Seq(Seq(S))
                    PROVE  /\ FlattenSeq(seqs) \in Seq(S)
                           /\ Range(FlattenSeq(seqs)) = UNION {Range(seqs[i]) : i \in DOMAIN seqs}
  <2> USE <1>FlattenElements
  <2>1. Len(seqs) \in Nat /\ DOMAIN seqs = 1 .. Len(seqs)
        /\ \A i \in 1 .. Len(seqs) : seqs[i] \in Seq(S)
    OBVIOUS
  <2> DEFINE L == Len(seqs)
  <2>a. L \in Nat
    BY <2>1
  <2>2. CASE Len(seqs) = 0
    <3>1. FlattenSeq(seqs) = << >> /\ seqs = << >>
      BY <2>1, <2>2 DEF FlattenSeq
    <3> QED
      BY <3>1 DEF Range
  <2>3. CASE Len(seqs) # 0
    <3> DEFINE Joins(f) == f = [i \in 1 .. Len(seqs) |->
                                  IF i = 1 THEN seqs[i] ELSE f[i - 1] \o seqs[i]]
               flatten == CHOOSE f : Joins(f)
               step == [n \in Nat |-> [s \in Seq(S) |->
                          IF n + 2 <= Len(seqs) THEN s \o seqs[n + 2] ELSE s]]
    <3>1. FlattenSeq(seqs) = flatten[Len(seqs)]
      BY <2>3 DEF FlattenSeq
    <3>2. step \in [Nat -> [Seq(S) -> Seq(S)]]
      <4>1. ASSUME NEW n \in Nat, NEW s \in Seq(S), n + 2 <= Len(seqs)
            PROVE  s \o seqs[n + 2] \in Seq(S)
        BY <2>1, <4>1
      <4> QED
        BY <4>1
    <3>3. seqs[1] \in Seq(S)
      BY <2>1, <2>3
    <3>4. PICK g \in [Nat -> Seq(S)] :
             g[0] = seqs[1] /\ \A n \in Nat : g[n + 1] = step[n][g[n]]
      <4> DEFINE V == Seq(S)
                 start == seqs[1]
      <4>1. start \in V /\ step \in [Nat -> [V -> V]]
        BY <3>2, <3>3
      <4>2. \E g : Steps(g, V, start, step)
        <5> HIDE DEF V, step, start
        <5> QED
          BY <4>1, Recursion
      <4> HIDE DEF step
      <4> QED
        BY <4>2, Zenon DEF Steps
    <3> DEFINE f0 == [i \in 1 .. Len(seqs) |-> g[i - 1]]
    <3>5. ASSUME NEW i \in 1 .. Len(seqs), i # 1
          PROVE  g[i - 1] = g[i - 2] \o seqs[i]
      <4>1. i - 2 \in Nat /\ (i - 2) + 1 = i - 1 /\ (i - 2) + 2 = i
        BY <3>5
      <4>2. g[i - 1] = step[i - 2][g[i - 2]]
        <5> HIDE DEF step
        <5> QED
          BY <3>4, <4>1
      <4>3. g[i - 2] \in Seq(S) /\ i - 2 + 2 <= Len(seqs)
        BY <3>4, <4>1
      <4> QED
        BY <4>1, <4>2, <4>3, Zenon
    <3>6. Joins(f0)
      <4>1. ASSUME NEW i \in 1 .. Len(seqs)
            PROVE  f0[i] = IF i = 1 THEN seqs[i] ELSE f0[i - 1] \o seqs[i]
        <5>1. CASE i = 1
          BY <3>4, <5>1
        <5>2. CASE i # 1
          <6>1. i - 1 \in 1 .. Len(seqs) /\ (i - 1) - 1 = i - 2
            BY <5>2
          <6> QED
            BY <3>5, <5>2, <6>1, Zenon
        <5> QED
          BY <5>1, <5>2
      <4> QED
        BY <4>1, Zenon
    <3>7. Joins(flatten)
      <4> HIDE DEF Joins
      <4> QED
        BY <3>6
    <3>8. \A i \in 1 .. Len(seqs) :
             flatten[i] = IF i = 1 THEN seqs[i] ELSE flatten[i - 1] \o seqs[i]
      <4> HIDE DEF flatten
      <4> QED
        BY <3>7, Zenon
    <3> HIDE DEF flatten, Joins, step
    <3> DEFINE Found(n, x) == \E i \in 1 .. n : x \in Range(seqs[i])
               Good == {n \in Nat : n + 1 <= Len(seqs) =>
                          /\ flatten[n + 1] \in Seq(S)
                          /\ \A x : x \in Range(flatten[n + 1]) <=> Found(n + 1, x)}
    <3>9. 0 \in Good
      <4>1. flatten[1] = seqs[1] /\ \A x : Found(1, x) <=> x \in Range(seqs[1])
        BY <2>1, <2>3, <3>8
      <4>2. 0 + 1 = 1
        OBVIOUS
      <4>3. flatten[0 + 1] \in Seq(S) /\ \A x : x \in Range(flatten[0 + 1]) <=> Found(0 + 1, x)
        <5> HIDE DEF Found, Good
        <5> QED
          BY <3>3, <4>1, <4>2, Zenon
      <4> HIDE DEF Found
      <4> QED
        BY <4>3
    <3>10. ASSUME NEW n \in Nat, n \in Good PROVE n + 1 \in Good
      <4>0. CASE ~(n + 2 <= Len(seqs))
        <5>1. (n + 1) + 1 = n + 2
          OBVIOUS
        <5> HIDE DEF Found
        <5> QED
          BY <4>0, <5>1
      <4>1. CASE n + 2 <= Len(seqs)
        <5> DEFINE s == flatten[n + 1]
                   t == seqs[n + 2]
        <5>1. n + 2 \in 1 .. Len(seqs) /\ n + 2 # 1 /\ (n + 2) - 1 = n + 1
              /\ n + 1 <= Len(seqs) /\ (n + 1) + 1 = n + 2
          <6>1. n + 2 <= L
            BY <4>1
          <6>2. n + 2 \in 1 .. L /\ n + 2 # 1 /\ (n + 2) - 1 = n + 1
                /\ n + 1 <= L /\ (n + 1) + 1 = n + 2
            <7> HIDE DEF Good, L
            <7> QED
              BY <6>1, <2>a
          <6> QED
            BY <6>2
        <5>2. flatten[n + 2] = s \o t
          <6> HIDE DEF Good
          <6> QED
            BY <3>8, <5>1, Zenon
        <5>3. s \in Seq(S) /\ \A x : x \in Range(s) <=> Found(n + 1, x)
          <6> HIDE DEF Found
          <6> QED
            BY <3>10, <5>1
        <5>4. t \in Seq(S)
          BY <2>1, <5>1
        <5>5. \A x : Found(n + 2, x) <=> Found(n + 1, x) \/ x \in Range(t)
          <6> HIDE DEF Good
          <6>1. n \in Nat
            OBVIOUS
          <6>2. /\ \A i \in 1 .. n + 2 : i \in 1 .. n + 1 \/ i = n + 2
                /\ \A i \in 1 .. n + 1 : i \in 1 .. n + 2
                /\ n + 2 \in 1 .. n + 2
            BY ONLY <6>1
          <6> QED
            BY <6>2, Zenon
        <5> HIDE DEF s, t, Found
        <5>6. s \o t \in Seq(S) /\ Range(s \o t) = Range(s) \cup Range(t)
          BY <5>3, <5>4, ConcatElements
        <5>7. /\ flatten[(n + 1) + 1] \in Seq(S)
              /\ \A x : x \in Range(flatten[(n + 1) + 1]) <=> Found((n + 1) + 1, x)
          <6> HIDE DEF Good
          <6> QED
            BY <5>1, <5>2, <5>3, <5>5, <5>6, Zenon
        <5> QED
          BY <5>7
      <4> QED
        BY <4>0, <4>1
    <3>11. \A n \in Nat : n \in Good
      <4> HIDE DEF Good
      <4> QED
        BY <3>9, <3>10, Induction, Zenon
    <3>12. Len(seqs) - 1 \in Nat /\ (Len(seqs) - 1) + 1 = Len(seqs)
      BY <2>1, <2>3
    <3>13. /\ flatten[Len(seqs)] \in Seq(S)
           /\ \A x : x \in Range(flatten[Len(seqs)]) <=> Found(Len(seqs), x)
      <4>1. Len(seqs) - 1 \in Good
        <5> HIDE DEF Good
        <5> QED
          BY <3>11, <3>12
      <4> HIDE DEF Found
      <4> QED
        BY <2>1, <3>12, <4>1
    <3> QED
      BY <2>1, <3>1, <3>13, Zenon
  <2> QED
    BY <2>2, <2>3
\* Joining the same kind of list for each of some blocks.
<1>UnlinkAll. ASSUME NEW gone \in Seq(Block)
              PROVE  LET ws == FlattenSeq([i \in DOMAIN gone |-> Unlink(gone[i])])
                     IN  /\ ws \in Seq(WriteType)
                         /\ \A w : w \in Range(ws) <=> \E c \in Range(gone) : w \in Range(Unlink(c))
  <2> USE <1>UnlinkAll
  <2> DEFINE seqs == [i \in DOMAIN gone |-> Unlink(gone[i])]
  <2>1. DOMAIN gone = 1 .. Len(gone) /\ Len(gone) \in Nat
        /\ \A i \in DOMAIN gone : gone[i] \in Block
    OBVIOUS
  <2>2. \A i \in DOMAIN gone : Unlink(gone[i]) \in Seq(WriteType)
    BY <2>1, HelperWrites, Zenon
  <2>3. seqs \in Seq(Seq(WriteType)) /\ DOMAIN seqs = DOMAIN gone
        /\ \A i \in DOMAIN gone : seqs[i] = Unlink(gone[i])
    <3>1. seqs \in [1 .. Len(gone) -> Seq(WriteType)]
      BY <2>1, <2>2
    <3> QED
      BY <2>1, <3>1
  <2> HIDE DEF seqs
  <2>4. /\ FlattenSeq(seqs) \in Seq(WriteType)
        /\ Range(FlattenSeq(seqs)) = UNION {Range(seqs[i]) : i \in DOMAIN seqs}
    BY <2>3, <1>FlattenElements
  <2>5. ASSUME NEW w
        PROVE  w \in Range(FlattenSeq(seqs)) <=> \E c \in Range(gone) : w \in Range(Unlink(c))
    <3>1. w \in Range(FlattenSeq(seqs)) <=> \E i \in DOMAIN gone : w \in Range(Unlink(gone[i]))
      BY <2>3, <2>4
    <3> QED
      BY <3>1 DEF Range
  <2> QED
    BY <2>4, <2>5 DEF seqs
\* What reorg writes for all the blocks it puts on the chain.
<1>LinkAll. ASSUME NEW added \in Seq(Block)
            PROVE  LET ws == FlattenSeq([i \in DOMAIN added |->
                                            InsertHeader(added[i]) \o StoreBody(added[i])])
                   IN  /\ ws \in Seq(WriteType)
                       /\ \A w : w \in Range(ws) <=>
                             \E c \in Range(added) : w \in Range(InsertHeader(c)) \cup Range(StoreBody(c))
  <2> USE <1>LinkAll
  <2> DEFINE One(c) == InsertHeader(c) \o StoreBody(c)
             seqs == [i \in DOMAIN added |-> One(added[i])]
  <2>1. DOMAIN added = 1 .. Len(added) /\ Len(added) \in Nat
        /\ \A i \in DOMAIN added : added[i] \in Block
    OBVIOUS
  <2>2. \A c \in Block : One(c) \in Seq(WriteType)
                           /\ Range(One(c)) = Range(InsertHeader(c)) \cup Range(StoreBody(c))
    <3> TAKE c \in Block
    <3> DEFINE s == InsertHeader(c)
               t == StoreBody(c)
    <3>1. s \in Seq(WriteType) /\ t \in Seq(WriteType)
      BY HelperWrites, Zenon
    <3> HIDE DEF s, t
    <3>2. s \o t \in Seq(WriteType) /\ Range(s \o t) = Range(s) \cup Range(t)
      BY <3>1, ConcatSet
    <3> QED
      BY <3>2 DEF s, t
  <2> HIDE DEF One
  <2>3. seqs \in Seq(Seq(WriteType)) /\ DOMAIN seqs = DOMAIN added
        /\ \A i \in DOMAIN added : seqs[i] = One(added[i])
    <3>1. seqs \in [1 .. Len(added) -> Seq(WriteType)]
      BY <2>1, <2>2
    <3> QED
      BY <2>1, <3>1
  <2> HIDE DEF seqs
  <2>4. /\ FlattenSeq(seqs) \in Seq(WriteType)
        /\ Range(FlattenSeq(seqs)) = UNION {Range(seqs[i]) : i \in DOMAIN seqs}
    BY <2>3, <1>FlattenElements
  <2>5. ASSUME NEW w
        PROVE  w \in Range(FlattenSeq(seqs)) <=> \E c \in Range(added) : w \in Range(One(c))
    <3>1. w \in Range(FlattenSeq(seqs)) <=> \E i \in DOMAIN added : w \in Range(One(added[i]))
      BY <2>3, <2>4
    <3> QED
      BY <3>1 DEF Range
  <2>6. Range(added) \subseteq Block
    BY <2>1 DEF Range
  <2>7. \A w : w \in Range(FlattenSeq(seqs)) <=>
               \E c \in Range(added) : w \in Range(InsertHeader(c)) \cup Range(StoreBody(c))
    BY <2>2, <2>5, <2>6
  <2>8. seqs = [i \in DOMAIN added |-> InsertHeader(added[i]) \o StoreBody(added[i])]
    BY DEF seqs, One
  <2> QED
    BY <2>4, <2>7, <2>8, Zenon
<1> DEFINE gone  == Gone(head, b)
           added == Added(head, b)
           drop  == [what |-> "drop", block |-> None, txs |-> TxDifference(gone, added)]
           U == FlattenSeq([i \in DOMAIN gone |-> Unlink(gone[i])])
           A == FlattenSeq([i \in DOMAIN added |-> InsertHeader(added[i]) \o StoreBody(added[i])])
           D == <<drop>>
<1>1. gone \in Seq(Block) /\ added \in Seq(Block)
      /\ Range(gone) \subseteq Block /\ Range(added) \subseteq Block
  BY DEF Range
<1>2. drop \in WriteType
  <2>1. TxDifference(gone, added) \subseteq Tx
    BY <1>1, ChainAssumption DEF TxDifference
  <2> HIDE DEF gone, added
  <2> QED
    BY <2>1 DEF WriteType, Kinds
<1>3. ReorgWrites(head, b) = (U \o A) \o D
  BY DEF ReorgWrites
<1> HIDE DEF gone, added
<1>4. /\ U \in Seq(WriteType)
      /\ \A w : w \in Range(U) <=> \E c \in Range(gone) : w \in Range(Unlink(c))
  BY <1>1, <1>UnlinkAll, Zenon
<1>5. /\ A \in Seq(WriteType)
      /\ \A w : w \in Range(A) <=>
            \E c \in Range(added) : w \in Range(InsertHeader(c)) \cup Range(StoreBody(c))
  BY <1>1, <1>LinkAll, Zenon
<1> HIDE DEF U, A
<1>6. D \in Seq(WriteType) /\ Range(D) = {drop} /\ drop.what = "drop"
  <2>1. drop.what = "drop"
    OBVIOUS
  <2> HIDE DEF drop
  <2> QED
    BY <1>2, <2>1, OneElement
<1> HIDE DEF D, drop
<1>7. U \o A \in Seq(WriteType) /\ Range(U \o A) = Range(U) \cup Range(A)
  BY <1>4, <1>5, ConcatSet
<1>8. (U \o A) \o D \in Seq(WriteType)
      /\ Range((U \o A) \o D) = Range(U) \cup Range(A) \cup Range(D)
  <2> DEFINE UA == U \o A
  <2>1. UA \in Seq(WriteType) /\ Range(UA) = Range(U) \cup Range(A)
    BY <1>7
  <2> HIDE DEF UA
  <2>2. UA \o D \in Seq(WriteType) /\ Range(UA \o D) = Range(UA) \cup Range(D)
    BY <1>6, <2>1, ConcatSet
  <2> QED
    BY <2>1, <2>2 DEF UA
<1>9. \A w \in Range(U) : w.what # "receipts"
  <2> SUFFICES ASSUME NEW c \in Block, NEW w \in Range(Unlink(c))
               PROVE  w.what # "receipts"
    BY <1>1, <1>4
  <2> QED
    BY <1>HelperKinds
<1>10. \A w \in Range(A) : w.what # "delReceipts"
  <2> SUFFICES ASSUME NEW c \in Block,
                      NEW w \in Range(InsertHeader(c)) \cup Range(StoreBody(c))
               PROVE  w.what # "delReceipts"
    BY <1>1, <1>5
  <2> QED
    BY <1>HelperKinds
<1>11. ReceiptsLast(U)
  BY <1>9 DEF ReceiptsLast, Range
<1>12. ReceiptsLast(U \o A)
  BY <1>4, <1>5, <1>10, <1>11, ReceiptsLastConcat
<1>13. ReceiptsLast((U \o A) \o D)
  BY <1>6, <1>7, <1>12, ReceiptsLastConcat, Zenon
<1>14. \A w : w \in Range((U \o A) \o D) <=>
              \/ \E c \in Range(gone) : w \in Range(Unlink(c))
              \/ \E c \in Range(added) :
                    w \in Range(InsertHeader(c)) \cup Range(StoreBody(c))
              \/ w = drop
  BY <1>4, <1>5, <1>6, <1>8
<1> QED
  BY <1>3, <1>8, <1>13, <1>14 DEF gone, added, drop

\* The writes with which writeBlock stores b.
LEMMA WritesShape ==
    ASSUME NEW b \in Block,
           NeedsReorg(b) => Gone(cur, b) \in Seq(Block) /\ Added(cur, b) \in Seq(Block)
    PROVE  /\ WritesOf(b) \in Seq(WriteType)
           /\ ReceiptsLast(WritesOf(b)) /\ LastOf(WritesOf(b), b)
           /\ \A w : w \in Range(WritesOf(b)) <=>
                 \/ NeedsReorg(b) /\ w \in Range(ReorgWrites(cur, b))
                 \/ Higher(b) /\ w \in Range(InsertHeader(b))
                 \/ w \in Range(StoreBody(b))
                 \/ w = Write("header", b)
\* A list of writes put after another one.
<1>LastOfConcat. ASSUME NEW s \in Seq(WriteType), NEW t \in Seq(WriteType), NEW z
                 PROVE  /\ LastOf(t, z) /\ (\E w \in Range(t) : w.what = "last") => LastOf(s \o t, z)
                        /\ LastOf(s, z) /\ (\A w \in Range(t) : w.what # "last") => LastOf(s \o t, z)
  <2> USE <1>LastOfConcat
  <2> DEFINE st == s \o t
  <2>1. /\ Len(s) \in Nat /\ Len(t) \in Nat
        /\ DOMAIN s = 1 .. Len(s) /\ DOMAIN t = 1 .. Len(t)
        /\ DOMAIN st = 1 .. Len(s) + Len(t)
    BY ConcatElements
  <2>2. \A i \in DOMAIN st : st[i] = IF i <= Len(s) THEN s[i] ELSE t[i - Len(s)]
    BY ConcatElements
  <2>3. Range(st) = Range(s) \cup Range(t)
    BY ConcatSet
  <2> HIDE DEF st
  <2>4. ASSUME LastOf(t, z), \E w \in Range(t) : w.what = "last" PROVE LastOf(st, z)
    <3>1. PICK i \in DOMAIN t : /\ t[i].what = "last" /\ t[i].block = z
                                /\ \A j \in DOMAIN t : j > i => t[j].what # "last"
      BY <2>4 DEF LastOf
    <3>2. Len(s) + i \in DOMAIN st /\ st[Len(s) + i] = t[i]
      BY <2>1, <2>2
    <3>3. ASSUME NEW j \in DOMAIN st, j > Len(s) + i PROVE st[j].what # "last"
      <4>1. ~(j <= Len(s)) /\ j - Len(s) \in DOMAIN t /\ j - Len(s) > i
        BY <2>1, <3>3
      <4> QED
        BY <2>2, <3>1, <4>1
    <3> QED
      BY <3>1, <3>2, <3>3 DEF LastOf
  <2>5. ASSUME LastOf(s, z), \A w \in Range(t) : w.what # "last" PROVE LastOf(st, z)
    <3> SUFFICES ASSUME \E w \in Range(st) : w.what = "last"
                 PROVE  \E i \in DOMAIN st : /\ st[i].what = "last" /\ st[i].block = z
                             /\ \A j \in DOMAIN st : j > i => st[j].what # "last"
      BY DEF LastOf
    <3>1. \E w \in Range(s) : w.what = "last"
      BY <2>3, <2>5
    <3>2. PICK i \in DOMAIN s : /\ s[i].what = "last" /\ s[i].block = z
                                /\ \A j \in DOMAIN s : j > i => s[j].what # "last"
      BY <2>5, <3>1 DEF LastOf
    <3>3. i \in DOMAIN st /\ st[i] = s[i]
      BY <2>1, <2>2
    <3>4. ASSUME NEW j \in DOMAIN st, j > i PROVE st[j].what # "last"
      <4>1. CASE j <= Len(s)
        BY <2>1, <2>2, <3>2, <3>4, <4>1
      <4>2. CASE ~(j <= Len(s))
        <5>1. j - Len(s) \in DOMAIN t /\ st[j] = t[j - Len(s)]
          BY <2>1, <2>2, <4>2
        <5> QED
          BY <2>5, <5>1 DEF Range
      <4> QED
        BY <4>1, <4>2
    <3> QED
      BY <3>2, <3>3, <3>4
  <2> QED
    BY <2>4, <2>5 DEF st
<1> DEFINE R == IF NeedsReorg(b) THEN ReorgWrites(cur, b) ELSE <<>>
           H == IF Higher(b) THEN InsertHeader(b) ELSE <<>>
           S == StoreBody(b)
           L == <<Write("header", b)>>
<1>1. WritesOf(b) = ((R \o H) \o S) \o L
  BY DEF WritesOf
<1>2. <<>> \in Seq(WriteType) /\ Range(<<>>) = {}
  BY DEF Range
<1>3. /\ R \in Seq(WriteType) /\ ReceiptsLast(R)
      /\ \A w : w \in Range(R) <=> NeedsReorg(b) /\ w \in Range(ReorgWrites(cur, b))
  <2>1. CASE NeedsReorg(b)
    <3>1. ReorgWrites(cur, b) \in Seq(WriteType) /\ ReceiptsLast(ReorgWrites(cur, b))
      BY <2>1, ReorgWritesShape
    <3> QED
      BY <2>1, <3>1
  <2>2. CASE ~NeedsReorg(b)
    BY <1>2, <2>2 DEF ReceiptsLast
  <2> QED
    BY <2>1, <2>2
<1>4. /\ H \in Seq(WriteType) /\ S \in Seq(WriteType) /\ L \in Seq(WriteType)
      /\ \A w : w \in Range(H) <=> Higher(b) /\ w \in Range(InsertHeader(b))
      /\ Range(S) = {Write("txs", b), Write("receipts", b)} /\ Range(L) = {Write("header", b)}
      /\ Range(H) \subseteq {Write("canon", b), Write("last", b)}
  BY <1>2, HelperWrites, Zenon
<1>5. /\ Write("canon", b).what = "canon" /\ Write("last", b).what = "last"
      /\ Write("txs", b).what = "txs" /\ Write("receipts", b).what = "receipts"
      /\ Write("header", b).what = "header"
  BY WriteFields DEF Kinds
<1>6. Higher(b) => LastOf(H, b) /\ \E w \in Range(H) : w.what = "last"
  <2> SUFFICES ASSUME Higher(b)
               PROVE  LastOf(H, b) /\ \E w \in Range(H) : w.what = "last"
    OBVIOUS
  <2>1. H = <<Write("canon", b), Write("last", b)>>
    BY DEF InsertHeader
  <2>2. Write("last", b).block = b
    BY DEF Write
  <2> HIDE DEF H
  <2>3. 2 \in DOMAIN H /\ H[2] = Write("last", b) /\ \A j \in DOMAIN H : ~(j > 2)
    BY <2>1
  <2> QED
    BY <1>5, <2>2, <2>3 DEF LastOf, Range
<1>7. ~Higher(b) => (\A w \in Range(R) : w.what # "last") /\ (\A w \in Range(H) : w.what # "last")
  BY <1>3, <1>4 DEF NeedsReorg
<1> HIDE DEF R, H, S, L
<1> DEFINE RH == R \o H
           RHS == RH \o S
<1>8. RH \in Seq(WriteType) /\ Range(RH) = Range(R) \cup Range(H) /\ ReceiptsLast(RH)
  <2>1. \A w \in Range(H) : w.what # "delReceipts"
    BY <1>4, <1>5
  <2>2. RH \in Seq(WriteType)
    BY <1>3, <1>4
  <2>3. Range(RH) = Range(R) \cup Range(H)
    BY <1>3, <1>4, ConcatSet
  <2>4. ReceiptsLast(RH)
    BY <1>3, <1>4, <2>1, ReceiptsLastConcat
  <2> QED
    BY <2>2, <2>3, <2>4
<1>9. LastOf(RH, b)
  <2>1. CASE Higher(b)
    BY <1>3, <1>4, <1>6, <2>1, <1>LastOfConcat
  <2>2. CASE ~Higher(b)
    BY <1>7, <1>8, <2>2 DEF LastOf
  <2> QED
    BY <2>1, <2>2
<1> HIDE DEF RH
<1>10. RHS \in Seq(WriteType) /\ Range(RHS) = Range(RH) \cup Range(S)
       /\ ReceiptsLast(RHS) /\ LastOf(RHS, b)
  <2>1. \A w \in Range(S) : w.what # "delReceipts" /\ w.what # "last"
    BY <1>4, <1>5
  <2>2. RHS \in Seq(WriteType)
    BY <1>4, <1>8
  <2>3. Range(RHS) = Range(RH) \cup Range(S)
    BY <1>4, <1>8, ConcatSet
  <2>4. ReceiptsLast(RHS)
    BY <1>4, <1>8, <2>1, ReceiptsLastConcat
  <2>5. LastOf(RHS, b)
    BY <1>4, <1>8, <1>9, <2>1, <1>LastOfConcat
  <2> QED
    BY <2>2, <2>3, <2>4, <2>5
<1> HIDE DEF RHS
<1>11. RHS \o L \in Seq(WriteType) /\ Range(RHS \o L) = Range(RHS) \cup Range(L)
       /\ ReceiptsLast(RHS \o L) /\ LastOf(RHS \o L, b)
  <2>1. \A w \in Range(L) : w.what # "delReceipts" /\ w.what # "last"
    BY <1>4, <1>5
  <2>2. RHS \o L \in Seq(WriteType)
    BY <1>4, <1>10
  <2>3. Range(RHS \o L) = Range(RHS) \cup Range(L)
    BY <1>4, <1>10, ConcatSet
  <2>4. ReceiptsLast(RHS \o L)
    BY <1>4, <1>10, <2>1, ReceiptsLastConcat
  <2>5. LastOf(RHS \o L, b)
    BY <1>4, <1>10, <2>1, <1>LastOfConcat
  <2> QED
    BY <2>2, <2>3, <2>4, <2>5
<1>12. WritesOf(b) = RHS \o L
  BY <1>1 DEF RHS, RH
<1>13. \A w : w \in Range(RHS \o L) <=> w \in Range(R) \/ w \in Range(H) \/ w \in Range(S)
                                        \/ w = Write("header", b)
  BY <1>4, <1>8, <1>10, <1>11
<1> QED
  BY <1>3, <1>4, <1>11, <1>12, <1>13 DEF S

-----------------------------------------------------------------------------
(* The point where two chains meet.                                        *)

\* What reorg takes off the chain of the head and puts on it, for a block one
\* above the head on another branch, is exactly what the two chains do not
\* have in common; the blocks put on it, but for the new block and its parent,
\* are read from the store before anything is written.
LEMMA Fork ==
    ASSUME NEW head \in Block, NEW b \in Block \ {Genesis},
           Height[b] = Height[head] + 1, Parent[b] # head
    PROVE  /\ Gone(head, b) \in Seq(Block) /\ Range(Gone(head, b)) = Anc(head) \ Anc(b)
           /\ Added(head, b) \in Seq(Block) /\ Range(Added(head, b)) = Anc(b) \ Anc(head)
           /\ ReorgPossible(head, b) =>
                 \A c \in Anc(b) \ Anc(head) : c \in header \cup {b, Parent[b]}
\* Two chains of one height meet, at the genesis block if not before, so the
\* walk down both of them in step that reorg makes ends.
<1>ForkPoint. ASSUME NEW x \in Block, NEW y \in Block, Height[x] = Height[y]
              PROVE  LET d == ForkDepth(Chain[x], Chain[y])
                     IN  /\ d \in 1 .. Height[x] + 1
                         /\ Chain[x][d] = Chain[y][d]
                         /\ \A i \in 1 .. d - 1 : Chain[x][i] # Chain[y][i]
  <2> USE <1>ForkPoint
  <2> DEFINE h == Height[x]
             old == Chain[x]
             new == Chain[y]
             D == {d \in 1 .. h + 1 : old[d] = new[d]}
  <2>1. h \in Nat /\ Len(old) = h + 1
        /\ \A i \in 1 .. h + 1 : /\ old[i] \in Block /\ Height[old[i]] = h - i + 1
                                 /\ new[i] \in Block /\ Height[new[i]] = h - i + 1
    <3>1. h \in Nat
      BY ChainAssumption
    <3>2. Len(old) = h + 1 /\ \A i \in 1 .. h + 1 : old[i] \in Block /\ Height[old[i]] = h - i + 1
      BY ChainShape
    <3>3. \A i \in 1 .. h + 1 : new[i] \in Block /\ Height[new[i]] = h - i + 1
      BY ChainShape
    <3> QED
      BY ONLY <3>1, <3>2, <3>3, Zenon
  <2> HIDE DEF h, old, new
  <2>2. \A c \in Block : Height[c] = 0 => c = Genesis
    BY ChainAssumption
  <2>3. h + 1 \in D
    <3>1. h + 1 \in 1 .. h + 1 /\ h - (h + 1) + 1 = 0
      BY <2>1
    <3>2. old[h + 1] = Genesis /\ new[h + 1] = Genesis
      BY <2>1, <2>2, <3>1
    <3> QED
      BY <3>1, <3>2
  <2>4. PICK m \in D : \A n \in D : m <= n
    <3>1. D \in SUBSET Nat
      <4>1. \A d \in 1 .. h + 1 : d \in Nat
        BY <2>1
      <4> QED
        BY <4>1
    <3>2. D # {}
      BY <2>3
    <3> HIDE DEF D
    <3> QED
      BY <3>1, <3>2, LeastNatural
  <2>5. m \in 1 .. Len(old) /\ old[m] = new[m] /\ \A i \in 1 .. m - 1 : old[i] # new[i]
    <3>1. m \in 1 .. h + 1 /\ old[m] = new[m]
      BY <2>4
    <3>2. ASSUME NEW i \in 1 .. m - 1 PROVE old[i] # new[i]
      <4>1. i \in 1 .. h + 1 /\ ~(m <= i)
        BY <2>1, <3>1
      <4> QED
        BY <2>4, <4>1
    <3> QED
      BY <2>1, <3>1, <3>2, Zenon
  <2>6. LET d == ForkDepth(old, new)
        IN  d \in 1 .. Len(old) /\ old[d] = new[d] /\ \A i \in 1 .. d - 1 : old[i] # new[i]
    BY <2>5, Zenon DEF ForkDepth
  <2> QED
    BY <2>1, <2>6 DEF h, old, new
\* Above the point where they meet, a chain has the ancestors the other one
\* has not.
<1>AboveFork. ASSUME NEW x \in Block, NEW y \in Block, Height[x] = Height[y],
                     NEW d \in 1 .. Height[x] + 1,
                     Chain[x][d] = Chain[y][d], \A i \in 1 .. d - 1 : Chain[x][i] # Chain[y][i]
              PROVE  /\ SubSeq(Chain[x], 1, d - 1) \in Seq(Block)
                     /\ Range(SubSeq(Chain[x], 1, d - 1)) = {Chain[x][i] : i \in 1 .. d - 1}
                     /\ {Chain[x][i] : i \in 1 .. d - 1} = Anc(x) \ Anc(y)
  <2> USE <1>AboveFork
  <2> DEFINE h == Height[x]
             s == Chain[x]
             t == Chain[y]
  <2>1. /\ h \in Nat /\ d \in 1 .. h + 1
        /\ s \in Seq(Block) /\ Len(s) = h + 1 /\ DOMAIN s = 1 .. h + 1 /\ DOMAIN t = 1 .. h + 1
        /\ \A i \in 1 .. h + 1 : s[i] \in Block /\ Height[s[i]] = h - i + 1
        /\ \A i \in 1 .. h + 1 : t[i] \in Block /\ Height[t[i]] = h - i + 1
    <3>1. h \in Nat
      BY ChainAssumption
    <3>2. /\ s \in Seq(Block) /\ Len(s) = h + 1 /\ DOMAIN s = 1 .. h + 1
          /\ \A i \in 1 .. h + 1 : s[i] \in Block /\ Height[s[i]] = h - i + 1
      BY ChainShape
    <3>3. /\ DOMAIN t = 1 .. h + 1
          /\ \A i \in 1 .. h + 1 : t[i] \in Block /\ Height[t[i]] = h - i + 1
      BY ChainShape
    <3> QED
      BY <3>1, <3>2, <3>3
  <2>2. /\ SubSeq(s, 1, d - 1) \in Seq(Block)
        /\ Range(SubSeq(s, 1, d - 1)) = {s[i] : i \in 1 .. d - 1}
    <3> HIDE DEF s, t, h
    <3>1. /\ SubSeq(s, 1, d - 1) \in Seq(Block) /\ DOMAIN SubSeq(s, 1, d - 1) = 1 .. d - 1
          /\ \A i \in 1 .. d - 1 : SubSeq(s, 1, d - 1)[i] = s[i]
      BY <2>1
    <3> QED
      BY <3>1, Zenon DEF Range
  <2>3. ASSUME NEW i \in 1 .. h + 1 PROVE s[i] \in Anc(x) /\ t[i] \in Anc(y)
    BY <2>1, Zenon DEF Anc, Range
  <2>4. ASSUME NEW c \in Anc(x)
        PROVE  \E i \in 1 .. h + 1 : c = s[i]
    BY <2>1 DEF Anc, Range
  <2>5. ASSUME NEW i \in 1 .. h + 1, s[i] \in Anc(y) PROVE s[i] = t[i]
    <3>1. s[i] = Chain[y][Height[y] - Height[s[i]] + 1]
      BY <2>1, <2>5, AncestorHeight, Zenon
    <3>2. Height[y] - Height[s[i]] + 1 = i
      <4>1. Height[y] = h /\ Height[s[i]] = h - i + 1
        BY <2>1, Zenon
      <4>2. h \in Nat /\ i \in Int
        BY <2>1
      <4> HIDE DEF h, s, t
      <4> QED
        BY ONLY <4>1, <4>2
    <3>3. Chain[y] = t
      OBVIOUS
    <3> QED
      BY ONLY <3>1, <3>2, <3>3, Zenon
  <2>6. ASSUME NEW i \in d .. h + 1 PROVE s[i] \in Anc(y)
    <3>1. i \in 1 .. h + 1 /\ Height[s[i]] <= Height[s[d]]
      <4>1. i \in 1 .. h + 1 /\ h - i + 1 <= h - d + 1
        <5> HIDE DEF h
        <5> QED
          BY <2>1
      <4>2. Height[s[i]] = h - i + 1 /\ Height[s[d]] = h - d + 1
        BY <2>1, <4>1
      <4> QED
        BY <4>1, <4>2
    <3>2. s[i] \in Anc(x) /\ s[d] \in Anc(x) /\ s[d] \in Anc(y)
      BY <2>1, <2>3, <3>1
    <3>3. s[i] \in Anc(s[d])
      BY <3>1, <3>2, AncestorsBelow
    <3> QED
      BY <3>2, <3>3, AncestorsBelow
  <2>7. ASSUME NEW i \in 1 .. d - 1 PROVE s[i] \in Anc(x) \ Anc(y)
    <3>1. i \in 1 .. h + 1
      BY <2>1
    <3> QED
      BY <2>3, <2>5, <3>1
  <2>8. ASSUME NEW c \in Anc(x) \ Anc(y) PROVE \E i \in 1 .. d - 1 : c = s[i]
    <3>1. PICK i \in 1 .. h + 1 : c = s[i]
      BY <2>4
    <3>2. ~(i \in d .. h + 1)
      BY <2>6, <3>1
    <3>3. i \in 1 .. d - 1
      BY <2>1, <3>2
    <3> QED
      BY <3>1, <3>3
  <2> QED
    BY <2>2, <2>7, <2>8
<1> DEFINE h == Height[head]
           p == Parent[b]
           old == Chain[head]
           new == Chain[p]
           d == ForkDepth(old, new)
<1>1. h \in Nat /\ p \in Block /\ Height[p] = h /\ Height[b] = h + 1
  BY ChainAssumption
<1>2. /\ old \in Seq(Block) /\ Len(old) = h + 1
      /\ new \in Seq(Block) /\ Len(new) = h + 1
  BY <1>1, ChainShape
<1>3. old[1] = head /\ new[1] = p
  BY <1>1, AncestorsStep
<1>4. Level(head, b) = new
  <2> HIDE DEF new
  <2>1. Chain[b] = <<b>> \o new
    BY ChainEquation, Zenon DEF new
  <2>2. Level(head, b) = SubSeq(<<b>> \o new, 2, h + 2)
    <3>1. Len(<<b>> \o new) = h + 2
      BY <1>1, <1>2
    <3>2. Height[b] - Height[head] + 1 = 2
      BY <1>1
    <3> QED
      BY <2>1, <3>1, <3>2 DEF Level
  <2>3. SubSeq(<<b>> \o new, 2, h + 2) = new
    <3> DEFINE r == SubSeq(<<b>> \o new, 2, h + 2)
    <3> HIDE DEF h
    <3>1. r \in Seq(Block) /\ Len(r) = h + 1
      BY <1>1, <1>2
    <3>2. \A i \in 1 .. h + 1 : r[i] = new[i]
      BY <1>1, <1>2
    <3> HIDE DEF r
    <3>3. r = new
      BY <1>2, <3>1, <3>2, SameElements
    <3> QED
      BY <3>3, Zenon DEF r
  <2> QED
    BY <2>2, <2>3, Zenon
<1>5. /\ d \in 1 .. h + 1 /\ old[d] = new[d]
      /\ \A i \in 1 .. d - 1 : old[i] # new[i]
  <2> HIDE DEF p
  <2> QED
    BY <1>1, <1>ForkPoint
<1>6. d # 1
  BY <1>3, <1>5
<1>7. /\ SubSeq(old, 1, d - 1) \in Seq(Block)
      /\ Range(SubSeq(old, 1, d - 1)) = Anc(head) \ Anc(p)
  <2> HIDE DEF p, d
  <2>1. /\ head \in Block /\ p \in Block /\ Height[head] = Height[p]
        /\ d \in 1 .. Height[head] + 1 /\ Chain[head][d] = Chain[p][d]
        /\ \A i \in 1 .. d - 1 : Chain[head][i] # Chain[p][i]
    BY <1>1, <1>5
  <2>2. /\ SubSeq(Chain[head], 1, d - 1) \in Seq(Block)
        /\ Range(SubSeq(Chain[head], 1, d - 1)) = {Chain[head][i] : i \in 1 .. d - 1}
        /\ {Chain[head][i] : i \in 1 .. d - 1} = Anc(head) \ Anc(p)
    BY ONLY <2>1, <1>AboveFork, Zenon
  <2> QED
    BY <2>2
<1>8. /\ SubSeq(new, 1, d - 1) \in Seq(Block)
      /\ Range(SubSeq(new, 1, d - 1)) = Anc(p) \ Anc(head)
      /\ {new[i] : i \in 1 .. d - 1} = Anc(p) \ Anc(head)
  <2> HIDE DEF p, d
  <2>1. /\ head \in Block /\ p \in Block /\ Height[p] = Height[head]
        /\ d \in 1 .. Height[p] + 1 /\ Chain[p][d] = Chain[head][d]
        /\ \A i \in 1 .. d - 1 : Chain[p][i] # Chain[head][i]
    BY <1>1, <1>5
  <2>2. /\ SubSeq(Chain[p], 1, d - 1) \in Seq(Block)
        /\ Range(SubSeq(Chain[p], 1, d - 1)) = {Chain[p][i] : i \in 1 .. d - 1}
        /\ {Chain[p][i] : i \in 1 .. d - 1} = Anc(p) \ Anc(head)
    BY ONLY <2>1, <1>AboveFork, Zenon
  <2> QED
    BY <2>2
<1>9. Anc(b) = {b} \cup Anc(p) /\ b \notin Anc(head)
  <2>1. ~(Height[b] <= Height[head])
    BY <1>1
  <2> QED
    BY <2>1, AncestorsStep, AncestorHeight
<1>10. Gone(head, b) = SubSeq(old, 1, d - 1)
  BY <1>4 DEF Gone
<1>11. Added(head, b) = <<b>> \o SubSeq(new, 1, d - 1)
  <2>1. [i \in 1 .. Height[b] - Height[head] |-> b] = <<b>>
    <3>1. Height[b] - Height[head] = 1
      BY <1>1
    <3>2. [i \in 1 .. 1 |-> b] = <<b>>
      OBVIOUS
    <3> QED
      BY <3>1, <3>2
  <2> QED
    BY <1>4, <2>1, Zenon DEF Added
<1>12. /\ Added(head, b) \in Seq(Block)
       /\ Range(Added(head, b)) = {b} \cup (Anc(p) \ Anc(head))
  <2> DEFINE s == SubSeq(new, 1, d - 1)
  <2>1. s \in Seq(Block) /\ Range(s) = Anc(p) \ Anc(head) /\ Added(head, b) = <<b>> \o s
    BY <1>8, <1>11
  <2> HIDE DEF s, p
  <2> QED
    BY <2>1, ConsElements
<1>13. ASSUME ReorgPossible(head, b), NEW c \in Anc(b) \ Anc(head)
       PROVE  c \in header \cup {b, p}
  <2>1. CASE c = b
    BY <2>1
  <2>2. CASE c # b
    <3>1. PICK i \in 1 .. d - 1 : c = new[i]
      BY <1>8, <1>9, <2>2
    <3>2. CASE i = 1
      BY <1>3, <3>1, <3>2
    <3>3. CASE i # 1
      <4>1. i \in 2 .. d
        BY <1>5, <3>3
      <4>2. \A j \in 2 .. d : new[j] \in header
        BY <1>4, <1>13 DEF ReorgPossible
      <4> QED
        BY <3>1, <4>1, <4>2
    <3> QED
      BY <3>2, <3>3
  <2> QED
    BY <2>1, <2>2
<1> QED
  BY <1>7, <1>9, <1>10, <1>12, <1>13

\* The blocks that storing b takes off the chain of the head and puts on it
Off(b) == IF Higher(b) THEN Anc(cur) \ Anc(b) ELSE {}
On(b)  == IF Higher(b) THEN Anc(b) \ Anc(cur) ELSE {}

TxsOfAll(B) == UNION {TxsOf[c] : c \in B}

\* The writes that store a block at most one above the head, one by one.
LEMMA WritesMembers ==
    ASSUME NEW b \in Block \ {Genesis}, cur \in Block, Height[b] <= Height[cur] + 1
    PROVE  /\ WritesOf(b) \in Seq(WriteType)
           /\ ReceiptsLast(WritesOf(b)) /\ LastOf(WritesOf(b), b)
           /\ Off(b) \subseteq Block /\ On(b) \subseteq Block
           /\ \A w : w \in Range(WritesOf(b)) <=>
                 \/ \E c \in Off(b) : w \in {Write("delReceipts", c), Write("delTxs", c),
                                            Write("delHeader", c)}
                 \/ \E c \in On(b) : w \in {Write("canon", c), Write("last", c)}
                 \/ \E c \in On(b) \cup {b} : w \in {Write("txs", c), Write("receipts", c)}
                 \/ w = Write("header", b)
                 \/ /\ NeedsReorg(b)
                    /\ w = [what |-> "drop", block |-> None,
                            txs |-> TxsOfAll(Off(b)) \ TxsOfAll(On(b))]
<1> DEFINE drop == [what |-> "drop", block |-> None,
                    txs |-> TxDifference(Gone(cur, b), Added(cur, b))]
<1>1. Higher(b) => Height[b] = Height[cur] + 1
  BY ChainAssumption DEF Higher
<1>2. NeedsReorg(b) => /\ Gone(cur, b) \in Seq(Block) /\ Range(Gone(cur, b)) = Off(b)
                       /\ Added(cur, b) \in Seq(Block) /\ Range(Added(cur, b)) = On(b)
  BY <1>1, Fork DEF NeedsReorg, Off, On
<1>3. b # Genesis /\ Anc(b) = {b} \cup Anc(Parent[b]) /\ Anc(b) \subseteq Block
      /\ Anc(cur) \subseteq Block
  BY AncestorsStep
<1>4. Off(b) \subseteq Block /\ On(b) \subseteq Block
  BY <1>3 DEF Off, On
<1>5. Higher(b) => b \in On(b)
  <2> SUFFICES ASSUME Higher(b)
               PROVE  b \notin Anc(cur)
    BY <1>3 DEF On
  <2>1. ~(Height[b] <= Height[cur])
    BY ChainAssumption, <1>1
  <2> QED
    BY <2>1, AncestorHeight
<1>6. Higher(b) /\ ~NeedsReorg(b) => Off(b) = {} /\ On(b) = {b}
  BY <1>3, <1>5 DEF NeedsReorg, Off, On
<1>7. ~Higher(b) => Off(b) = {} /\ On(b) = {} /\ ~NeedsReorg(b)
  BY DEF NeedsReorg, Off, On
<1>8. /\ WritesOf(b) \in Seq(WriteType)
      /\ ReceiptsLast(WritesOf(b)) /\ LastOf(WritesOf(b), b)
      /\ \A w : w \in Range(WritesOf(b)) <=>
            \/ NeedsReorg(b) /\ w \in Range(ReorgWrites(cur, b))
            \/ Higher(b) /\ w \in Range(InsertHeader(b))
            \/ w \in Range(StoreBody(b))
            \/ w = Write("header", b)
  BY <1>2, WritesShape
<1>9. NeedsReorg(b) =>
        \A w : w \in Range(ReorgWrites(cur, b)) <=>
            \/ \E c \in Off(b) : w \in Range(Unlink(c))
            \/ \E c \in On(b) : w \in Range(InsertHeader(c)) \cup Range(StoreBody(c))
            \/ w = drop
  <2> SUFFICES ASSUME NeedsReorg(b), NEW w
               PROVE  w \in Range(ReorgWrites(cur, b)) <=>
                        \/ \E c \in Off(b) : w \in Range(Unlink(c))
                        \/ \E c \in On(b) : w \in Range(InsertHeader(c)) \cup Range(StoreBody(c))
                        \/ w = drop
    OBVIOUS
  <2>1. w \in Range(ReorgWrites(cur, b)) <=>
            \/ \E c \in Range(Gone(cur, b)) : w \in Range(Unlink(c))
            \/ \E c \in Range(Added(cur, b)) :
                  w \in Range(InsertHeader(c)) \cup Range(StoreBody(c))
            \/ w = drop
    BY <1>2, ReorgWritesShape, Zenon
  <2> QED
    BY <1>2, <2>1
<1>10. NeedsReorg(b) => drop = [what |-> "drop", block |-> None,
                               txs |-> TxsOfAll(Off(b)) \ TxsOfAll(On(b))]
  <2>1. TxDifference(Gone(cur, b), Added(cur, b))
          = TxsOfAll(Range(Gone(cur, b))) \ TxsOfAll(Range(Added(cur, b)))
    BY DEF TxDifference, TxsOfAll
  <2> QED
    BY <1>2, <2>1
<1>11. \A c \in Block : /\ Range(InsertHeader(c)) = {Write("canon", c), Write("last", c)}
                        /\ Range(StoreBody(c)) = {Write("txs", c), Write("receipts", c)}
                        /\ Range(Unlink(c)) =
                             {Write("delReceipts", c), Write("delTxs", c), Write("delHeader", c)}
  BY HelperWrites, Zenon
<1> HIDE DEF drop
<1>12. ASSUME NEW w
       PROVE  w \in Range(WritesOf(b)) <=>
                 \/ \E c \in Off(b) : w \in {Write("delReceipts", c), Write("delTxs", c),
                                            Write("delHeader", c)}
                 \/ \E c \in On(b) : w \in {Write("canon", c), Write("last", c)}
                 \/ \E c \in On(b) \cup {b} : w \in {Write("txs", c), Write("receipts", c)}
                 \/ w = Write("header", b)
                 \/ NeedsReorg(b) /\ w = drop
  <2>1. CASE NeedsReorg(b)
    <3>1. Higher(b)
      BY <2>1 DEF NeedsReorg
    <3>2. w \in Range(ReorgWrites(cur, b)) <=>
            \/ \E c \in Off(b) : w \in {Write("delReceipts", c), Write("delTxs", c),
                                       Write("delHeader", c)}
            \/ \E c \in On(b) : w \in {Write("canon", c), Write("last", c)}
                                       \cup {Write("txs", c), Write("receipts", c)}
            \/ w = drop
      BY <1>4, <1>9, <1>11, <2>1
    <3>3. w \in Range(WritesOf(b)) <=>
            \/ w \in Range(ReorgWrites(cur, b))
            \/ w \in {Write("canon", b), Write("last", b)}
            \/ w \in {Write("txs", b), Write("receipts", b)}
            \/ w = Write("header", b)
      BY <1>8, <1>11, <2>1, <3>1
    <3> QED
      BY <1>5, <2>1, <3>1, <3>2, <3>3
  <2>2. CASE ~NeedsReorg(b)
    BY <1>6, <1>7, <1>8, <1>11, <2>2
  <2> QED
    BY <2>1, <2>2
<1> QED
  BY <1>4, <1>8, <1>10, <1>12, Zenon

\* The same, by what is written.
LEMMA WritesBlocks ==
    ASSUME NEW b \in Block \ {Genesis}, cur \in Block, Height[b] <= Height[cur] + 1
    PROVE  LET W == Range(WritesOf(b))
           IN  /\ \A w \in W : OfBlock(w)
               /\ Blocks(W, "header") = {b}
               /\ Blocks(W, "delHeader") = Off(b) /\ Blocks(W, "delTxs") = Off(b)
               /\ Blocks(W, "canon") = On(b) /\ Blocks(W, "last") = On(b)
               /\ Blocks(W, "txs") = On(b) \cup {b}
               /\ TxsIn(W, "delReceipts") = TxsOfAll(Off(b))
               /\ TxsIn(W, "txs") = TxsOfAll(On(b) \cup {b})
               /\ TxsIn(W, "receipts") = TxsOfAll(On(b) \cup {b})
               /\ TxsIn(W, "drop") \cap TxsOfAll(On(b)) = {}
               /\ TxsIn(W, "drop") \subseteq TxsOfAll(Off(b))
<1> DEFINE W == Range(WritesOf(b))
           O == Off(b)
           N == On(b)
           M == On(b) \cup {b}
           drop == [what |-> "drop", block |-> None,
                    txs |-> TxsOfAll(O) \ TxsOfAll(N)]
<1>1. /\ O \subseteq Block /\ N \subseteq Block /\ M \subseteq Block
      /\ \A w : w \in W <=>
                 \/ \E c \in O : w \in {Write("delReceipts", c), Write("delTxs", c),
                                            Write("delHeader", c)}
                 \/ \E c \in N : w \in {Write("canon", c), Write("last", c)}
                 \/ \E c \in M : w \in {Write("txs", c), Write("receipts", c)}
                 \/ w = Write("header", b)
                 \/ NeedsReorg(b) /\ w = drop
  BY WritesMembers
<1>2. \A k, c : Write(k, c).what = k /\ Write(k, c).block = c /\ Write(k, c).txs = TxsOf[c]
  BY DEF Write
<1>3. drop.what = "drop" /\ drop.txs = TxsOfAll(O) \ TxsOfAll(N)
  OBVIOUS
<1> HIDE DEF W, O, N, M, drop
<1>4. \A w \in W : w.what = "header" <=> w = Write("header", b)
  BY <1>1, <1>2, <1>3
<1>5. \A w \in W : w.what = "delHeader" <=> \E c \in O : w = Write("delHeader", c)
  BY <1>1, <1>2, <1>3
<1>6. \A w \in W : w.what = "delTxs" <=> \E c \in O : w = Write("delTxs", c)
  BY <1>1, <1>2, <1>3
<1>7. \A w \in W : w.what = "delReceipts" <=> \E c \in O : w = Write("delReceipts", c)
  BY <1>1, <1>2, <1>3
<1>8. \A w \in W : w.what = "canon" <=> \E c \in N : w = Write("canon", c)
  BY <1>1, <1>2, <1>3
<1>9. \A w \in W : w.what = "last" <=> \E c \in N : w = Write("last", c)
  BY <1>1, <1>2, <1>3
<1>10. \A w \in W : w.what = "txs" <=> \E c \in M : w = Write("txs", c)
  BY <1>1, <1>2, <1>3
<1>11. \A w \in W : w.what = "receipts" <=> \E c \in M : w = Write("receipts", c)
  BY <1>1, <1>2, <1>3
<1>12. \A w \in W : w.what = "drop" => w = drop
  BY <1>1, <1>2, <1>3
<1>13. /\ Write("header", b) \in W
       /\ \A c \in O : Write("delHeader", c) \in W /\ Write("delTxs", c) \in W
                       /\ Write("delReceipts", c) \in W
       /\ \A c \in N : Write("canon", c) \in W /\ Write("last", c) \in W
       /\ \A c \in M : Write("txs", c) \in W /\ Write("receipts", c) \in W
  BY <1>1
<1>14. \A w \in W : OfBlock(w)
  BY <1>1, <1>2, <1>3 DEF OfBlock
<1>15. Blocks(W, "header") = {b}
  BY <1>2, <1>4, <1>13 DEF Blocks
<1>16. Blocks(W, "delHeader") = O /\ Blocks(W, "delTxs") = O
  <2>1. Blocks(W, "delHeader") = O
    BY <1>2, <1>5, <1>13 DEF Blocks
  <2>2. Blocks(W, "delTxs") = O
    BY <1>2, <1>6, <1>13 DEF Blocks
  <2> QED
    BY <2>1, <2>2
<1>17. Blocks(W, "canon") = N /\ Blocks(W, "last") = N
  <2>1. Blocks(W, "canon") = N
    BY <1>2, <1>8, <1>13 DEF Blocks
  <2>2. Blocks(W, "last") = N
    BY <1>2, <1>9, <1>13 DEF Blocks
  <2> QED
    BY <2>1, <2>2
<1>18. Blocks(W, "txs") = M
  BY <1>2, <1>10, <1>13 DEF Blocks
<1>19. TxsIn(W, "delReceipts") = TxsOfAll(O)
  BY <1>2, <1>7, <1>13 DEF TxsIn, TxsOfAll
<1>20. TxsIn(W, "txs") = TxsOfAll(M)
  BY <1>2, <1>10, <1>13 DEF TxsIn, TxsOfAll
<1>21. TxsIn(W, "receipts") = TxsOfAll(M)
  BY <1>2, <1>11, <1>13 DEF TxsIn, TxsOfAll
<1>22. TxsIn(W, "drop") \subseteq TxsOfAll(O) \ TxsOfAll(N)
  BY <1>3, <1>12 DEF TxsIn
<1> QED
  BY <1>14, <1>15, <1>16, <1>17, <1>18, <1>19, <1>20, <1>21, <1>22 DEF W, O, N, M

-----------------------------------------------------------------------------
(* The orphan pool.                                                        *)

\* s has elements of t only, in different places of t.
Within(s, t) ==
    /\ \A i \in DOMAIN s : \E j \in DOMAIN t : s[i] = t[j]
    /\ (\A i, j \in DOMAIN t : t[i] = t[j] => i = j)
          => \A i, j \in DOMAIN s : s[i] = s[j] => i = j

\* A sequence with one element taken out.
LEMMA Removed ==
    ASSUME NEW S, NEW s \in Seq(S), NEW i \in DOMAIN s
    PROVE  /\ RemoveAt(s, i) \in Seq(S) /\ Within(RemoveAt(s, i), s)
           /\ (\A j, k \in DOMAIN s : s[j] = s[k] => j = k)
                 => \A j \in DOMAIN RemoveAt(s, i) : RemoveAt(s, i)[j] # s[i]
<1> DEFINE p == SubSeq(s, 1, i - 1)
           q == SubSeq(s, i + 1, Len(s))
           r == p \o q
           f == [j \in 1 .. Len(s) - 1 |-> IF j < i THEN j ELSE j + 1]
<1>1. Len(s) \in Nat /\ DOMAIN s = 1 .. Len(s) /\ i \in 1 .. Len(s)
  OBVIOUS
<1>2. /\ p \in Seq(S) /\ Len(p) = i - 1
      /\ \A j \in 1 .. i - 1 : p[j] = s[j]
  BY <1>1
<1>3. /\ q \in Seq(S) /\ Len(q) = Len(s) - i
      /\ \A j \in 1 .. Len(s) - i : q[j] = s[i + j]
  BY <1>1
<1>4. RemoveAt(s, i) = r
  BY DEF RemoveAt
<1> HIDE DEF p, q
<1>5. /\ r \in Seq(S) /\ DOMAIN r = 1 .. Len(s) - 1
      /\ \A j \in 1 .. Len(s) - 1 : r[j] = IF j <= i - 1 THEN p[j] ELSE q[j - (i - 1)]
  <2>1. /\ r \in Seq(S) /\ DOMAIN r = 1 .. Len(p) + Len(q)
        /\ \A j \in DOMAIN r : r[j] = IF j <= Len(p) THEN p[j] ELSE q[j - Len(p)]
    <3>1. p \in Seq(S) /\ q \in Seq(S)
      BY <1>2, <1>3
    <3> QED
      BY ONLY <3>1, ConcatElements
  <2>2. Len(p) + Len(q) = Len(s) - 1
    BY <1>1, <1>2, <1>3
  <2> QED
    BY <1>2, <2>1, <2>2
<1> HIDE DEF r
<1>6. ASSUME NEW j \in 1 .. Len(s) - 1
      PROVE  f[j] \in DOMAIN s /\ r[j] = s[f[j]] /\ f[j] # i
  <2>1. CASE j < i
    <3>1. j <= i - 1 /\ j \in 1 .. i - 1 /\ f[j] = j /\ j \in DOMAIN s /\ j # i
      BY <1>1, <2>1
    <3> QED
      BY <1>2, <1>5, <3>1
  <2>2. CASE ~(j < i)
    <3>1. ~(j <= i - 1) /\ j - (i - 1) \in 1 .. Len(s) - i /\ f[j] = j + 1
          /\ j + 1 \in DOMAIN s /\ j + 1 # i /\ i + (j - (i - 1)) = j + 1
      BY <1>1, <2>2
    <3>2. r[j] = q[j - (i - 1)]
      BY <1>5, <3>1
    <3>3. q[j - (i - 1)] = s[i + (j - (i - 1))]
      BY <1>3, <3>1
    <3> QED
      BY <3>1, <3>2, <3>3
  <2> QED
    BY <2>1, <2>2
<1>7. ASSUME NEW j \in 1 .. Len(s) - 1, NEW k \in 1 .. Len(s) - 1, f[j] = f[k] PROVE j = k
  BY <1>1, <1>7
<1> HIDE DEF f
<1>8. ASSUME \A j, k \in DOMAIN s : s[j] = s[k] => j = k
      PROVE  /\ \A j, k \in DOMAIN r : r[j] = r[k] => j = k
             /\ \A j \in DOMAIN r : r[j] # s[i]
  <2>1. DOMAIN r = 1 .. Len(s) - 1
    BY <1>5
  <2>2. ASSUME NEW j \in DOMAIN r, NEW k \in DOMAIN r, r[j] = r[k] PROVE j = k
    <3>1. j \in 1 .. Len(s) - 1 /\ k \in 1 .. Len(s) - 1
      BY <2>1, Zenon
    <3>2. f[j] \in DOMAIN s /\ f[k] \in DOMAIN s /\ s[f[j]] = s[f[k]]
      <4>1. f[j] \in DOMAIN s /\ r[j] = s[f[j]]
        BY <1>6, <3>1
      <4>2. f[k] \in DOMAIN s /\ r[k] = s[f[k]]
        BY <1>6, <3>1
      <4> QED
        BY <2>2, <4>1, <4>2, Zenon
    <3>3. f[j] = f[k]
      BY <1>8, <3>2, Zenon
    <3> QED
      BY <1>7, <3>1, <3>3, Zenon
  <2>3. ASSUME NEW j \in DOMAIN r, r[j] = s[i] PROVE FALSE
    <3>1. j \in 1 .. Len(s) - 1
      BY <2>1, Zenon
    <3> QED
      BY <1>6, <1>8, <2>3, <3>1, Zenon
  <2> QED
    BY <2>2, <2>3, Zenon
<1>9. \A j \in DOMAIN r : \E k \in DOMAIN s : r[j] = s[k]
  BY <1>5, <1>6
<1> QED
  BY <1>4, <1>5, <1>8, <1>9 DEF Within

-----------------------------------------------------------------------------
(* The inductive invariant.                                                *)

\* What is still to be written, and the head there will be once it is
Todo == Range(writes)
Goal == IF Blocks(Todo, "last") = {} THEN lastBlock ELSE accepting

\* The types, and what ties the fields of the running operation together
Shape ==
    /\ TypeOK
    /\ orphans \in Seq(Block \ {Genesis}) /\ process \in Seq(Block)
    /\ writes \in Seq(WriteType) /\ \A w \in Todo : OfBlock(w)
    /\ accepting # Genesis /\ sealed # Genesis
    /\ cur \in {None, lastBlock}
    /\ cur = None => Idle /\ orphans = <<>> /\ sealed = None /\ miningOn = None
    /\ sealed # None => miningOn = Parent[sealed] /\ sealed \notin BadBlock
    /\ writes # <<>> => accepting # None
    /\ LastOf(writes, accepting) /\ ReceiptsLast(writes)

\* Nothing stored, or about to be, is higher than the head there will be, and
\* nothing else that is, was or will be the head is as high.
HeadInv ==
    /\ \A c \in header \cup Blocks(Todo, "header") :
          Height[c] <= Height[Goal] /\ c \notin BadBlock
    /\ \A c \in {lastBlock} \cup Blocks(Todo, "last") \cup ({miningOn} \ {None}) :
          c = Goal \/ Height[c] < Height[Goal]

\* The chain of that head is stored and indexed, or still to be written, and
\* nothing that is still to be done undoes it.
CanonInv ==
    /\ \A c \in Anc(Goal) :
          /\ c = canon[Height[c]] \/ c \in Blocks(Todo, "canon")
          /\ c \in header \cup Blocks(Todo, "header") /\ c \notin Blocks(Todo, "delHeader")
          /\ c \in body \cup Blocks(Todo, "txs") /\ c \notin Blocks(Todo, "delTxs")
    /\ Blocks(Todo, "canon") \subseteq Anc(Goal)
    /\ \A n \in Heights : n > Height[Goal] => canon[n] = None

\* The same of the transactions on that chain.
TxInv ==
    \A c \in Anc(Goal) : \A t \in TxsOf[c] :
        /\ t \in txData \cup TxsIn(Todo, "txs") /\ t \notin TxsIn(Todo, "drop")
        /\ txIndex[t] # None \/ t \in TxsIn(Todo, "txs")
        /\ \/ receipt[t] # None /\ t \notin TxsIn(Todo, "delReceipts")
           \/ t \in TxsIn(Todo, "receipts")

\* An orphan is not among the stored blocks nor among those about to be; its
\* parent is stored only while the operation that stored it goes on.
OrphanInv ==
    /\ OrphansApart
    /\ \A i \in DOMAIN orphans :
          /\ orphans[i] \notin Blocks(Todo, "header") \cup {accepting, sealed}
          /\ Parent[orphans[i]] # sealed
          /\ ~adopt => Parent[orphans[i]] # accepting
          /\ (~orphanFailed /\ Parent[orphans[i]] \in header \cup Blocks(Todo, "header"))
                => Parent[orphans[i]] \in Range(process) \cup {accepting}

\* The blocks whose orphans are to be processed are stored, and stay so: they
\* are in order of height, spread over two heights, and the head, which is the
\* only one a reorg could take off the chain, comes after all lower ones.
ProcessInv ==
    /\ \A i \in DOMAIN process :
          /\ process[i] \in header /\ process[i] \notin Blocks(Todo, "delHeader")
          /\ Height[process[i]] <= Height[process[1]] + 1
          /\ \A j \in DOMAIN process : i < j =>
                /\ Height[process[i]] <= Height[process[j]]
                /\ process[j] = Goal => Height[process[i]] < Height[process[j]]
          /\ accepting # None =>
                /\ Height[accepting] = Height[process[1]] + 1
                /\ accepting = Goal => Height[process[i]] < Height[accepting]
    /\ accepting # None => /\ accepting \in header \cup Blocks(Todo, "header")
                           /\ accepting \notin Blocks(Todo, "delHeader")

\* All of it, at every moment.
IInv == Shape /\ HeadInv /\ CanonInv /\ TxInv /\ OrphanInv /\ ProcessInv

\* The empty list has no elements.
LEMMA EmptyRange == Range(<<>>) = {}
BY DEF Range

\* While nothing is to be written the goal is the head.
LEMMA NothingTodo ==
    ASSUME writes = <<>>
    PROVE  /\ Todo = {} /\ Goal = lastBlock
           /\ \A k : Blocks(Todo, k) = {} /\ TxsIn(Todo, k) = {}
<1>1. Todo = {}
  BY DEF Todo, Range
<1>2. \A k : Blocks(Todo, k) = {} /\ TxsIn(Todo, k) = {}
  BY <1>1 DEF Blocks, TxsIn
<1> QED
  BY <1>1, <1>2 DEF Goal

\* One write of the running operation: it brings about what the invariant
\* expects of it and does not change the head there will be.
LEMMA PerformStep ==
    ASSUME IInv, Perform
    PROVE  IInv'
\* The head there will be is a block.
<1>GoalBlock. ASSUME Shape
              PROVE  Goal \in Block
  <2> USE <1>GoalBlock
  <2>1. CASE Blocks(Todo, "last") = {}
    BY <2>1 DEF Goal, Shape, TypeOK
  <2>2. CASE Blocks(Todo, "last") # {}
    <3>1. writes # <<>>
      BY <2>2, NothingTodo
    <3> QED
      BY <2>2, <3>1 DEF Goal, Shape, TypeOK
  <2> QED
    BY <2>1, <2>2
\* The first write taken off the list.
<1>FirstWrite. ASSUME NEW ws \in Seq(WriteType), ws # <<>>, NEW b, LastOf(ws, b), ReceiptsLast(ws)
               PROVE  /\ Head(ws) \in WriteType /\ Tail(ws) \in Seq(WriteType)
                      /\ Range(ws) = {Head(ws)} \cup Range(Tail(ws))
                      /\ LastOf(Tail(ws), b) /\ ReceiptsLast(Tail(ws))
                      /\ Head(ws).what = "last" /\ (\A w \in Range(Tail(ws)) : w.what # "last")
                           => Head(ws).block = b
                      /\ Head(ws).what = "receipts" => \A w \in Range(Tail(ws)) : w.what # "delReceipts"
  <2> USE <1>FirstWrite
  <2> DEFINE h == Head(ws)
             t == Tail(ws)
  <2>1. /\ Len(ws) \in Nat /\ Len(ws) >= 1 /\ DOMAIN ws = 1 .. Len(ws)
        /\ h = ws[1] /\ h \in WriteType
        /\ t \in Seq(WriteType) /\ DOMAIN t = 1 .. Len(ws) - 1
        /\ \A i \in 1 .. Len(ws) - 1 : t[i] = ws[i + 1]
    OBVIOUS
  <2> HIDE DEF h, t
  <2>2. Range(ws) = {h} \cup Range(t)
    <3>1. ASSUME NEW i \in DOMAIN ws PROVE ws[i] \in {h} \cup Range(t)
      <4>1. CASE i = 1
        BY <2>1, <4>1
      <4>2. CASE i # 1
        <5>1. i - 1 \in 1 .. Len(ws) - 1 /\ (i - 1) + 1 = i
          BY <2>1, <4>2
        <5> QED
          BY <2>1, <5>1 DEF Range
      <4> QED
        BY <4>1, <4>2
    <3>2. ASSUME NEW i \in DOMAIN t PROVE i + 1 \in DOMAIN ws /\ t[i] = ws[i + 1]
      BY <2>1
    <3>3. h \in Range(ws)
      <4>1. 1 \in DOMAIN ws
        BY <2>1
      <4> QED
        BY <2>1, <4>1 DEF Range
    <3> QED
      BY <3>1, <3>2, <3>3 DEF Range
  <2>3. ASSUME \E w \in Range(ws) : w.what = "last"
        PROVE  \E i \in DOMAIN ws : /\ ws[i].what = "last" /\ ws[i].block = b
                                    /\ \A j \in DOMAIN ws : j > i => ws[j].what # "last"
    BY <2>3 DEF LastOf
  <2>4. LastOf(t, b)
    <3> SUFFICES ASSUME \E w \in Range(t) : w.what = "last"
                 PROVE  \E i \in DOMAIN t : /\ t[i].what = "last" /\ t[i].block = b
                                            /\ \A j \in DOMAIN t : j > i => t[j].what # "last"
      BY DEF LastOf
    <3>1. PICK i \in DOMAIN ws : /\ ws[i].what = "last" /\ ws[i].block = b
                                 /\ \A j \in DOMAIN ws : j > i => ws[j].what # "last"
      BY <2>2, <2>3
    <3>2. PICK k \in DOMAIN t : t[k].what = "last"
      BY DEF Range
    <3>3. k + 1 \in DOMAIN ws /\ ws[k + 1].what = "last" /\ k + 1 > 1
      BY <2>1, <3>2
    <3>4. i # 1
      BY <3>1, <3>3
    <3>5. i - 1 \in DOMAIN t /\ t[i - 1] = ws[i]
      BY <2>1, <3>4
    <3>6. ASSUME NEW j \in DOMAIN t, j > i - 1 PROVE t[j].what # "last"
      <4>1. j + 1 \in DOMAIN ws /\ j + 1 > i /\ t[j] = ws[j + 1]
        BY <2>1, <3>6
      <4> QED
        BY <3>1, <4>1
    <3> QED
      BY <3>1, <3>5, <3>6
  <2>5. ReceiptsLast(t)
    <3> SUFFICES ASSUME NEW i \in DOMAIN t, NEW j \in DOMAIN t,
                        t[i].what = "receipts", t[j].what = "delReceipts"
                 PROVE  j < i
      BY DEF ReceiptsLast
    <3>1. i + 1 \in DOMAIN ws /\ j + 1 \in DOMAIN ws /\ t[i] = ws[i + 1] /\ t[j] = ws[j + 1]
      BY <2>1
    <3>2. j + 1 < i + 1
      BY <3>1 DEF ReceiptsLast
    <3> QED
      BY <2>1, <3>2
  <2>6. ASSUME h.what = "last", \A w \in Range(t) : w.what # "last" PROVE h.block = b
    <3>1. PICK i \in DOMAIN ws : ws[i].what = "last" /\ ws[i].block = b
      BY <2>2, <2>3, <2>6
    <3>2. i = 1
      <4> SUFFICES ASSUME i # 1
                   PROVE  FALSE
        OBVIOUS
      <4>1. i - 1 \in DOMAIN t /\ t[i - 1] = ws[i]
        BY <2>1
      <4> QED
        BY <2>6, <3>1, <4>1 DEF Range
    <3> QED
      BY <2>1, <3>1, <3>2
  <2>7. ASSUME h.what = "receipts", NEW w \in Range(t) PROVE w.what # "delReceipts"
    <3> SUFFICES ASSUME w.what = "delReceipts"
                 PROVE  FALSE
      OBVIOUS
    <3>1. PICK j \in DOMAIN t : w = t[j]
      BY DEF Range
    <3>2. j + 1 \in DOMAIN ws /\ ws[j + 1] = w /\ 1 \in DOMAIN ws /\ ~(j + 1 < 1)
      BY <2>1, <3>1
    <3> QED
      BY <2>1, <2>7, <3>2 DEF ReceiptsLast
  <2> QED
    BY <2>1, <2>2, <2>4, <2>5, <2>6, <2>7 DEF h, t
\* The blocks and the transactions of the first write and of the others.
<1>TodoBlocks. ASSUME NEW w, NEW V
               PROVE  \A k, x : x \in Blocks({w} \cup V, k) <=>
                                  (w.what = k /\ x = w.block) \/ x \in Blocks(V, k)
  BY <1>TodoBlocks DEF Blocks
\* And its transactions.
<1>TodoTxs. ASSUME NEW w, NEW V
            PROVE  \A k, x : x \in TxsIn({w} \cup V, k) <=>
                               (w.what = k /\ x \in w.txs) \/ x \in TxsIn(V, k)
  BY <1>TodoTxs DEF TxsIn
<1> DEFINE w == Head(writes)
           V == Range(Tail(writes))
<1>1. /\ Shape /\ HeadInv /\ CanonInv /\ TxInv /\ OrphanInv /\ ProcessInv
      /\ writes # <<>> /\ accepting # None
  BY DEF IInv, Perform, Shape
<1>2. /\ writes' = Tail(writes)
      /\ header' = HeaderAfter(w) /\ canon' = CanonAfter(w) /\ lastBlock' = LastAfter(w)
      /\ body' = BodyAfter(w) /\ txIndex' = TxIndexAfter(w) /\ txData' = TxDataAfter(w)
      /\ receipt' = ReceiptAfter(w) /\ cur' = CurAfter(w)
      /\ orphans' = orphans /\ oldest' = oldest /\ miningOn' = miningOn /\ sealed' = sealed
      /\ accepting' = accepting /\ adopt' = adopt /\ process' = process
      /\ orphanFailed' = orphanFailed
  BY DEF Perform
<1>3. /\ w \in WriteType /\ Tail(writes) \in Seq(WriteType)
      /\ Todo = {w} \cup V /\ Todo' = V
      /\ LastOf(Tail(writes), accepting) /\ ReceiptsLast(Tail(writes))
      /\ w.what = "last" /\ (\A v \in V : v.what # "last") => w.block = accepting
      /\ w.what = "receipts" => \A v \in V : v.what # "delReceipts"
  BY <1>1, <1>2, <1>FirstWrite DEF Shape, Todo
<1>4. /\ w.what \in Kinds /\ w.block \in Block \cup {None} /\ w.txs \subseteq Tx
      /\ w.what # "drop" => w.block \in Block /\ w.txs = TxsOf[w.block]
      /\ \A v \in V : OfBlock(v)
  <2>1. \A v \in {w} \cup V : OfBlock(v)
    BY <1>1, <1>3 DEF Shape
  <2> HIDE DEF w, V
  <2>2. OfBlock(w) /\ \A v \in V : OfBlock(v)
    BY <2>1
  <2> QED
    BY <1>3, <2>2 DEF WriteType, OfBlock
<1> HIDE DEF w, V
<1>5. \A k, x : x \in Blocks(Todo, k) <=> (w.what = k /\ x = w.block) \/ x \in Blocks(Todo', k)
  <2>1. Todo = {w} \cup V /\ Todo' = V
    BY <1>3
  <2> QED
    BY ONLY <2>1, <1>TodoBlocks
<1>6. \A k, x : x \in TxsIn(Todo, k) <=> (w.what = k /\ x \in w.txs) \/ x \in TxsIn(Todo', k)
  <2>1. Todo = {w} \cup V /\ Todo' = V
    BY <1>3
  <2> QED
    BY ONLY <2>1, <1>TodoTxs
<1>7. Goal' = Goal /\ Goal \in Block
  <2>1. CASE Blocks(Todo, "last") = {}
    BY <1>1, <1>2, <1>5, <2>1, <1>GoalBlock, Zenon DEF Goal, LastAfter
  <2>2. CASE Blocks(Todo', "last") # {}
    BY <1>1, <1>2, <1>5, <2>2, <1>GoalBlock DEF Goal
  <2>3. CASE Blocks(Todo, "last") # {} /\ Blocks(Todo', "last") = {}
    <3>1. \A v \in V : v.what # "last"
      <4>1. Blocks(V, "last") = {}
        BY <1>3, <2>3
      <4> QED
        BY <4>1, Zenon DEF Blocks
    <3>2. w.what = "last" /\ w.block = accepting
      BY <1>3, <1>5, <2>3, <3>1, Zenon
    <3> QED
      BY <1>1, <1>2, <2>3, <3>2, <1>GoalBlock DEF Goal, LastAfter
  <2> QED
    BY <2>1, <2>2, <2>3
<1>8. /\ header' \cup Blocks(Todo', "header") \subseteq header \cup Blocks(Todo, "header")
      /\ lastBlock' \in {lastBlock} \cup Blocks(Todo, "last")
      /\ Blocks(Todo', "last") \subseteq Blocks(Todo, "last")
      /\ header' \subseteq header \cup Blocks(Todo, "header")
  BY <1>2, <1>5 DEF HeaderAfter, LastAfter
<1>9. ASSUME NEW c \in header \cup Blocks(Todo, "header"), c \notin Blocks(Todo, "delHeader")
      PROVE  /\ c \in header' \cup Blocks(Todo', "header") /\ c \notin Blocks(Todo', "delHeader")
             /\ c \in header => c \in header'
  BY <1>2, <1>5, <1>9 DEF HeaderAfter
<1>10. HeadInv'
  BY <1>1, <1>2, <1>7, <1>8 DEF HeadInv
<1>11. CanonInv'
  <2>1. ASSUME NEW c \in Anc(Goal)
        PROVE  c = canon'[Height[c]] \/ c \in Blocks(Todo', "canon")
    <3>1. c \in Block /\ Height[c] \in Heights /\ canon \in [Heights -> Block \cup {None}]
      BY <1>1, <1>7, AncestorHeight DEF Heights, Shape, TypeOK
    <3>2. c = canon[Height[c]] \/ c \in Blocks(Todo, "canon")
      BY <1>1 DEF CanonInv
    <3>3. CASE w.what # "canon"
      BY <1>2, <1>5, <3>2, <3>3 DEF CanonAfter
    <3>4. CASE w.what = "canon"
      <4>1. w.block \in Block /\ w.block \in Anc(Goal)
        BY <1>1, <1>4, <1>5, <3>4 DEF CanonInv
      <4>2. canon' = [canon EXCEPT ![Height[w.block]] = w.block]
        BY <1>2, <3>4 DEF CanonAfter
      <4>3. CASE w.block = c
        BY <3>1, <4>2, <4>3
      <4>4. CASE w.block # c
        <5>1. Height[w.block] # Height[c]
          BY <1>7, <4>1, <4>4, AncestorUnique
        <5>2. canon'[Height[c]] = canon[Height[c]]
          BY <3>1, <4>2, <5>1
        <5> QED
          BY <1>5, <3>2, <3>4, <4>4, <5>2
      <4> QED
        BY <4>3, <4>4
    <3> QED
      BY <3>3, <3>4
  <2>2. ASSUME NEW c \in Anc(Goal)
        PROVE  /\ c \in header' \cup Blocks(Todo', "header") /\ c \notin Blocks(Todo', "delHeader")
               /\ c \in body' \cup Blocks(Todo', "txs") /\ c \notin Blocks(Todo', "delTxs")
    <3>1. /\ c \in header \cup Blocks(Todo, "header") /\ c \notin Blocks(Todo, "delHeader")
          /\ c \in body \cup Blocks(Todo, "txs") /\ c \notin Blocks(Todo, "delTxs")
      BY <1>1 DEF CanonInv
    <3>2. c \in header' \cup Blocks(Todo', "header") /\ c \notin Blocks(Todo', "delHeader")
      BY <1>9, <3>1
    <3>3. c \in body' \cup Blocks(Todo', "txs") /\ c \notin Blocks(Todo', "delTxs")
      BY <1>2, <1>5, <3>1 DEF BodyAfter
    <3> QED
      BY <3>2, <3>3
  <2>3. Blocks(Todo', "canon") \subseteq Anc(Goal)
    BY <1>1, <1>5 DEF CanonInv
  <2>4. ASSUME NEW n \in Heights, n > Height[Goal] PROVE canon'[n] = None
    <3>1. canon[n] = None /\ canon \in [Heights -> Block \cup {None}]
      BY <1>1, <2>4 DEF CanonInv, Shape, TypeOK
    <3>2. CASE w.what # "canon"
      BY <1>2, <3>1, <3>2 DEF CanonAfter
    <3>3. CASE w.what = "canon"
      <4>1. w.block \in Anc(Goal)
        BY <1>1, <1>5, <3>3 DEF CanonInv
      <4>2. Height[w.block] <= Height[Goal] /\ w.block \in Block
        BY <1>7, <4>1, AncestorHeight
      <4>3. Height[w.block] # n
        <5>1. Height[w.block] \in Nat /\ Height[Goal] \in Nat
          BY ChainAssumption, <1>7, <4>2
        <5> QED
          BY <2>4, <4>2, <5>1
      <4>4. canon' = [canon EXCEPT ![Height[w.block]] = w.block]
        BY <1>2, <3>3 DEF CanonAfter
      <4> QED
        BY <3>1, <4>3, <4>4
    <3> QED
      BY <3>2, <3>3
  <2> QED
    BY <1>7, <2>1, <2>2, <2>3, <2>4 DEF CanonInv
<1>12. TxInv'
  <2>1. ASSUME NEW c \in Anc(Goal), NEW t \in TxsOf[c]
        PROVE  /\ t \in txData' \cup TxsIn(Todo', "txs") /\ t \notin TxsIn(Todo', "drop")
               /\ txIndex'[t] # None \/ t \in TxsIn(Todo', "txs")
               /\ \/ receipt'[t] # None /\ t \notin TxsIn(Todo', "delReceipts")
                  \/ t \in TxsIn(Todo', "receipts")
    <3>1. c \in Block /\ t \in Tx
      BY ChainAssumption, <1>7, AncestorHeight
    <3>2. /\ t \in txData \cup TxsIn(Todo, "txs") /\ t \notin TxsIn(Todo, "drop")
          /\ txIndex[t] # None \/ t \in TxsIn(Todo, "txs")
          /\ \/ receipt[t] # None /\ t \notin TxsIn(Todo, "delReceipts")
             \/ t \in TxsIn(Todo, "receipts")
      BY <1>1 DEF TxInv
    <3>3. t \in txData' \cup TxsIn(Todo', "txs") /\ t \notin TxsIn(Todo', "drop")
      BY <1>2, <1>6, <3>2 DEF TxDataAfter
    <3>4. txIndex'[t] # None \/ t \in TxsIn(Todo', "txs")
      BY ChainAssumption, <1>2, <1>4, <1>6, <3>1, <3>2 DEF TxIndexAfter, Indexed
    <3>5. \/ receipt'[t] # None /\ t \notin TxsIn(Todo', "delReceipts")
          \/ t \in TxsIn(Todo', "receipts")
      <4>1. CASE w.what = "receipts"
        <5>1. TxsIn(Todo', "delReceipts") = {}
          BY <1>3, <4>1 DEF TxsIn
        <5>2. receipt'[t] = IF t \in w.txs THEN w.block ELSE receipt[t]
          BY <1>2, <3>1, <4>1 DEF ReceiptAfter, Indexed
        <5> QED
          BY ChainAssumption, <1>4, <1>6, <3>2, <4>1, <5>1, <5>2
      <4>2. CASE w.what = "delReceipts"
        <5>1. receipt'[t] = IF t \in w.txs THEN None ELSE receipt[t]
          BY <1>2, <3>1, <4>2 DEF ReceiptAfter, Indexed
        <5> QED
          BY <1>6, <3>2, <4>2, <5>1
      <4>3. CASE w.what \notin {"receipts", "delReceipts"}
        <5>1. receipt' = receipt
          BY <1>2, <4>3 DEF ReceiptAfter
        <5> QED
          BY <1>6, <3>2, <4>3, <5>1
      <4> QED
        BY <4>1, <4>2, <4>3
    <3> QED
      BY <3>3, <3>4, <3>5
  <2> QED
    BY <1>7, <2>1 DEF TxInv
<1>13. OrphanInv'
  <2>1. OrphansApart'
    BY <1>1, <1>2, <1>8 DEF OrphanInv, OrphansApart
  <2>2. Blocks(Todo', "header") \subseteq Blocks(Todo, "header")
    BY <1>5
  <2> QED
    BY <1>1, <1>2, <1>8, <2>1, <2>2 DEF OrphanInv
<1>14. ProcessInv'
  <2>1. ASSUME NEW i \in DOMAIN process
        PROVE  process[i] \in header' /\ process[i] \notin Blocks(Todo', "delHeader")
    <3>1. process[i] \in header /\ process[i] \notin Blocks(Todo, "delHeader")
      BY <1>1 DEF ProcessInv
    <3> QED
      BY <1>9, <3>1
  <2>2. accepting \in header' \cup Blocks(Todo', "header") /\ accepting \notin Blocks(Todo', "delHeader")
    <3>1. accepting \in header \cup Blocks(Todo, "header") /\ accepting \notin Blocks(Todo, "delHeader")
      BY <1>1 DEF ProcessInv
    <3> QED
      BY <1>9, <3>1
  <2> QED
    BY <1>1, <1>2, <1>7, <2>1, <2>2 DEF ProcessInv
<1>15. Shape'
  <2>1. cur = lastBlock
    BY <1>1 DEF Shape, Idle
  <2>2. cur' = lastBlock' /\ lastBlock' \in Block
    BY <1>1, <1>2, <1>4, <2>1 DEF CurAfter, LastAfter, Shape, TypeOK
  <2>3. header' \subseteq Block /\ body' \subseteq Block
    BY <1>1, <1>2, <1>4 DEF HeaderAfter, BodyAfter, Shape, TypeOK
  <2>4. canon' \in [Heights -> Block \cup {None}]
    BY <1>1, <1>2, <1>4, Zenon DEF CanonAfter, Shape, TypeOK
  <2>5. txIndex' \in [Tx -> Block \cup {None}] /\ txData' \subseteq Tx
    <3>1. txIndex \in [Tx -> Block \cup {None}] /\ txData \subseteq Tx
      BY <1>1 DEF Shape, TypeOK
    <3>2. txIndex' \in [Tx -> Block \cup {None}]
      BY <1>2, <1>4, <3>1, Zenon DEF TxIndexAfter, Indexed
    <3>3. txData' \subseteq Tx
      BY <1>2, <1>4, <3>1 DEF TxDataAfter
    <3> QED
      BY <3>2, <3>3
  <2>6. receipt' \in [Tx -> Block \cup {None}]
    <3>1. receipt \in [Tx -> Block \cup {None}]
      BY <1>1 DEF Shape, TypeOK
    <3> QED
      BY <1>2, <1>4, <3>1 DEF ReceiptAfter, Indexed
  <2>7. TypeOK'
    BY <1>1, <1>2, <2>2, <2>3, <2>4, <2>5, <2>6 DEF Shape, TypeOK
  <2>8. cur' # None
    BY ChainAssumption, <2>2
  <2>9. /\ orphans' \in Seq(Block \ {Genesis}) /\ process' \in Seq(Block)
        /\ accepting' # Genesis /\ sealed' # Genesis /\ accepting' # None
        /\ sealed' # None => miningOn' = Parent[sealed'] /\ sealed' \notin BadBlock
    BY <1>1, <1>2 DEF Shape
  <2>10. writes' \in Seq(WriteType) /\ LastOf(writes', accepting') /\ ReceiptsLast(writes')
         /\ \A v \in Todo' : OfBlock(v)
    BY <1>2, <1>3, <1>4
  <2> QED
    BY <2>2, <2>7, <2>8, <2>9, <2>10 DEF Shape
<1> QED
  BY <1>10, <1>11, <1>12, <1>13, <1>14, <1>15 DEF IInv

=============================================================================
