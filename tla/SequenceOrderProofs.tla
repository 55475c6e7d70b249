------------------------- MODULE SequenceOrderProofs -------------------------
(***************************************************************************)
(* Facts about the order of the elements of a sequence: ToSet, Before and  *)
(* Keep of sequences put together with Append, \o and Tail.                *)
(***************************************************************************)
EXTENDS SequenceOrder, SequencesExt, SequenceTheorems, WellFoundedInduction, TLAPS

-----------------------------------------------------------------------------
(* Induction, with the property given as a set                             *)

LEMMA NatSetInduction ==
  ASSUME NEW P, 0 \in P, \A n \in Nat : n \in P => n + 1 \in P
  PROVE  Nat \subseteq P
<1> DEFINE R == OpToRel(<, Nat)
           B == Nat \ P
<1> SUFFICES ASSUME B # {} PROVE FALSE
  OBVIOUS
<1>1. IsWellFoundedOn(R, Nat)
  BY NatLessThanWellFounded
<1>2. PICK m \in B : \A n \in B : <<n, m>> \notin R
  BY <1>1, WFMin
<1>3. m \in Nat /\ m # 0 /\ m - 1 \in Nat /\ m - 1 + 1 = m /\ m - 1 < m
  OBVIOUS
<1>4. m - 1 \notin B
  BY <1>2, <1>3 DEF OpToRel
<1> QED BY <1>3, <1>4

LEMMA SeqInduction ==
  ASSUME NEW X, NEW P, <<>> \in P,
         \A q \in Seq(X) : q \in P => \A a \in X : Append(q, a) \in P
  PROVE  Seq(X) \subseteq P
<1> DEFINE N == {n \in Nat : \A q \in Seq(X) : Len(q) = n => q \in P}
<1>1. 0 \in N
  <2>1. \A q \in Seq(X) : Len(q) = 0 => q = <<>>
    BY EmptySeq
  <2> QED BY <2>1
<1>2. ASSUME NEW n \in Nat, n \in N PROVE n + 1 \in N
  <2> SUFFICES ASSUME NEW q \in Seq(X), Len(q) = n + 1 PROVE q \in P
    OBVIOUS
  <2> DEFINE p == SubSeq(q, 1, n)
  <2>1. p \in Seq(X) /\ Len(p) = n /\ q[n + 1] \in X /\ \A i \in 1..n : p[i] = q[i]
    BY <1>2
  <2>2. q = Append(p, q[n + 1])
    <3> HIDE DEF p
    <3>1. Append(p, q[n + 1]) \in Seq(X) /\ Len(Append(p, q[n + 1])) = n + 1
      BY <2>1
    <3>2. \A i \in 1..n + 1 : Append(p, q[n + 1])[i] = q[i]
      BY <2>1
    <3> QED BY <3>1, <3>2, SeqEqual
  <2>3. p \in P
    BY <1>2, <2>1
  <2> QED BY <2>1, <2>2, <2>3
<1> HIDE DEF N
<1>3. Nat \subseteq N
  BY <1>1, <1>2, NatSetInduction
<1>4. ASSUME NEW q \in Seq(X) PROVE q \in P
  <2>1. Len(q) \in Nat
    OBVIOUS
  <2> QED BY <1>3, <2>1 DEF N
<1> QED BY <1>4

-----------------------------------------------------------------------------
(* Elements and their order                                                *)

LEMMA OrderEmpty ==
  /\ ToSet(<<>>) = {} /\ IsInjective(<<>>)
  /\ \A a, b : ~ Before(<<>>, a, b)
  BY DEF ToSet, IsInjective, Before

LEMMA OrderType ==
  ASSUME NEW X, NEW q \in Seq(X)
  PROVE  /\ ToSet(q) \subseteq X
         /\ \A a, b : Before(q, a, b) => a \in ToSet(q) /\ b \in ToSet(q)
         /\ IsInjective(q) <=> \A a : ~ Before(q, a, a)
<1>1. /\ Len(q) \in Nat /\ DOMAIN q = 1..Len(q) /\ \A i \in 1..Len(q) : q[i] \in X
  OBVIOUS
<1>2. ToSet(q) \subseteq X
  BY <1>1 DEF ToSet
<1>3. \A a, b : Before(q, a, b) => a \in ToSet(q) /\ b \in ToSet(q)
  BY <1>1 DEF ToSet, Before
<1>4. IsInjective(q) => \A a : ~ Before(q, a, a)
  BY <1>1 DEF IsInjective, Before
<1>5. ASSUME \A a : ~ Before(q, a, a) PROVE IsInjective(q)
  <2> SUFFICES ASSUME NEW i \in 1..Len(q), NEW j \in 1..Len(q), q[i] = q[j], i # j PROVE FALSE
    BY <1>1 DEF IsInjective
  <2>1. i < j \/ j < i
    BY <1>1
  <2>2. Before(q, q[i], q[i])
    BY <2>1 DEF Before
  <2> QED BY <1>5, <2>2
<1> QED BY <1>2, <1>3, <1>4, <1>5

LEMMA OrderConcat ==
  ASSUME NEW X, NEW p \in Seq(X), NEW q \in Seq(X)
  PROVE  /\ p \o q \in Seq(X)
         /\ ToSet(p \o q) = ToSet(p) \cup ToSet(q)
         /\ \A a, b : Before(p \o q, a, b) <=>
              Before(p, a, b) \/ (a \in ToSet(p) /\ b \in ToSet(q)) \/ Before(q, a, b)
<1> DEFINE r == p \o q
           m == Len(p)
           n == Len(q)
<1>1. /\ m \in Nat /\ n \in Nat /\ DOMAIN p = 1..m /\ DOMAIN q = 1..n
      /\ r \in Seq(X) /\ Len(r) = m + n /\ DOMAIN r = 1..m + n
      /\ \A i \in 1..m : r[i] = p[i]
      /\ \A i \in 1..n : r[m + i] = q[i]
  BY ConcatProperties
<1> HIDE DEF r, m, n
<1>2. \A i \in 1..m : i \in 1..m + n
  BY <1>1
<1>3. \A i \in 1..n : m + i \in 1..m + n
  BY <1>1
<1>4. \A k \in 1..m + n : k \in 1..m \/ (k - m \in 1..n /\ m + (k - m) = k)
  BY <1>1
<1>5. ToSet(r) = ToSet(p) \cup ToSet(q)
  <2>1. ASSUME NEW a \in ToSet(r) PROVE a \in ToSet(p) \cup ToSet(q)
    <3>1. PICK k \in 1..m + n : r[k] = a
      BY <1>1 DEF ToSet
    <3>2. CASE k \in 1..m
      BY <1>1, <3>1, <3>2 DEF ToSet
    <3>3. CASE k - m \in 1..n /\ m + (k - m) = k
      <4>1. r[k] = q[k - m]
        BY <1>1, <3>3
      <4> QED BY <1>1, <3>1, <3>3, <4>1 DEF ToSet
    <3> QED BY <1>4, <3>2, <3>3
  <2>2. ToSet(p) \subseteq ToSet(r)
    BY <1>1, <1>2 DEF ToSet
  <2>3. ToSet(q) \subseteq ToSet(r)
    BY <1>1, <1>3 DEF ToSet
  <2> QED BY <2>1, <2>2, <2>3
<1>6. ASSUME NEW a, NEW b
      PROVE  Before(r, a, b) <=>
               Before(p, a, b) \/ (a \in ToSet(p) /\ b \in ToSet(q)) \/ Before(q, a, b)
  <2>1. Before(p, a, b) => Before(r, a, b)
    BY <1>1, <1>2 DEF Before, m
  <2>2. ASSUME Before(q, a, b) PROVE Before(r, a, b)
    <3>1. PICK i \in 1..n, j \in 1..n : i < j /\ q[i] = a /\ q[j] = b
      BY <2>2 DEF Before, n
    <3>2. m + i < m + j /\ r[m + i] = a /\ r[m + j] = b
      BY <1>1, <3>1
    <3> QED BY <1>1, <1>3, <3>2 DEF Before
  <2>3. ASSUME a \in ToSet(p), b \in ToSet(q) PROVE Before(r, a, b)
    <3>1. PICK i \in 1..m, j \in 1..n : p[i] = a /\ q[j] = b
      BY <1>1, <2>3 DEF ToSet
    <3>2. i < m + j /\ r[i] = a /\ r[m + j] = b
      BY <1>1, <3>1
    <3> QED BY <1>1, <1>2, <1>3, <3>2 DEF Before
  <2>4. ASSUME Before(r, a, b)
        PROVE  Before(p, a, b) \/ (a \in ToSet(p) /\ b \in ToSet(q)) \/ Before(q, a, b)
    <3>1. PICK k \in 1..m + n, l \in 1..m + n : k < l /\ r[k] = a /\ r[l] = b
      BY <1>1, <2>4 DEF Before
    <3>2. CASE l \in 1..m
      <4>1. k \in 1..m /\ p[k] = a /\ p[l] = b
        BY <1>1, <3>1, <3>2
      <4> QED BY <3>1, <3>2, <4>1 DEF Before, m
    <3>3. CASE k \in 1..m /\ l - m \in 1..n
      <4>1. p[k] = a /\ q[l - m] = b
        BY <1>1, <1>4, <3>1, <3>3
      <4> QED BY <1>1, <3>3, <4>1 DEF ToSet
    <3>4. CASE k - m \in 1..n /\ l - m \in 1..n
      <4>1. q[k - m] = a /\ q[l - m] = b /\ k - m < l - m
        BY <1>1, <1>4, <3>1, <3>4
      <4> QED BY <3>4, <4>1 DEF Before, n
    <3> QED BY <1>4, <3>2, <3>3, <3>4
  <2> QED BY <2>1, <2>2, <2>3, <2>4
<1> QED BY <1>1, <1>5, <1>6 DEF r

\* A sequence with fewer elements, in the same order, in front of another.
LEMMA OrderThin ==
  ASSUME NEW X, NEW p \in Seq(X), NEW r \in Seq(X), NEW q \in Seq(X),
         ToSet(r) \subseteq ToSet(p), \A a, b : Before(r, a, b) => Before(p, a, b)
  PROVE  /\ ToSet(r \o q) \subseteq ToSet(p \o q)
         /\ \A a, b : Before(r \o q, a, b) => Before(p \o q, a, b)
<1>1. /\ ToSet(p \o q) = ToSet(p) \cup ToSet(q)
      /\ \A a, b : Before(p \o q, a, b) <=>
           Before(p, a, b) \/ (a \in ToSet(p) /\ b \in ToSet(q)) \/ Before(q, a, b)
  BY OrderConcat
<1>2. /\ ToSet(r \o q) = ToSet(r) \cup ToSet(q)
      /\ \A a, b : Before(r \o q, a, b) <=>
           Before(r, a, b) \/ (a \in ToSet(r) /\ b \in ToSet(q)) \/ Before(q, a, b)
  BY OrderConcat
<1> QED BY <1>1, <1>2

LEMMA OrderSingle ==
  ASSUME NEW X, NEW c \in X
  PROVE  <<c>> \in Seq(X) /\ ToSet(<<c>>) = {c} /\ \A a, b : ~ Before(<<c>>, a, b)
  BY DEF ToSet, Before

LEMMA OrderAppend ==
  ASSUME NEW X, NEW q \in Seq(X), NEW c \in X
  PROVE  /\ Append(q, c) \in Seq(X)
         /\ ToSet(Append(q, c)) = ToSet(q) \cup {c}
         /\ \A a, b : Before(Append(q, c), a, b) <=>
              Before(q, a, b) \/ (a \in ToSet(q) /\ b = c)
<1>1. Append(q, c) = q \o <<c>>
  BY AppendIsConcat
<1> DEFINE p == <<c>>
<1>2. p \in Seq(X) /\ ToSet(p) = {c} /\ \A a, b : ~ Before(p, a, b)
  BY OrderSingle
<1> HIDE DEF p
<1>3. /\ q \o p \in Seq(X)
      /\ ToSet(q \o p) = ToSet(q) \cup ToSet(p)
      /\ \A a, b : Before(q \o p, a, b) <=>
           Before(q, a, b) \/ (a \in ToSet(q) /\ b \in ToSet(p)) \/ Before(p, a, b)
  BY <1>2, OrderConcat
<1>4. Append(q, c) = q \o p
  BY <1>1 DEF p
<1> QED BY <1>2, <1>3, <1>4

LEMMA OrderTail ==
  ASSUME NEW X, NEW q \in Seq(X), q # <<>>
  PROVE  /\ Head(q) \in X /\ Tail(q) \in Seq(X) /\ q = <<Head(q)>> \o Tail(q)
         /\ ToSet(q) = {Head(q)} \cup ToSet(Tail(q))
         /\ \A a, b : Before(q, a, b) <=>
              (a = Head(q) /\ b \in ToSet(Tail(q))) \/ Before(Tail(q), a, b)
<1>1. Head(q) \in X /\ Tail(q) \in Seq(X) /\ q = <<Head(q)>> \o Tail(q)
  BY HeadTailProperties
<1> DEFINE h == <<Head(q)>>
           s == Tail(q)
<1>2. h \in Seq(X) /\ ToSet(h) = {Head(q)} /\ \A a, b : ~ Before(h, a, b)
  BY <1>1, OrderSingle
<1>3. s \in Seq(X) /\ q = h \o s
  BY <1>1
<1> HIDE DEF h, s
<1>4. /\ ToSet(h \o s) = ToSet(h) \cup ToSet(s)
      /\ \A a, b : Before(h \o s, a, b) <=>
           Before(h, a, b) \/ (a \in ToSet(h) /\ b \in ToSet(s)) \/ Before(s, a, b)
  BY <1>2, <1>3, OrderConcat
<1>5. /\ ToSet(q) = {Head(q)} \cup ToSet(s)
      /\ \A a, b : Before(q, a, b) <=> (a = Head(q) /\ b \in ToSet(s)) \/ Before(s, a, b)
  BY <1>2, <1>3, <1>4
<1> QED BY <1>1, <1>5 DEF s

-----------------------------------------------------------------------------
(* Keep                                                                    *)

StepOf(f, i, q, S) == IF q[i] \in S THEN Append(f[i - 1], q[i]) ELSE f[i - 1]

\* f solves the recursion of Keep on 0..n.
Solves(f, n, q, S) ==
  f = [i \in 0..n |-> IF i = 0 THEN <<>>
                      ELSE IF q[i] \in S THEN Append(f[i - 1], q[i]) ELSE f[i - 1]]

LEMMA SolvesFacts ==
  ASSUME NEW q, NEW S, NEW n \in Nat, NEW f, Solves(f, n, q, S)
  PROVE  /\ f[0] = <<>>
         /\ \A i \in 1..n : f[i] = StepOf(f, i, q, S)
<1> DEFINE body(i) == IF i = 0 THEN <<>> ELSE StepOf(f, i, q, S)
<1>1. f = [i \in 0..n |-> body(i)]
  BY DEF Solves, StepOf
<1>2. body(0) = <<>> /\ \A i \in 1..n : body(i) = StepOf(f, i, q, S)
  OBVIOUS
<1>3. 0 \in 0..n /\ \A i \in 1..n : i \in 0..n
  OBVIOUS
<1> HIDE DEF body
<1>4. \A i \in 0..n : f[i] = body(i)
  BY <1>1
<1> QED BY <1>2, <1>3, <1>4

LEMMA SolvesIntro ==
  ASSUME NEW q, NEW S, NEW n \in Nat, NEW f,
         f = [i \in 0..n |-> f[i]], f[0] = <<>>,
         \A i \in 1..n : f[i] = StepOf(f, i, q, S)
  PROVE  Solves(f, n, q, S)
<1> DEFINE body(i) == IF i = 0 THEN <<>> ELSE StepOf(f, i, q, S)
<1>1. Solves(f, n, q, S) <=> f = [i \in 0..n |-> body(i)]
  BY DEF Solves, StepOf
<1>2. body(0) = <<>> /\ \A i \in 1..n : body(i) = StepOf(f, i, q, S)
  OBVIOUS
<1>3. \A i \in 0..n : i = 0 \/ i \in 1..n
  OBVIOUS
<1> HIDE DEF body
<1>4. \A i \in 0..n : f[i] = body(i)
  BY <1>2, <1>3
<1> QED BY <1>1, <1>4

LEMMA SolutionExists ==
  ASSUME NEW q, NEW S
  PROVE  \A n \in Nat : \E f : Solves(f, n, q, S)
<1> DEFINE P == {n \in Nat : \E f : Solves(f, n, q, S)}
<1>1. 0 \in P
  <2> DEFINE f == [i \in 0..0 |-> <<>>]
  <2>1. f = [i \in 0..0 |-> f[i]] /\ f[0] = <<>>
    OBVIOUS
  <2> HIDE DEF f
  <2>2. \A i \in 1..0 : f[i] = StepOf(f, i, q, S)
    OBVIOUS
  <2>3. Solves(f, 0, q, S)
    BY <2>1, <2>2, SolvesIntro, 0 \in Nat, Zenon
  <2> QED BY <2>3
<1>2. ASSUME NEW n \in Nat, n \in P PROVE n + 1 \in P
  <2>1. PICK f : Solves(f, n, q, S)
    BY <1>2
  <2>2. /\ f[0] = <<>>
        /\ \A i \in 1..n : f[i] = StepOf(f, i, q, S)
    BY <2>1, SolvesFacts, Zenon
  <2> DEFINE g == [i \in 0..n + 1 |->
                     IF i = n + 1 THEN (IF q[n + 1] \in S THEN Append(f[n], q[n + 1]) ELSE f[n])
                     ELSE f[i]]
  <2>3. /\ g = [i \in 0..n + 1 |-> g[i]]
        /\ \A i \in 0..n : g[i] = f[i]
        /\ g[n + 1] = IF q[n + 1] \in S THEN Append(f[n], q[n + 1]) ELSE f[n]
    OBVIOUS
  <2> HIDE DEF g
  <2>4. \A i \in 1..n + 1 : g[i] = StepOf(g, i, q, S)
    <3> TAKE i \in 1..n + 1
    <3>1. CASE i = n + 1
      <4>1. i - 1 = n /\ n \in 0..n
        BY <3>1
      <4> QED BY <2>3, <3>1, <4>1 DEF StepOf
    <3>2. CASE i \in 1..n
      <4>1. i \in 0..n /\ i - 1 \in 0..n
        BY <3>2
      <4> QED BY <2>2, <2>3, <3>2, <4>1 DEF StepOf
    <3> QED BY <3>1, <3>2
  <2>5. Solves(g, n + 1, q, S)
    <3>0. 0 \in 0..n
      OBVIOUS
    <3>1. n + 1 \in Nat /\ g[0] = <<>>
      BY <2>2, <2>3, <3>0
    <3> QED BY <2>3, <2>4, <3>1, SolvesIntro, Zenon
  <2> QED BY <2>5
<1> HIDE DEF P
<1>3. Nat \subseteq P
  BY <1>1, <1>2, NatSetInduction
<1> QED BY <1>3 DEF P

\* Solutions for sequences that agree up to n agree there.
LEMMA SolutionUnique ==
  ASSUME NEW p, NEW q, NEW S, NEW m \in Nat, NEW n \in Nat, NEW f, NEW g, m <= n,
         Solves(f, m, p, S), Solves(g, n, q, S), \A i \in 1..m : p[i] = q[i]
  PROVE  f[m] = g[m]
<1> DEFINE P == {i \in Nat : i <= m => f[i] = g[i]}
<1>1. /\ f[0] = <<>> /\ g[0] = <<>>
      /\ \A i \in 1..m : f[i] = StepOf(f, i, p, S)
      /\ \A i \in 1..n : g[i] = StepOf(g, i, q, S)
  <2>1. f[0] = <<>> /\ \A i \in 1..m : f[i] = StepOf(f, i, p, S)
    BY SolvesFacts
  <2>2. g[0] = <<>> /\ \A i \in 1..n : g[i] = StepOf(g, i, q, S)
    BY SolvesFacts
  <2> QED BY <2>1, <2>2
<1>2. 0 \in P
  BY <1>1
<1>3. ASSUME NEW i \in Nat, i \in P PROVE i + 1 \in P
  <2> SUFFICES ASSUME i + 1 <= m PROVE f[i + 1] = g[i + 1]
    OBVIOUS
  <2>1. f[i] = g[i] /\ i + 1 \in 1..m /\ i + 1 \in 1..n /\ (i + 1) - 1 = i
    BY <1>3
  <2> QED BY <1>1, <2>1 DEF StepOf
<1> HIDE DEF P
<1>4. Nat \subseteq P
  BY <1>2, <1>3, NatSetInduction
<1> QED BY <1>4 DEF P

LEMMA KeepSolution ==
  ASSUME NEW X, NEW q \in Seq(X), NEW S
  PROVE  \E f : Solves(f, Len(q), q, S) /\ Keep(q, S) = f[Len(q)]
<1> DEFINE f == CHOOSE g : Solves(g, Len(q), q, S)
<1>1. Len(q) \in Nat
  OBVIOUS
<1>2. Solves(f, Len(q), q, S)
  BY <1>1, SolutionExists
<1>3. Keep(q, S) = f[Len(q)]
  BY DEF Keep, Solves
<1> QED BY <1>2, <1>3

LEMMA KeepAppend ==
  ASSUME NEW X, NEW q \in Seq(X), NEW a \in X, NEW S
  PROVE  Keep(Append(q, a), S) = IF a \in S THEN Append(Keep(q, S), a) ELSE Keep(q, S)
<1> DEFINE r == Append(q, a)
           n == Len(q)
<1>1. /\ r \in Seq(X) /\ n \in Nat /\ Len(r) = n + 1 /\ r[n + 1] = a
      /\ \A i \in 1..n : q[i] = r[i]
  OBVIOUS
<1> HIDE DEF r, n
<1>2. PICK f : Solves(f, n, q, S) /\ Keep(q, S) = f[n]
  BY KeepSolution DEF n
<1>3. PICK g : Solves(g, n + 1, r, S) /\ Keep(r, S) = g[n + 1]
  BY <1>1, KeepSolution
<1>4. f[n] = g[n]
  BY <1>1, <1>2, <1>3, SolutionUnique
<1>5. g[n + 1] = IF r[n + 1] \in S THEN Append(g[n], r[n + 1]) ELSE g[n]
  <2>1. n + 1 \in Nat /\ n + 1 \in 1..n + 1 /\ (n + 1) - 1 = n
    BY <1>1
  <2>2. \A i \in 1..n + 1 : g[i] = StepOf(g, i, r, S)
    BY <1>3, <2>1, SolvesFacts, Zenon
  <2> QED BY <2>1, <2>2 DEF StepOf
<1> QED BY <1>1, <1>2, <1>3, <1>4, <1>5 DEF r

LEMMA KeepEmpty == \A S : Keep(<<>>, S) = <<>>
<1> TAKE S
<1>1. <<>> \in Seq({}) /\ Len(<<>>) = 0
  OBVIOUS
<1>2. PICK f : Solves(f, 0, <<>>, S) /\ Keep(<<>>, S) = f[0]
  BY <1>1, KeepSolution
<1>3. 0 \in Nat
  OBVIOUS
<1> QED BY <1>2, <1>3, SolvesFacts, Zenon

\* Keep leaves out elements and keeps the others in their order.
LEMMA KeepOrder ==
  ASSUME NEW X, NEW q \in Seq(X), NEW S
  PROVE  /\ Keep(q, S) \in Seq(X)
         /\ ToSet(Keep(q, S)) = ToSet(q) \cap S
         /\ \A a, b : Before(Keep(q, S), a, b) <=> Before(q, a, b) /\ a \in S /\ b \in S
<1> DEFINE Ok(p) == /\ Keep(p, S) \in Seq(X)
                    /\ ToSet(Keep(p, S)) = ToSet(p) \cap S
                    /\ \A a, b : Before(Keep(p, S), a, b) <=> Before(p, a, b) /\ a \in S /\ b \in S
           P == {p \in Seq(X) : Ok(p)}
<1>1. <<>> \in P
  <2>1. <<>> \in Seq(X)
    OBVIOUS
  <2>2. Keep(<<>>, S) = <<>>
    BY KeepEmpty, Zenon
  <2>3. Ok(<<>>)
    BY <2>1, <2>2, OrderEmpty, Zenon
  <2> QED BY <2>1, <2>3
<1>2. ASSUME NEW p \in Seq(X), p \in P, NEW c \in X PROVE Append(p, c) \in P
  <2>1. Ok(p)
    BY <1>2
  <2>2. Keep(Append(p, c), S) = IF c \in S THEN Append(Keep(p, S), c) ELSE Keep(p, S)
    BY KeepAppend
  <2>3. /\ Append(p, c) \in Seq(X) /\ ToSet(Append(p, c)) = ToSet(p) \cup {c}
        /\ \A a, b : Before(Append(p, c), a, b) <=> Before(p, a, b) \/ (a \in ToSet(p) /\ b = c)
    BY OrderAppend
  <2>4. LET k == Keep(p, S) IN
        /\ Append(k, c) \in Seq(X) /\ ToSet(Append(k, c)) = ToSet(k) \cup {c}
        /\ \A a, b : Before(Append(k, c), a, b) <=> Before(k, a, b) \/ (a \in ToSet(k) /\ b = c)
    BY <2>1, OrderAppend
  <2>5. Ok(Append(p, c))
    <3>1. CASE c \in S
      BY <2>1, <2>2, <2>3, <2>4, <3>1
    <3>2. CASE c \notin S
      BY <2>1, <2>2, <2>3, <3>2
    <3> QED BY <3>1, <3>2
  <2> QED BY <2>3, <2>5
<1> HIDE DEF P
<1>3. Seq(X) \subseteq P
  BY <1>1, <1>2, SeqInduction
<1>4. q \in P
  BY <1>3
<1> QED BY <1>4 DEF P

\* Keep of a sequence put together from two.
LEMMA KeepConcat ==
  ASSUME NEW X, NEW p \in Seq(X), NEW q \in Seq(X), NEW S
  PROVE  Keep(p \o q, S) = Keep(p, S) \o Keep(q, S)
<1> DEFINE P == {r \in Seq(X) : Keep(p \o r, S) = Keep(p, S) \o Keep(r, S)}
<1>0. Keep(p, S) \in Seq(X)
  BY KeepOrder
<1>1. <<>> \in P
  <2>1. <<>> \in Seq(X) /\ p \o <<>> = p /\ Keep(p, S) \o <<>> = Keep(p, S)
    BY <1>0, ConcatEmptySeq
  <2>2. Keep(<<>>, S) = <<>>
    BY KeepEmpty, Zenon
  <2> QED BY <2>1, <2>2
<1>2. ASSUME NEW r \in Seq(X), r \in P, NEW c \in X PROVE Append(r, c) \in P
  <2> DEFINE k == Keep(r, S)
  <2>1. k \in Seq(X) /\ Append(r, c) \in Seq(X) /\ p \o r \in Seq(X)
    BY KeepOrder
  <2>2. Keep(p \o r, S) = Keep(p, S) \o k
    BY <1>2
  <2> HIDE DEF k
  <2>3. p \o Append(r, c) = Append(p \o r, c)
    OBVIOUS
  <2>4. Keep(p, S) \o Append(k, c) = Append(Keep(p, S) \o k, c)
    BY <1>0, <2>1
  <2>5. Keep(Append(p \o r, c), S) = IF c \in S THEN Append(Keep(p \o r, S), c) ELSE Keep(p \o r, S)
    BY <2>1, KeepAppend
  <2>6. Keep(Append(r, c), S) = IF c \in S THEN Append(k, c) ELSE k
    BY KeepAppend DEF k
  <2>7. Keep(p \o Append(r, c), S) = Keep(p, S) \o Keep(Append(r, c), S)
    <3>1. CASE c \in S
      BY <2>2, <2>3, <2>4, <2>5, <2>6, <3>1, Zenon
    <3>2. CASE c \notin S
      BY <2>2, <2>3, <2>5, <2>6, <3>2, Zenon
    <3> QED BY <3>1, <3>2
  <2> QED BY <2>1, <2>7
<1> HIDE DEF P
<1>3. Seq(X) \subseteq P
  BY <1>1, <1>2, SeqInduction
<1> QED BY <1>3 DEF P

\* What Keep selects depends on the elements of the sequence only.
LEMMA KeepSame ==
  ASSUME NEW X, NEW q \in Seq(X), NEW S, NEW T, ToSet(q) \cap S = ToSet(q) \cap T
  PROVE  Keep(q, S) = Keep(q, T)
<1> DEFINE P == {r \in Seq(X) : ToSet(r) \cap S = ToSet(r) \cap T => Keep(r, S) = Keep(r, T)}
<1>1. <<>> \in P
  <2>1. <<>> \in Seq(X)
    OBVIOUS
  <2>2. Keep(<<>>, S) = <<>> /\ Keep(<<>>, T) = <<>>
    BY KeepEmpty, Zenon
  <2> QED BY <2>1, <2>2
<1>2. ASSUME NEW r \in Seq(X), r \in P, NEW c \in X PROVE Append(r, c) \in P
  <2>1. Append(r, c) \in Seq(X) /\ ToSet(Append(r, c)) = ToSet(r) \cup {c}
    BY OrderAppend
  <2>2. Keep(Append(r, c), S) = IF c \in S THEN Append(Keep(r, S), c) ELSE Keep(r, S)
    BY KeepAppend
  <2>3. Keep(Append(r, c), T) = IF c \in T THEN Append(Keep(r, T), c) ELSE Keep(r, T)
    BY KeepAppend
  <2>4. ASSUME ToSet(Append(r, c)) \cap S = ToSet(Append(r, c)) \cap T
        PROVE  Keep(Append(r, c), S) = Keep(Append(r, c), T)
    <3>1. ToSet(r) \cap S = ToSet(r) \cap T /\ (c \in S <=> c \in T)
      BY <2>1, <2>4
    <3>2. Keep(r, S) = Keep(r, T)
      BY <1>2, <3>1
    <3> QED BY <2>2, <2>3, <3>1, <3>2
  <2> QED BY <2>1, <2>4
<1> HIDE DEF P
<1>3. Seq(X) \subseteq P
  BY <1>1, <1>2, SeqInduction
<1> QED BY <1>3 DEF P

\* Leaving out first what Keep leaves out anyway makes no difference.
LEMMA KeepKeep ==
  ASSUME NEW X, NEW q \in Seq(X), NEW S, NEW T, ToSet(q) \cap S \subseteq T
  PROVE  Keep(Keep(q, T), S) = Keep(q, S)
<1> DEFINE P == {r \in Seq(X) : ToSet(r) \cap S \subseteq T => Keep(Keep(r, T), S) = Keep(r, S)}
<1>1. <<>> \in P
  <2>1. <<>> \in Seq(X)
    OBVIOUS
  <2>2. Keep(<<>>, S) = <<>> /\ Keep(<<>>, T) = <<>>
    BY KeepEmpty, Zenon
  <2> QED BY <2>1, <2>2
<1>2. ASSUME NEW r \in Seq(X), r \in P, NEW c \in X PROVE Append(r, c) \in P
  <2>1. Append(r, c) \in Seq(X) /\ ToSet(Append(r, c)) = ToSet(r) \cup {c} /\ Keep(r, T) \in Seq(X)
    BY OrderAppend, KeepOrder
  <2>2. Keep(Append(r, c), S) = IF c \in S THEN Append(Keep(r, S), c) ELSE Keep(r, S)
    BY KeepAppend
  <2>3. Keep(Append(r, c), T) = IF c \in T THEN Append(Keep(r, T), c) ELSE Keep(r, T)
    BY KeepAppend
  <2>4. Keep(Append(Keep(r, T), c), S) =
          IF c \in S THEN Append(Keep(Keep(r, T), S), c) ELSE Keep(Keep(r, T), S)
    BY <2>1, KeepAppend
  <2>5. ASSUME ToSet(Append(r, c)) \cap S \subseteq T
        PROVE  Keep(Keep(Append(r, c), T), S) = Keep(Append(r, c), S)
    <3>1. ToSet(r) \cap S \subseteq T /\ (c \in S => c \in T)
      BY <2>1, <2>5
    <3>2. Keep(Keep(r, T), S) = Keep(r, S)
      BY <1>2, <3>1
    <3> QED BY <2>2, <2>3, <2>4, <3>1, <3>2
  <2> QED BY <2>1, <2>5
<1> HIDE DEF P
<1>3. Seq(X) \subseteq P
  BY <1>1, <1>2, SeqInduction
<1> QED BY <1>3 DEF P

\* Concatenation as an operator of its own, to be rewritten as a whole.
Cat(p, q) == p \o q

LEMMA CatFacts ==
  ASSUME NEW X
  PROVE  /\ \A p, q \in Seq(X) : Cat(p, q) \in Seq(X)
         /\ \A p, q, r \in Seq(X) : Cat(Cat(p, q), r) = Cat(p, Cat(q, r))
         /\ \A p \in Seq(X) : Cat(p, <<>>) = p /\ Cat(<<>>, p) = p
  BY ConcatAssociative, ConcatEmptySeq DEF Cat

\* The first element of a sequence put together from two.
LEMMA HeadConcat ==
  ASSUME NEW X, NEW p \in Seq(X), NEW q \in Seq(X), p # <<>>
  PROVE  p \o q # <<>> /\ Head(p \o q) = Head(p)
<1>1. p \o q \in Seq(X) /\ Len(p) \in Nat \ {0} /\ Len(q) \in Nat
  BY ConcatProperties, EmptySeq
<1>2. Len(p \o q) = Len(p) + Len(q) /\ (p \o q)[1] = p[1]
  BY <1>1, ConcatProperties
<1> QED BY <1>1, <1>2
=============================================================================
