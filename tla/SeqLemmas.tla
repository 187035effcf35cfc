----------------------------- MODULE SeqLemmas -----------------------------
(***************************************************************************)
(* What the sequence operators the modules are built from return,          *)
(* induction over the natural numbers and over finite sets, sums over      *)
(* finite sets, quotients and remainders.                                  *)
(***************************************************************************)
EXTENDS Integers, Sequences, SequencesExt, SequenceTheorems,
        FiniteSetTheorems, WellFoundedInduction, TLAPS

LEMMA AppendType ==
  ASSUME NEW S, NEW s \in Seq(S), NEW x \in S
  PROVE  Append(s, x) \in Seq(S) /\ Append(s, x) # << >> /\ Len(Append(s, x)) = Len(s) + 1
OBVIOUS

LEMMA ConcatType ==
  ASSUME NEW S, NEW s \in Seq(S), NEW t \in Seq(S)
  PROVE  s \o t \in Seq(S) /\ Len(s \o t) = Len(s) + Len(t)
OBVIOUS

LEMMA PrefixType ==
  ASSUME NEW S, NEW s \in Seq(S), NEW n \in 0..Len(s)
  PROVE  /\ SubSeq(s, 1, n) \in Seq(S)
         /\ Len(SubSeq(s, 1, n)) = n
         /\ \A i \in 1..n : SubSeq(s, 1, n)[i] = s[i]
OBVIOUS

LEMMA TailType ==
  ASSUME NEW S, NEW s \in Seq(S), s # << >>
  PROVE  /\ Tail(s) \in Seq(S) /\ Head(s) \in S
         /\ Len(Tail(s)) = Len(s) - 1 /\ Len(s) > 0
         /\ \A i \in 1..Len(Tail(s)) : Tail(s)[i] = s[i + 1]
OBVIOUS

LEMMA ConcatAssoc ==
  ASSUME NEW S, NEW r \in Seq(S), NEW s \in Seq(S), NEW t \in Seq(S)
  PROVE  (r \o s) \o t = r \o (s \o t)
OBVIOUS

LEMMA ConcatEmpty ==
  ASSUME NEW S, NEW s \in Seq(S)
  PROVE  s \o << >> = s /\ << >> \o s = s
OBVIOUS

LEMMA AppendAsConcat ==
  ASSUME NEW S, NEW s \in Seq(S), NEW x \in S
  PROVE  Append(s, x) = s \o <<x>> /\ <<x>> \in Seq(S)
OBVIOUS

LEMMA FrontOfAppend ==
  ASSUME NEW S, NEW s \in Seq(S), NEW x \in S
  PROVE  Front(Append(s, x)) = s /\ Last(Append(s, x)) = x
BY DEF Front, Last

\* Taking the head off a sequence of at least two and off its front agree.
LEMMA FrontOfTail ==
  ASSUME NEW S, NEW s \in Seq(S), Len(s) > 1
  PROVE  /\ Front(s) \in Seq(S) /\ Front(Tail(s)) \in Seq(S)
         /\ Front(s) = <<Head(s)>> \o Front(Tail(s))
<1> DEFINE n == Len(s) - 1
<1>1. n \in 1..Len(s) /\ Front(s) \in Seq(S) /\ Len(Front(s)) = n
  BY DEF Front
<1>2. \A i \in 1..n : Front(s)[i] = s[i]
  BY DEF Front
<1>3. Tail(s) \in Seq(S) /\ Len(Tail(s)) = n
  BY TailType
<1>4. \A i \in 1..n : Tail(s)[i] = s[i + 1]
  BY <1>3, TailType
<1> DEFINE u == Tail(s)
<1>5. n - 1 \in 0..Len(u) /\ Front(u) = SubSeq(u, 1, n - 1)
  BY <1>1, <1>3 DEF Front
<1>6. Front(u) \in Seq(S) /\ Len(Front(u)) = n - 1
  BY <1>3, <1>5, PrefixType
<1>7. \A i \in 1..(n - 1) : Front(u)[i] = u[i]
  BY <1>3, <1>5, PrefixType
<1>8. \A i \in 1..(n - 1) : Front(u)[i] = s[i + 1]
  BY <1>1, <1>4, <1>7
<1>9. Head(s) = s[1] /\ Head(s) \in S
  BY <1>1
<1> HIDE DEF n, u
<1>10. /\ <<Head(s)>> \o Front(u) \in Seq(S)
       /\ Len(<<Head(s)>> \o Front(u)) = n
  BY <1>1, <1>6, <1>9
<1>11. \A i \in 1..n : (<<Head(s)>> \o Front(u))[i] = s[i]
  BY <1>1, <1>6, <1>8, <1>9
<1>12. Front(s) = <<Head(s)>> \o Front(u)
  BY <1>1, <1>2, <1>10, <1>11, SeqEqual
<1>13. QED
  BY <1>1, <1>6, <1>12 DEF u

LEMMA FrontOfSingle ==
  ASSUME NEW S, NEW s \in Seq(S), Len(s) = 1
  PROVE  Front(s) = << >> /\ Tail(s) = << >>
<1>1. 0 \in 0..Len(s) /\ Front(s) = SubSeq(s, 1, 0)
  BY DEF Front
<1>2. SubSeq(s, 1, 0) \in Seq(S) /\ Len(SubSeq(s, 1, 0)) = 0
  BY <1>1, PrefixType
<1>3. Tail(s) \in Seq(S) /\ Len(Tail(s)) = 0
  BY TailType
<1>4. \A r \in Seq(S) : Len(r) = 0 => r = << >>
  OBVIOUS
<1>5. QED
  BY <1>1, <1>2, <1>3, <1>4

LEMMA PrefixOfConcat ==
  ASSUME NEW S, NEW s \in Seq(S), NEW t \in Seq(S)
  PROVE  SubSeq(s \o t, 1, Len(s)) = s
OBVIOUS

\* A shorter prefix is a prefix of the longer one with anything appended.
LEMMA PrefixOfPrefix ==
  ASSUME NEW S, NEW s \in Seq(S), NEW n \in 0..Len(s), NEW x \in S, NEW k \in 0..n
  PROVE  SubSeq(Append(SubSeq(s, 1, n), x), 1, k) = SubSeq(s, 1, k)
<1> DEFINE p == SubSeq(s, 1, n)
           a == Append(p, x)
<1>1. p \in Seq(S) /\ Len(p) = n /\ \A i \in 1..n : p[i] = s[i]
  BY PrefixType
<1> HIDE DEF p
<1>2. a \in Seq(S) /\ Len(a) = n + 1 /\ \A i \in 1..n : a[i] = s[i]
  BY <1>1, AppendType
<1> HIDE DEF a
<1>3. k \in 0..Len(a) /\ k \in 0..Len(s)
  BY <1>2
<1>4. /\ SubSeq(a, 1, k) \in Seq(S) /\ Len(SubSeq(a, 1, k)) = k
      /\ \A i \in 1..k : SubSeq(a, 1, k)[i] = a[i]
  BY <1>2, <1>3, PrefixType
<1>5. /\ SubSeq(s, 1, k) \in Seq(S) /\ Len(SubSeq(s, 1, k)) = k
      /\ \A i \in 1..k : SubSeq(s, 1, k)[i] = s[i]
  BY <1>3, PrefixType
<1>6. \A i \in 1..k : SubSeq(a, 1, k)[i] = SubSeq(s, 1, k)[i]
  BY <1>2, <1>4, <1>5
<1>7. SubSeq(a, 1, k) = SubSeq(s, 1, k)
  BY <1>4, <1>5, <1>6, SeqEqual
<1>8. QED
  BY <1>7 DEF a, p

\* A prefix is its head and a prefix of the tail.
LEMMA PrefixByHead ==
  ASSUME NEW S, NEW s \in Seq(S), s # << >>, NEW k \in 1..Len(s)
  PROVE  SubSeq(s, 1, k) = <<Head(s)>> \o SubSeq(Tail(s), 1, k - 1)
<1> DEFINE u == Tail(s)
           q == SubSeq(u, 1, k - 1)
<1>1. /\ u \in Seq(S) /\ Head(s) \in S /\ Len(u) = Len(s) - 1 /\ Len(s) \in Nat
      /\ Head(s) = s[1]
      /\ \A i \in 1..Len(u) : u[i] = s[i + 1]
  BY TailType
<1> HIDE DEF u
<1>2. k \in 0..Len(s) /\ k - 1 \in 0..Len(u)
  BY <1>1
<1>3. q \in Seq(S) /\ Len(q) = k - 1 /\ \A i \in 1..(k - 1) : q[i] = u[i]
  BY <1>1, <1>2, PrefixType
<1>4. /\ SubSeq(s, 1, k) \in Seq(S) /\ Len(SubSeq(s, 1, k)) = k
      /\ \A i \in 1..k : SubSeq(s, 1, k)[i] = s[i]
  BY <1>2, PrefixType
<1> HIDE DEF q
<1>5. \A i \in 1..(k - 1) : q[i] = s[i + 1]
  BY <1>1, <1>2, <1>3
<1>6. <<Head(s)>> \o q \in Seq(S) /\ Len(<<Head(s)>> \o q) = k
  BY <1>1, <1>2, <1>3
<1>7. \A i \in 1..k : (<<Head(s)>> \o q)[i] = s[i]
  BY <1>1, <1>2, <1>3, <1>5
<1>8. \A i \in 1..k : (<<Head(s)>> \o q)[i] = SubSeq(s, 1, k)[i]
  BY <1>4, <1>7
<1>9. SubSeq(s, 1, k) = <<Head(s)>> \o q
  BY <1>4, <1>6, <1>8, SeqEqual
<1>10. QED
  BY <1>9 DEF q, u
-----------------------------------------------------------------------------
(***************************************************************************)
(* Induction over a set of numbers: the library's induction rules take the *)
(* predicate as an operator, these take the set of numbers it holds of.    *)
(***************************************************************************)
\* The order of the natural numbers, as a relation, is well founded.
LEMMA LessIsWellFounded ==
  \E R : IsWellFoundedOn(R, Nat) /\ \A x, y \in Nat : <<x, y>> \in R <=> x < y
<1>1. IsWellFoundedOn(OpToRel(<, Nat), Nat)
  BY NatLessThanWellFounded
<1>2. \A x, y \in Nat : <<x,y>> \in OpToRel(<, Nat) <=> x < y
  BY DEF OpToRel
<1> QED BY <1>1, <1>2

\* A set of numbers that is not empty has a least one.
LEMMA LeastNat ==
  ASSUME NEW T, T \subseteq Nat, T # {}
  PROVE  \E m \in T : \A y \in T : m <= y
<1>1. PICK R : IsWellFoundedOn(R, Nat) /\ \A x, y \in Nat : <<x,y>> \in R <=> x < y
  BY LessIsWellFounded
<1>a. IsWellFoundedOn(R, Nat) BY <1>1
<1>2. \E x \in T : \A y \in T : ~ (<<y, x>> \in R)
  BY <1>a, WFMin
<1>3. PICK m \in T : \A y \in T : ~ (<<y, m>> \in R)
  BY <1>2
<1>4. \A y \in T : ~ (y < m)
  BY <1>1, <1>3
<1>5. \A y \in T : m <= y
  BY <1>4
<1> QED BY <1>5

\* A set that has 0 and with every number its successor has them all.
LEMMA SetInduction ==
  ASSUME NEW S, 0 \in S, \A n \in Nat : n \in S => n + 1 \in S
  PROVE  \A n \in Nat : n \in S
<1> SUFFICES ASSUME NEW k \in Nat, k \notin S PROVE FALSE
  OBVIOUS
<1>1. PICK T : T = {n \in Nat : n \notin S}
  OBVIOUS
<1>2. PICK m \in T : \A y \in T : m <= y
  BY <1>1, LeastNat
<1>3. m \in Nat /\ m \notin S /\ m # 0 BY <1>1, <1>2
<1>4. m - 1 \in Nat BY <1>3
<1>6. m - 1 \in S
  BY <1>1, <1>2, <1>3, <1>4
<1>5. (m - 1) + 1 \in S
  BY <1>4, <1>6
<1> QED BY <1>3, <1>5

\* Induction up to a bound.
LEMMA BoundedInduction ==
  ASSUME NEW N \in Nat, NEW S, 0 \in S, \A n \in 1..N : n - 1 \in S => n \in S
  PROVE  \A n \in 0..N : n \in S
<1>1. PICK T : T = {n \in Nat : n <= N => n \in S}
  OBVIOUS
<1>2. 0 \in T BY <1>1
<1>3. ASSUME NEW n \in Nat, n \in T PROVE n + 1 \in T
  <2>1. CASE n + 1 <= N
    <3>1. n + 1 \in 1..N /\ n <= N /\ (n + 1) - 1 = n BY <2>1
    <3>2. n \in S BY <1>1, <1>3, <3>1
    <3> QED BY <1>1, <3>1, <3>2
  <2>2. CASE ~ (n + 1 <= N)
    BY <1>1, <2>2
  <2> QED BY <2>1, <2>2
<1>4. \A n \in Nat : n \in T
  BY <1>2, <1>3, SetInduction
<1> QED BY <1>1, <1>4

\* A recursion over 0..N whose step is a function has a solution.
LEMMA RecursionHasSolution ==
  ASSUME NEW V, NEW b \in V, NEW N \in Nat, NEW step \in [1..N -> [V -> V]]
  PROVE  \E f \in [0..N -> V] : f[0] = b /\ \A n \in 1..N : f[n] = step[n][f[n - 1]]
<1>1. PICK S : S = {m \in 0..N : \E f \in [0..m -> V] : f[0] = b /\ \A n \in 1..m : f[n] = step[n][f[n - 1]]}
  OBVIOUS
<1>2. 0 \in S
  <2>1. PICK f : f = [n \in 0..0 |-> b] OBVIOUS
  <2>2. f \in [0..0 -> V] /\ f[0] = b /\ \A n \in 1..0 : f[n] = step[n][f[n - 1]] BY <2>1
  <2> QED BY <1>1, <2>2
<1>3. ASSUME NEW m \in 1..N, m - 1 \in S PROVE m \in S
  <2>1. PICK f \in [0..(m - 1) -> V] : f[0] = b /\ \A n \in 1..(m - 1) : f[n] = step[n][f[n - 1]]
    BY <1>1, <1>3
  <2>2. PICK g : g = [n \in 0..m |-> IF n = m THEN step[m][f[m - 1]] ELSE f[n]] OBVIOUS
  <2>3. f[m - 1] \in V /\ step[m] \in [V -> V]
    BY <2>1
  <2>4. step[m][f[m - 1]] \in V
    BY <2>3
  <2>5. g \in [0..m -> V]
    BY <2>1, <2>2, <2>4
  <2>6. g[0] = b
    BY <2>1, <2>2
  <2>7. ASSUME NEW n \in 1..m PROVE g[n] = step[n][g[n - 1]]
    <3>1. CASE n = m
      <4>1. m - 1 \in 0..m /\ m - 1 # m /\ m \in 0..m OBVIOUS
      <4>2. g[m - 1] = f[m - 1] /\ g[m] = step[m][f[m - 1]] BY <2>2, <4>1
      <4> QED BY <3>1, <4>2
    <3>2. CASE n # m
      <4>1. n \in 1..(m - 1) /\ n - 1 \in 0..m /\ n - 1 # m /\ n \in 0..m BY <3>2
      <4>2. g[n - 1] = f[n - 1] /\ g[n] = f[n] BY <2>2, <3>2, <4>1
      <4> QED BY <2>1, <4>1, <4>2
    <3> QED BY <3>1, <3>2
  <2> QED BY <1>1, <2>5, <2>6, <2>7
<1>4. \A m \in 0..N : m \in S
  BY <1>2, <1>3, BoundedInduction
<1> QED BY <1>1, <1>4

\* Induction over the subsets of a finite set, with the set of those it holds of.
LEMMA FiniteInduction ==
  ASSUME NEW S, IsFiniteSet(S), NEW P, {} \in P,
         \A T \in SUBSET S : \A x \in S : T \in P /\ x \notin T => T \cup {x} \in P
  PROVE  \A T \in SUBSET S : T \in P
<1>1. PICK N : N = {n \in Nat : \A T \in SUBSET S : Cardinality(T) = n => T \in P}
  OBVIOUS
<1>2. \A T \in SUBSET S : IsFiniteSet(T) /\ Cardinality(T) \in Nat
  BY FS_Subset, FS_CardinalityType
<1>3. 0 \in N
  BY <1>1, <1>2, FS_EmptySet
<1>4. ASSUME NEW n \in Nat, n \in N PROVE n + 1 \in N
  <2> SUFFICES ASSUME NEW T \in SUBSET S, Cardinality(T) = n + 1 PROVE T \in P
    BY <1>1
  <2>1. T # {}
    BY <1>2, FS_EmptySet
  <2>2. PICK x \in T : TRUE
    BY <2>1
  <2>3. Cardinality(T \ {x}) = n
    <3>1. IsFiniteSet(T)
      BY <1>2
    <3>2. Cardinality(T \ {x}) = Cardinality(T) - 1
      BY <2>2, <3>1, FS_RemoveElement
    <3> QED BY <3>2
  <2>4. T \ {x} \in SUBSET S /\ x \in S /\ x \notin T \ {x} /\ T = (T \ {x}) \cup {x}
    BY <2>2
  <2>5. T \ {x} \in P
    BY <1>1, <1>4, <2>3, <2>4
  <2> QED BY <2>4, <2>5
<1>5. \A n \in Nat : n \in N
  BY <1>3, <1>4, SetInduction
<1> QED BY <1>1, <1>2, <1>5

\* A member less.
LEMMA OneLess ==
  ASSUME NEW S, IsFiniteSet(S), NEW s \in SUBSET S, NEW n \in Nat, Cardinality(s) = n + 1, NEW x \in s
  PROVE  s \ {x} \in SUBSET S /\ Cardinality(s \ {x}) = n
<1>1. IsFiniteSet(s)
  BY FS_Subset
<1>2. Cardinality(s \ {x}) = Cardinality(s) - 1
  BY <1>1, FS_RemoveElement
<1> QED BY <1>2

(***************************************************************************)
(* Sums over finite sets.                                                  *)
(***************************************************************************)
Chosen(s) == CHOOSE x \in s : TRUE

\* h adds up F over every subset of S, as the fold of the library does.
AddsUp(h, F, S) ==
  h = [s \in SUBSET S |-> IF s = {} THEN 0 ELSE F[Chosen(s)] + h[s \ {Chosen(s)}]]

\* The sum of F over S.
Total(F, S) == (CHOOSE h : AddsUp(h, F, S))[S]

\* It is a member.
LEMMA ChosenIn == \A s : s # {} => Chosen(s) \in s
BY DEF Chosen

\* There is such a function, by recursion over the cardinality.
LEMMA SumExists ==
  ASSUME NEW S, IsFiniteSet(S), NEW F, \A x \in S : F[x] \in Nat
  PROVE  \E h : AddsUp(h, F, S)
<1>1. PICK V : V = [SUBSET S -> Nat]
  OBVIOUS
<1>2. PICK b : b = [s \in SUBSET S |-> 0]
  OBVIOUS
<1>3. b \in V
  BY <1>1, <1>2
<1>4. PICK N : N = Cardinality(S) /\ N \in Nat
  BY FS_CardinalityType
<1>5. PICK more : more = [g \in V |-> [s \in SUBSET S |-> IF s = {} THEN 0 ELSE F[Chosen(s)] + g[s \ {Chosen(s)}]]]
  OBVIOUS
<1>6. more \in [V -> V]
  <2> SUFFICES ASSUME NEW g \in V PROVE [s \in SUBSET S |-> IF s = {} THEN 0 ELSE F[Chosen(s)] + g[s \ {Chosen(s)}]] \in V
    BY <1>5
  <2>1. ASSUME NEW s \in SUBSET S, s # {} PROVE F[Chosen(s)] + g[s \ {Chosen(s)}] \in Nat
    <3>1. Chosen(s) \in S /\ s \ {Chosen(s)} \in SUBSET S
      BY <2>1, ChosenIn
    <3>2. F[Chosen(s)] \in Nat /\ g[s \ {Chosen(s)}] \in Nat
      BY <1>1, <3>1
    <3> QED BY <3>2
  <2> QED BY <1>1, <2>1
<1>7. PICK step : step = [n \in 1..N |-> more]
  OBVIOUS
<1>8. step \in [1..N -> [V -> V]]
  BY <1>6, <1>7
<1>9. PICK f \in [0..N -> V] : f[0] = b /\ \A n \in 1..N : f[n] = step[n][f[n - 1]]
  <2>1. N \in Nat
    BY <1>4
  <2>2. \E f \in [0..N -> V] : f[0] = b /\ \A n \in 1..N : f[n] = step[n][f[n - 1]]
    BY <1>3, <1>8, <2>1, RecursionHasSolution
  <2> QED BY <2>2
<1>10. \A s \in SUBSET S : IsFiniteSet(s) /\ Cardinality(s) \in 0..N
  BY <1>4, FS_Subset, FS_CardinalityType
<1>11. PICK h : h = [s \in SUBSET S |-> f[Cardinality(s)][s]]
  OBVIOUS
<1>12. ASSUME NEW s \in SUBSET S
       PROVE  h[s] = IF s = {} THEN 0 ELSE F[Chosen(s)] + h[s \ {Chosen(s)}]
  <2>1. CASE s = {}
    <3>1. Cardinality(s) = 0
      BY <2>1, FS_EmptySet
    <3> QED BY <1>2, <1>9, <1>11, <2>1, <3>1
  <2>2. CASE s # {}
    <3>1. PICK x : x = Chosen(s)
      OBVIOUS
    <3>2. x \in s /\ s \ {x} \in SUBSET S
      BY <2>2, <3>1, ChosenIn
    <3>3. PICK n : n = Cardinality(s)
      OBVIOUS
    <3>4. n \in 1..N /\ Cardinality(s \ {x}) = n - 1
      <4>1. n \in 0..N /\ n # 0 /\ IsFiniteSet(s)
        BY <1>10, <2>2, <3>3, FS_EmptySet
      <4>2. Cardinality(s \ {x}) = n - 1
        BY <3>2, <3>3, <4>1, FS_RemoveElement
      <4> QED BY <4>1, <4>2
    <3>5. n - 1 \in 0..N
      BY <1>4, <3>4
    <3>6. f[n - 1] \in V
      BY <1>9, <3>5
    <3>7. f[n] = more[f[n - 1]]
      BY <1>7, <1>9, <3>4
    <3>8. f[n][s] = F[x] + f[n - 1][s \ {x}]
      BY <1>5, <2>2, <3>1, <3>6, <3>7
    <3>9. h[s] = f[n][s] /\ h[s \ {x}] = f[n - 1][s \ {x}]
      BY <1>11, <3>2, <3>3, <3>4
    <3> QED BY <2>2, <3>1, <3>8, <3>9
  <2> QED BY <2>1, <2>2
<1>13. h = [s \in SUBSET S |-> IF s = {} THEN 0 ELSE F[Chosen(s)] + h[s \ {Chosen(s)}]]
  <2>1. PICK k : k = [s \in SUBSET S |-> IF s = {} THEN 0 ELSE F[Chosen(s)] + h[s \ {Chosen(s)}]]
    OBVIOUS
  <2>2. \A s \in SUBSET S : h[s] = k[s]
    BY <1>12, <2>1
  <2>3. h = [s \in SUBSET S |-> h[s]] /\ k = [s \in SUBSET S |-> k[s]]
    BY <1>11, <2>1
  <2> QED BY <2>1, <2>2, <2>3
<1> QED BY <1>13 DEF AddsUp

\* What it returns for the empty set, and for the others.
LEMMA AddsUpAt ==
  ASSUME NEW S, NEW F, NEW h, AddsUp(h, F, S)
  PROVE  /\ h[{}] = 0
         /\ \A s \in SUBSET S : s # {} => h[s] = F[Chosen(s)] + h[s \ {Chosen(s)}]
<1>1. h = [s \in SUBSET S |-> IF s = {} THEN 0 ELSE F[Chosen(s)] + h[s \ {Chosen(s)}]]
  BY DEF AddsUp
<1>2. {} \in SUBSET S
  OBVIOUS
<1> QED BY <1>1, <1>2

\* What two such functions are where both are defined and add up the same.
LEMMA AddsUpAgree ==
  ASSUME NEW S, IsFiniteSet(S), NEW T, S \subseteq T, NEW F, NEW G, NEW h, NEW k,
         AddsUp(h, F, S), AddsUp(k, G, T), \A x \in S : F[x] = G[x]
  PROVE  \A s \in SUBSET S : h[s] = k[s]
<1>a. h[{}] = 0 /\ \A r \in SUBSET S : r # {} => h[r] = F[Chosen(r)] + h[r \ {Chosen(r)}]
  BY AddsUpAt
<1>b. k[{}] = 0 /\ \A r \in SUBSET T : r # {} => k[r] = G[Chosen(r)] + k[r \ {Chosen(r)}]
  BY ONLY AddsUp(k, G, T), AddsUpAt
<1>1. PICK N : N = {n \in Nat : \A s \in SUBSET S : Cardinality(s) = n => h[s] = k[s]}
  OBVIOUS
<1>2. \A s \in SUBSET S : IsFiniteSet(s) /\ Cardinality(s) \in Nat
  BY FS_Subset, FS_CardinalityType
<1>3. 0 \in N
  <2>1. \A s \in SUBSET S : Cardinality(s) = 0 => s = {}
    BY <1>2, FS_EmptySet
  <2> QED BY <1>1, <1>a, <1>b, <2>1
<1>4. ASSUME NEW n \in Nat, n \in N PROVE n + 1 \in N
  <2> SUFFICES ASSUME NEW s \in SUBSET S, Cardinality(s) = n + 1 PROVE h[s] = k[s]
    BY <1>1
  <2>1. PICK x : x = Chosen(s)
    OBVIOUS
  <2>2. s # {} /\ x \in s
    BY <2>1, ChosenIn, FS_EmptySet
  <2>3. s \in SUBSET T /\ s \ {x} \in SUBSET S /\ Cardinality(s \ {x}) = n
    BY <2>2, OneLess
  <2>4. h[s] = F[x] + h[s \ {x}]
    BY <2>1, <2>2, <1>a
  <2>5. k[s] = G[x] + k[s \ {x}]
    BY <2>1, <2>2, <2>3, <1>b
  <2>6. h[s \ {x}] = k[s \ {x}] /\ F[x] = G[x]
    BY <1>1, <1>4, <2>2, <2>3
  <2> QED BY <2>4, <2>5, <2>6
<1>5. \A n \in Nat : n \in N
  BY <1>3, <1>4, SetInduction
<1> QED BY <1>1, <1>2, <1>5

\* The sum is what any such function returns for the whole set.
LEMMA TotalIs ==
  ASSUME NEW S, IsFiniteSet(S), NEW F, \A x \in S : F[x] \in Nat
  PROVE  \E h : AddsUp(h, F, S) /\ Total(F, S) = h[S]
<1>1. PICK h : h = CHOOSE g : AddsUp(g, F, S)
  OBVIOUS
<1>2. AddsUp(h, F, S)
  BY <1>1, SumExists
<1> QED BY <1>1, <1>2 DEF Total

\* The sum over a part of the set, as any such function gives it.
LEMMA TotalOfPart ==
  ASSUME NEW S, IsFiniteSet(S), NEW F, NEW G, NEW h, AddsUp(h, G, S), NEW T \in SUBSET S,
         \A x \in T : F[x] \in Nat /\ F[x] = G[x]
  PROVE  Total(F, T) = h[T]
<1>1. IsFiniteSet(T)
  BY FS_Subset
<1>2. PICK k : AddsUp(k, F, T) /\ Total(F, T) = k[T]
  BY <1>1, TotalIs
<1>3. \A s \in SUBSET T : k[s] = h[s]
  <2>1. T \subseteq S /\ (\A x \in T : F[x] = G[x]) /\ AddsUp(h, G, S)
    OBVIOUS
  <2>2. AddsUp(k, F, T)
    BY <1>2
  <2> QED BY ONLY <1>1, <2>1, <2>2, AddsUpAgree
<1> QED BY <1>2, <1>3

\* The sum, a member at a time as the fold takes them.
LEMMA TotalByChosen ==
  ASSUME NEW S, IsFiniteSet(S), NEW F, \A x \in S : F[x] \in Nat
  PROVE  /\ Total(F, {}) = 0
         /\ S # {} => Total(F, S) = F[Chosen(S)] + Total(F, S \ {Chosen(S)})
<1>1. PICK h : AddsUp(h, F, S) /\ Total(F, S) = h[S]
  BY TotalIs
<1>2. \A T \in SUBSET S : Total(F, T) = h[T]
  BY <1>1, TotalOfPart
<1>3. S \in SUBSET S /\ {} \in SUBSET S /\ S \ {Chosen(S)} \in SUBSET S
  OBVIOUS
<1> QED BY <1>1, <1>2, <1>3, AddsUpAt

\* A sum of numbers is a number.
LEMMA TotalNat ==
  ASSUME NEW S, IsFiniteSet(S), NEW F, \A x \in S : F[x] \in Nat
  PROVE  Total(F, S) \in Nat
<1>1. PICK N : N = {n \in Nat : \A s \in SUBSET S : Cardinality(s) = n => Total(F, s) \in Nat}
  OBVIOUS
<1>2. \A s \in SUBSET S : IsFiniteSet(s) /\ Cardinality(s) \in Nat
  BY FS_Subset, FS_CardinalityType
<1>3. 0 \in N
  <2>1. \A s \in SUBSET S : Cardinality(s) = 0 => s = {}
    BY <1>2, FS_EmptySet
  <2>2. Total(F, {}) = 0
    BY TotalByChosen
  <2> QED BY <1>1, <2>1, <2>2
<1>4. ASSUME NEW n \in Nat, n \in N PROVE n + 1 \in N
  <2> SUFFICES ASSUME NEW s \in SUBSET S, Cardinality(s) = n + 1 PROVE Total(F, s) \in Nat
    BY <1>1
  <2>1. PICK x : x = Chosen(s)
    OBVIOUS
  <2>2. s # {} /\ x \in s
    BY <2>1, ChosenIn, FS_EmptySet
  <2>3. IsFiniteSet(s) /\ \A y \in s : F[y] \in Nat
    BY <1>2
  <2>4. Total(F, s) = F[x] + Total(F, s \ {x})
    BY <2>1, <2>2, <2>3, TotalByChosen
  <2>5. s \ {x} \in SUBSET S /\ Cardinality(s \ {x}) = n
    BY <2>2, OneLess
  <2>6. Total(F, s \ {x}) \in Nat /\ F[x] \in Nat
    BY <1>1, <1>4, <2>2, <2>3, <2>5
  <2> QED BY <2>4, <2>6
<1>5. \A n \in Nat : n \in N
  BY <1>3, <1>4, SetInduction
<1> QED BY <1>1, <1>2, <1>5

\* A sum over a finite set is one of its terms and the sum over the others.
LEMMA TotalSplit ==
  ASSUME NEW S, IsFiniteSet(S), NEW F, \A x \in S : F[x] \in Nat, NEW z \in S
  PROVE  Total(F, S) = F[z] + Total(F, S \ {z})
<1>1. PICK N : N = {n \in Nat : \A s \in SUBSET S : Cardinality(s) = n =>
                      \A y \in s : Total(F, s) = F[y] + Total(F, s \ {y})}
  OBVIOUS
<1>2. \A s \in SUBSET S : IsFiniteSet(s) /\ Cardinality(s) \in Nat /\ \A y \in s : F[y] \in Nat
  BY FS_Subset, FS_CardinalityType
<1>3. 0 \in N
  <2>1. \A s \in SUBSET S : Cardinality(s) = 0 => s = {}
    BY <1>2, FS_EmptySet
  <2> QED BY <1>1, <2>1
<1>a. \A s \in SUBSET S : Total(F, s) \in Nat
  BY <1>2, TotalNat
<1>4. ASSUME NEW n \in Nat, n \in N PROVE n + 1 \in N
  <2> SUFFICES ASSUME NEW s \in SUBSET S, Cardinality(s) = n + 1, NEW y \in s
               PROVE  Total(F, s) = F[y] + Total(F, s \ {y})
    BY <1>1
  <2>1. PICK x : x = Chosen(s)
    OBVIOUS
  <2>2. s # {} /\ x \in s
    BY <2>1, ChosenIn, FS_EmptySet
  <2>3. IsFiniteSet(s) /\ \A t \in s : F[t] \in Nat
    BY <1>2
  <2>4. Total(F, s) = F[x] + Total(F, s \ {x})
    BY <2>1, <2>2, <2>3, TotalByChosen
  <2>5. \A t \in s : s \ {t} \in SUBSET S /\ Cardinality(s \ {t}) = n
    BY OneLess
  <2>6. CASE y # x
    <3>1. (s \ {x}) \ {y} = (s \ {y}) \ {x} /\ (s \ {x}) \ {y} \in SUBSET S
      OBVIOUS
    <3>2. PICK r : r = Total(F, (s \ {x}) \ {y})
      OBVIOUS
    <3>3. r \in Nat
      BY <1>a, <3>1, <3>2
    <3>4. \A t \in s : \A u \in s \ {t} : Total(F, s \ {t}) = F[u] + Total(F, (s \ {t}) \ {u})
      BY <1>1, <1>4, <2>5
    <3>5. Total(F, s \ {x}) = F[y] + r
      BY <2>2, <2>6, <3>2, <3>4
    <3>6. Total(F, s \ {y}) = F[x] + r
      BY <2>2, <2>6, <3>1, <3>2, <3>4
    <3>7. F[x] \in Nat /\ F[y] \in Nat
      BY <2>2, <2>3
    <3> QED BY <2>4, <3>3, <3>5, <3>6, <3>7
  <2> QED BY <2>4, <2>6
<1>5. \A n \in Nat : n \in N
  BY <1>3, <1>4, SetInduction
<1>6. S \in SUBSET S
  OBVIOUS
<1> QED BY <1>1, <1>2, <1>5, <1>6

\* One more member adds its own value.
LEMMA TotalAdd ==
  ASSUME NEW S, IsFiniteSet(S), NEW F, \A x \in S : F[x] \in Nat, NEW z, z \notin S, F[z] \in Nat
  PROVE  Total(F, S \cup {z}) = F[z] + Total(F, S)
<1>1. IsFiniteSet(S \cup {z}) /\ (S \cup {z}) \ {z} = S /\ \A x \in S \cup {z} : F[x] \in Nat
  BY FS_AddElement
<1> QED BY <1>1, TotalSplit

\* Sums of terms that agree.
LEMMA TotalAgree ==
  ASSUME NEW S, IsFiniteSet(S), NEW F, NEW G, \A x \in S : F[x] \in Nat /\ F[x] = G[x]
  PROVE  Total(F, S) = Total(G, S)
<1>1. PICK h : AddsUp(h, G, S) /\ Total(G, S) = h[S]
  BY TotalIs
<1>2. S \in SUBSET S
  OBVIOUS
<1> QED BY <1>1, <1>2, TotalOfPart

\* The sum over two sets that share nothing.
LEMMA TotalUnion ==
  ASSUME NEW S, IsFiniteSet(S), NEW T, IsFiniteSet(T), S \cap T = {},
         NEW F, \A x \in S \cup T : F[x] \in Nat
  PROVE  Total(F, S \cup T) = Total(F, S) + Total(F, T)
<1>1. PICK P : P = {U \in SUBSET T : Total(F, S \cup U) = Total(F, S) + Total(F, U)}
  OBVIOUS
<1>2. \A U \in SUBSET T : /\ IsFiniteSet(U) /\ IsFiniteSet(S \cup U)
                          /\ Total(F, U) \in Nat /\ Total(F, S \cup U) \in Nat
  <2> SUFFICES ASSUME NEW U \in SUBSET T
               PROVE  /\ IsFiniteSet(U) /\ IsFiniteSet(S \cup U)
                      /\ Total(F, U) \in Nat /\ Total(F, S \cup U) \in Nat
    OBVIOUS
  <2>1. IsFiniteSet(U) /\ IsFiniteSet(S \cup U)
    BY FS_Subset, FS_Union
  <2> QED BY <2>1, TotalNat
<1>3. {} \in P
  <2>1. S \cup {} = S /\ Total(F, {}) = 0 /\ Total(F, S) \in Nat
    BY TotalByChosen, TotalNat
  <2> QED BY <1>1, <2>1
<1>4. ASSUME NEW U \in SUBSET T, NEW x \in T, U \in P, x \notin U PROVE U \cup {x} \in P
  <2>1. S \cup (U \cup {x}) = (S \cup U) \cup {x} /\ x \notin S \cup U /\ F[x] \in Nat
    BY <1>4
  <2>2. Total(F, (S \cup U) \cup {x}) = F[x] + Total(F, S \cup U)
    BY <1>2, <2>1, TotalAdd
  <2>3. Total(F, U \cup {x}) = F[x] + Total(F, U)
    BY <1>2, <1>4, <2>1, TotalAdd
  <2>4. Total(F, S \cup U) = Total(F, S) + Total(F, U)
    BY <1>1, <1>4
  <2>5. Total(F, S) \in Nat /\ Total(F, U) \in Nat
    BY <1>2, TotalNat
  <2>6. Total(F, S \cup (U \cup {x})) = Total(F, S) + Total(F, U \cup {x})
    <3>1. PICK W : W = S \cup (U \cup {x})
      OBVIOUS
    <3>2. W = (S \cup U) \cup {x}
      BY <2>1, <3>1
    <3>3. Total(F, W) = F[x] + Total(F, S \cup U)
      BY <2>2, <3>2
    <3>4. Total(F, W) = Total(F, S) + Total(F, U \cup {x})
      BY <2>1, <2>3, <2>4, <2>5, <3>3
    <3> QED BY <3>1, <3>4
  <2> QED BY <1>1, <1>4, <2>6
<1>5. T \in P
  BY <1>3, <1>4, FiniteInduction
<1> QED BY <1>1, <1>5

\* The sum over a part is the whole without the sum over the rest.
LEMMA TotalPart ==
  ASSUME NEW S, IsFiniteSet(S), NEW T \in SUBSET S, NEW F, \A x \in S : F[x] \in Nat
  PROVE  /\ Total(F, S) = Total(F, T) + Total(F, S \ T)
         /\ Total(F, T) \in Nat /\ Total(F, S \ T) \in Nat /\ Total(F, S) \in Nat
<1>1. IsFiniteSet(T) /\ IsFiniteSet(S \ T) /\ T \cap (S \ T) = {} /\ S = T \cup (S \ T)
  BY FS_Subset
<1>2. Total(F, T \cup (S \ T)) = Total(F, T) + Total(F, S \ T)
  BY <1>1, TotalUnion
<1>3. Total(F, T) \in Nat /\ Total(F, S \ T) \in Nat /\ Total(F, S) \in Nat
  BY <1>1, TotalNat
<1> QED BY <1>1, <1>2, <1>3

\* The places of the members of a finite set of numbers.
LEMMA PlaceIs ==
  ASSUME NEW S, IsFiniteSet(S), S \subseteq Nat
  PROVE  /\ \A x \in S : Cardinality({y \in S : y <= x}) \in 1..Cardinality(S)
         /\ \A x, z \in S : x < z => Cardinality({y \in S : y <= x}) < Cardinality({y \in S : y <= z})
         /\ Cardinality(S) \in Nat
<1>1. PICK N : N = Cardinality(S) /\ N \in Nat
  BY FS_CardinalityType
<1>2. PICK below : below = [x \in S |-> {y \in S : y <= x}]
  OBVIOUS
<1>3. ASSUME NEW x \in S
      PROVE  below[x] \in SUBSET S /\ IsFiniteSet(below[x]) /\ Cardinality(below[x]) \in 1..N
  <2>1. below[x] \in SUBSET S /\ x \in below[x]
    BY <1>2
  <2>2. IsFiniteSet(below[x]) /\ Cardinality(below[x]) <= N
    BY <1>1, <2>1, FS_Subset
  <2>3. Cardinality(below[x]) \in Nat /\ Cardinality(below[x]) # 0
    BY <2>1, <2>2, FS_EmptySet, FS_CardinalityType
  <2> QED BY <1>1, <2>1, <2>2, <2>3
<1>4. ASSUME NEW x \in S, NEW z \in S, x < z PROVE Cardinality(below[x]) < Cardinality(below[z])
  <2>1. below[x] \subseteq below[z] /\ z \in below[z] /\ z \notin below[x]
    <3>1. x \in Nat /\ z \in Nat /\ \A y \in S : y \in Nat
      OBVIOUS
    <3>2. \A y \in S : y <= x => y <= z
      BY <1>4, <3>1
    <3>3. ~(z <= x) /\ z <= z
      BY <1>4, <3>1
    <3>4. below[x] = {y \in S : y <= x} /\ below[z] = {y \in S : y <= z}
      BY <1>2
    <3> QED BY <3>2, <3>3, <3>4
  <2>2. below[x] \in SUBSET below[z] /\ below[x] # below[z] /\ IsFiniteSet(below[z])
    BY <1>3, <2>1
  <2>3. Cardinality(below[x]) <= Cardinality(below[z]) /\ Cardinality(below[z]) # Cardinality(below[x])
    BY <2>2, FS_Subset
  <2>4. Cardinality(below[x]) \in Int /\ Cardinality(below[z]) \in Int
    BY <1>3
  <2>5. PICK i, j : i = Cardinality(below[x]) /\ j = Cardinality(below[z]) /\ i \in Int /\ j \in Int
    BY <2>4
  <2>6. i <= j /\ j # i
    BY <2>3, <2>5
  <2>7. i < j
    BY <2>5, <2>6
  <2> QED BY <2>5, <2>7
<1>5. \A x \in S : below[x] = {y \in S : y <= x}
  BY <1>2
<1> QED BY <1>1, <1>3, <1>4, <1>5

\* A number is its quotient and its remainder.
LEMMA DivMod ==
  ASSUME NEW E \in Nat \ {0}, NEW m \in Nat
  PROVE  /\ m % E \in 0..(E - 1)
         /\ m \div E \in Int
         /\ m = E * (m \div E) + (m % E)
<1>1. m % E \in 0..(E - 1)
  OBVIOUS
<1>2. m \div E \in Int
  OBVIOUS
<1>3. m = E * (m \div E) + (m % E)
  OBVIOUS
<1> QED BY <1>1, <1>2, <1>3

\* The quotient of a number below E * L is below L.
LEMMA QuotientBelow ==
  ASSUME NEW E \in Nat \ {0}, NEW q \in Int, NEW L \in Int, NEW r \in 0..(E - 1),
         E * q + r < E * L, 0 <= E * q + r
  PROVE  0 <= q /\ q < L
<1>1. q < L
  <2> SUFFICES ASSUME q >= L PROVE FALSE
    OBVIOUS
  <2>1. E * q >= E * L
    OBVIOUS
  <2> QED BY <2>1
<1>2. 0 <= q
  <2> SUFFICES ASSUME q <= -1 PROVE FALSE
    OBVIOUS
  <2>1. E * q <= E * (-1)
    OBVIOUS
  <2> QED BY <2>1
<1> QED BY <1>1, <1>2

\* Quotient and remainder tell the number apart.
LEMMA DivModUnique ==
  ASSUME NEW E \in Nat \ {0}, NEW q \in Int, NEW r \in 0..(E - 1), NEW p \in Int,
         NEW s \in 0..(E - 1), E * q + r = E * p + s
  PROVE  q = p /\ r = s
<1>1. ~(q < p)
  <2> SUFFICES ASSUME q + 1 <= p PROVE FALSE
    OBVIOUS
  <2>1. E * (q + 1) <= E * p
    OBVIOUS
  <2>2. E * (q + 1) = E * q + E
    OBVIOUS
  <2> QED BY <2>1, <2>2
<1>2. ~(p < q)
  <2> SUFFICES ASSUME p + 1 <= q PROVE FALSE
    OBVIOUS
  <2>1. E * (p + 1) <= E * q
    OBVIOUS
  <2>2. E * (p + 1) = E * p + E
    OBVIOUS
  <2> QED BY <2>1, <2>2
<1> QED BY <1>1, <1>2

\* A union has at most as many members as its parts together.
LEMMA UnionCount ==
  ASSUME NEW S, IsFiniteSet(S), NEW T, IsFiniteSet(T)
  PROVE  /\ IsFiniteSet(S \cup T) /\ Cardinality(S \cup T) \in Nat
         /\ Cardinality(S \cup T) <= Cardinality(S) + Cardinality(T)
<1>1. /\ IsFiniteSet(S \cup T)
      /\ Cardinality(S \cup T) = Cardinality(S) + Cardinality(T) - Cardinality(S \cap T)
  BY FS_Union
<1>2. S \cap T \in SUBSET S /\ IsFiniteSet(S \cap T)
  BY FS_Subset
<1>3. PICK a : a = Cardinality(S) /\ a \in Nat
  BY FS_CardinalityType
<1>4. PICK b : b = Cardinality(T) /\ b \in Nat
  BY FS_CardinalityType
<1>5. PICK c : c = Cardinality(S \cap T) /\ c \in Nat
  BY <1>2, FS_CardinalityType
<1>6. PICK d : d = Cardinality(S \cup T) /\ d \in Nat
  BY <1>1, FS_CardinalityType
<1>7. d = a + b - c
  BY <1>1, <1>3, <1>4, <1>5, <1>6
<1>8. d <= a + b
  BY ONLY <1>3, <1>4, <1>5, <1>6, <1>7
<1> QED BY <1>1, <1>3, <1>4, <1>6, <1>8

-----------------------------------------------------------------------------
(***************************************************************************)
(* Recursive functions: what a step makes of what is below a member.       *)
(***************************************************************************)
\* Every set has a member that nothing of the set is below; what a step makes of a
\* function is what it is below the member.
WellFounded(below, S) == \A T \in SUBSET S : T # {} => \E x \in T : below[x] \cap T = {}
AgreeOn(f, g, T) == \A x \in T : f[x] = g[x]
LooksBelow(step, below, S, V) ==
  \A x \in S : \A f, g \in [S -> V] : AgreeOn(f, g, below[x]) => step[x][f] = step[x][g]

\* Functions that agree below a member give it the same value: g solves step on D.
IsBelow(below, S) == below \in [S -> SUBSET S]
IsStep(step, S, V) == step \in [S -> [[S -> V] -> V]]
IsSolvable(step, S, V) == \E f \in [S -> V] : \A x \in S : f[x] = step[x][f]
SolvesOn(step, below, D, g) ==
  \A x \in D : below[x] \subseteq D /\ g[x] = step[x][g]

LEMMA SolutionsAgree ==
  ASSUME NEW S, NEW V, NEW below, NEW step, WellFounded(below, S), LooksBelow(step, below, S, V)
  PROVE  \A D, E \in SUBSET S : \A g, h \in [S -> V] :
           SolvesOn(step, below, D, g) /\ SolvesOn(step, below, E, h)
           => \A x \in D \cap E : g[x] = h[x]
<1> SUFFICES ASSUME NEW D \in SUBSET S, NEW E \in SUBSET S, NEW g \in [S -> V], NEW h \in [S -> V],
                    SolvesOn(step, below, D, g), SolvesOn(step, below, E, h), NEW x \in D \cap E
             PROVE  g[x] = h[x]
  OBVIOUS
<1>1. PICK T \in SUBSET S : T = {y \in D \cap E : g[y] # h[y]}
  OBVIOUS
<1>2. CASE T # {}
  <2>1. PICK y \in T : below[y] \cap T = {}
    BY <1>2 DEF WellFounded
  <2>2. y \in D /\ y \in E /\ y \in S /\ g[y] # h[y]
    BY <1>1
  <2>3. below[y] \subseteq D /\ below[y] \subseteq E
    BY <2>2 DEF SolvesOn
  <2>4. ASSUME NEW z \in below[y] PROVE g[z] = h[z]
    BY <1>1, <2>1, <2>3
  <2>5. step[y][g] = step[y][h]
    <3>1. AgreeOn(g, h, below[y])
      BY <2>4 DEF AgreeOn
    <3> QED BY <2>2, <3>1 DEF LooksBelow
  <2> QED BY <2>2, <2>5 DEF SolvesOn
<1> QED BY <1>1, <1>2

\* A function may be defined by what it is below each member, if nothing is
\* below itself however far down.
LEMMA WellFoundedRecursion ==
  ASSUME NEW S, NEW V, V # {}, NEW below, NEW step, IsBelow(below, S), IsStep(step, S, V),
         WellFounded(below, S), LooksBelow(step, below, S, V)
  PROVE  IsSolvable(step, S, V)
<1> SUFFICES \E f \in [S -> V] : \A x \in S : f[x] = step[x][f]
  BY DEF IsSolvable
<1>b. below \in [S -> SUBSET S] /\ step \in [S -> [[S -> V] -> V]]
  BY DEF IsBelow, IsStep
<1>a. PICK default \in V : TRUE
  OBVIOUS
<1> DEFINE Known(x, D, g) == D \in SUBSET S /\ g \in [S -> V] /\ SolvesOn(step, below, D, g) /\ x \in D
<1>1. PICK U \in SUBSET S : U = {x \in S : \E D, g : Known(x, D, g)}
  OBVIOUS
<1>2. PICK f : f = [x \in S |-> IF x \in U THEN CHOOSE v \in V : \E D, g : Known(x, D, g) /\ v = g[x]
                                ELSE default]
  OBVIOUS
<1>3. ASSUME NEW x, NEW D, NEW g, Known(x, D, g)
      PROVE  x \in U /\ f[x] = g[x]
  <2>1. x \in S /\ x \in U /\ g[x] \in V
    BY <1>1, <1>3
  <2>2. PICK w : w = CHOOSE v \in V : \E E, h : Known(x, E, h) /\ v = h[x]
    OBVIOUS
  <2>3. w \in V /\ \E E, h : Known(x, E, h) /\ w = h[x]
    <3>1. \E v \in V : \E E, h : Known(x, E, h) /\ v = h[x]
      BY <1>3, <2>1
    <3> QED BY <2>2, <3>1
  <2>4. PICK E, h : Known(x, E, h) /\ w = h[x]
    BY <2>3
  <2>5. x \in D \cap E
    BY <1>3, <2>4
  <2>6. g[x] = h[x]
    <3>1. D \in SUBSET S /\ g \in [S -> V] /\ SolvesOn(step, below, D, g)
      BY <1>3
    <3>2. E \in SUBSET S /\ h \in [S -> V] /\ SolvesOn(step, below, E, h)
      BY <2>4
    <3>3. \A y \in D \cap E : g[y] = h[y]
      BY <3>1, <3>2, SolutionsAgree
    <3> QED BY <2>5, <3>3
  <2>7. f[x] = w
    BY <1>2, <2>1, <2>2
  <2> QED BY <2>1, <2>4, <2>6, <2>7
<1>4. f \in [S -> V]
  <2>1. ASSUME NEW x \in S PROVE f[x] \in V
    <3>1. CASE x \in U
      <4>1. PICK D, g : Known(x, D, g)
        BY <1>1, <3>1
      <4>2. f[x] = g[x]
        BY <1>3, <4>1
      <4> QED BY <4>1, <4>2
    <3>2. CASE x \notin U
      BY <1>2, <3>2
    <3> QED BY <3>1, <3>2
  <2> QED BY <1>2, <2>1
<1>5. SolvesOn(step, below, U, f)
  <2> SUFFICES ASSUME NEW x \in U PROVE below[x] \subseteq U /\ f[x] = step[x][f]
    BY DEF SolvesOn
  <2>1. PICK D, g : Known(x, D, g)
    BY <1>1
  <2>2. x \in S /\ below[x] \subseteq D /\ g[x] = step[x][g]
    BY <2>1 DEF SolvesOn
  <2>3. ASSUME NEW y \in below[x] PROVE y \in U /\ f[y] = g[y]
    <3>1. Known(y, D, g)
      BY <2>1, <2>2
    <3> QED BY <1>3, <3>1
  <2>4. step[x][f] = step[x][g]
    <3>1. g \in [S -> V]
      BY <2>1
    <3>2. AgreeOn(f, g, below[x])
      BY <2>3 DEF AgreeOn
    <3> QED BY <1>4, <1>b, <2>2, <3>1, <3>2 DEF LooksBelow
  <2>5. f[x] = g[x]
    BY <1>3, <2>1
  <2> QED BY <2>2, <2>3, <2>4, <2>5
<1>6. CASE U # S
  <2>1. PICK x \in S \ U : below[x] \cap (S \ U) = {}
    <3>1. S \ U # {} /\ S \ U \in SUBSET S
      BY <1>6
    <3> QED BY <3>1 DEF WellFounded
  <2>2. below[x] \subseteq U
    BY <1>b, <2>1
  <2>3. PICK D : D = U \cup {x}
    OBVIOUS
  <2>4. PICK g : g = [f EXCEPT ![x] = step[x][f]]
    OBVIOUS
  <2>5. g \in [S -> V] /\ D \in SUBSET S /\ g[x] = step[x][f]
    BY <1>4, <1>b, <2>1, <2>3, <2>4
  <2>6. \A y \in U : g[y] = f[y]
    BY <1>4, <2>1, <2>4
  <2>7. ASSUME NEW y \in D PROVE below[y] \subseteq D /\ g[y] = step[y][g]
    <3>1. y \in S /\ below[y] \subseteq U
      BY <1>5, <2>1, <2>2, <2>3 DEF SolvesOn
    <3>2. \A z \in below[y] : g[z] = f[z]
      BY <2>6, <3>1
    <3>3. step[y][g] = step[y][f]
      <4>1. AgreeOn(g, f, below[y])
        BY <3>2 DEF AgreeOn
      <4> QED BY <1>4, <2>5, <3>1, <4>1 DEF LooksBelow
    <3>4. g[y] = step[y][f]
      BY <1>5, <2>3, <2>5, <2>6 DEF SolvesOn
    <3> QED BY <2>3, <3>1, <3>3, <3>4
  <2>8. SolvesOn(step, below, D, g)
    BY <2>7 DEF SolvesOn
  <2>9. Known(x, D, g)
    BY <2>3, <2>5, <2>8
  <2> QED BY <1>3, <2>1, <2>9
<1>7. CASE U = S
  BY <1>4, <1>5, <1>7 DEF SolvesOn
<1> QED BY <1>6, <1>7

\* A function on positions may look at later ones; what later values keep, it keeps.
LooksLater(step, m, n, V) ==
  \A x \in m..n : \A f, g \in [m..n -> V] : AgreeOn(f, g, (x + 1)..n) => step[x][f] = step[x][g]
KeepsLater(step, Good, m, n, V) ==
  \A x \in m..n : \A f \in [m..n -> V] :
    (\A y \in (x + 1)..n : f[y] \in Good[y]) => step[x][f] \in Good[x]
SolvedLater(step, Good, m, n, V) ==
  \E f \in [m..n -> V] : \A x \in m..n : f[x] = step[x][f] /\ f[x] \in Good[x]

LEMMA LaterRecursion ==
  ASSUME NEW m \in Nat, NEW n \in Nat, NEW V, V # {}, NEW step, IsStep(step, m..n, V), NEW Good,
         LooksLater(step, m, n, V), KeepsLater(step, Good, m, n, V)
  PROVE  SolvedLater(step, Good, m, n, V)
<1> SUFFICES \E f \in [m..n -> V] : \A x \in m..n : f[x] = step[x][f] /\ f[x] \in Good[x]
  BY DEF SolvedLater
<1>0. step \in [m..n -> [[m..n -> V] -> V]]
  BY DEF IsStep
<1>1. PICK S : S = m..n
  OBVIOUS
<1>2. PICK below : below = [x \in S |-> (x + 1)..n]
  OBVIOUS
<1>3. below \in [S -> SUBSET S]
  <2>1. \A x \in S : (x + 1)..n \in SUBSET S
    BY <1>1
  <2> QED BY <1>2, <2>1
<1>4. ASSUME NEW T \in SUBSET S, T # {} PROVE \E x \in T : below[x] \cap T = {}
  <2>1. PICK U : U = {n - x : x \in T}
    OBVIOUS
  <2>2. \A x \in T : x \in Nat /\ x <= n /\ n - x \in Nat
    BY <1>1
  <2>3. U \in SUBSET Nat /\ U # {}
    BY <1>4, <2>1, <2>2
  <2>4. PICK u \in U : \A v \in U : u <= v
    BY <2>3, LeastNat
  <2>5. PICK x \in T : u = n - x
    BY <2>1, <2>4
  <2>6. ASSUME NEW y \in below[x], y \in T PROVE FALSE
    <3>1. y \in (x + 1)..n /\ x \in S
      BY <1>2, <2>6
    <3>2. n - x <= n - y
      BY <2>1, <2>4, <2>5, <2>6
    <3> QED BY <2>2, <2>5, <3>1, <3>2
  <2> QED BY <2>6
<1>5. WellFounded(below, S)
  BY <1>4 DEF WellFounded
<1>6. LooksBelow(step, below, S, V)
  <2>1. \A x \in S : below[x] = (x + 1)..n
    BY <1>2
  <2> QED BY <1>1, <2>1 DEF LooksBelow, LooksLater
<1>7. step \in [S -> [[S -> V] -> V]]
  BY <1>0, <1>1
<1>8. PICK f \in [S -> V] : \A x \in S : f[x] = step[x][f]
  <2>1. IsBelow(below, S) /\ IsStep(step, S, V)
    BY <1>3, <1>7 DEF IsBelow, IsStep
  <2>2. IsSolvable(step, S, V)
    BY <1>5, <1>6, <2>1, WellFoundedRecursion
  <2> QED BY <2>2 DEF IsSolvable
<1>9. PICK T : T = {x \in S : f[x] \notin Good[x]}
  OBVIOUS
<1>10. CASE T # {}
  <2>1. PICK x \in T : below[x] \cap T = {}
    BY <1>4, <1>9, <1>10
  <2>2. \A y \in (x + 1)..n : f[y] \in Good[y]
    <3>1. x \in S /\ below[x] = (x + 1)..n
      BY <1>2, <1>9
    <3>2. \A y \in (x + 1)..n : y \in S /\ y \notin T
      BY <1>3, <2>1, <3>1
    <3> QED BY <1>9, <3>2
  <2>3. step[x][f] \in Good[x]
    BY <1>1, <1>8, <1>9, <2>2 DEF KeepsLater
  <2> QED BY <1>8, <1>9, <2>3
<1> QED BY <1>1, <1>8, <1>9, <1>10

LEMMA LaterInduction ==
  ASSUME NEW m \in Nat, NEW n \in Nat, NEW T,
         \A x \in m..n : (\A y \in (x + 1)..n : y \in T) => x \in T
  PROVE  \A x \in m..n : x \in T
<1>1. PICK U : U = {k \in Nat : \E x \in m..n : x \notin T /\ k = n - x}
  OBVIOUS
<1>2. CASE U # {}
  <2>1. PICK k \in U : \A j \in U : k <= j
    BY <1>1, <1>2, LeastNat
  <2>2. PICK x \in m..n : x \notin T /\ k = n - x
    BY <1>1, <2>1
  <2>3. ASSUME NEW y \in (x + 1)..n, y \notin T PROVE FALSE
    <3>1. y \in m..n /\ n - y \in Nat /\ n - y < n - x
      OBVIOUS
    <3>2. n - y \in U
      BY <1>1, <2>3, <3>1
    <3> QED BY <2>1, <2>2, <3>1, <3>2
  <2> QED BY <2>2, <2>3
<1>3. CASE U = {}
  <2>1. \A x \in m..n : n - x \in Nat
    OBVIOUS
  <2> QED BY <1>1, <1>3, <2>1
<1> QED BY <1>2, <1>3

LEMMA AgreeLater ==
  ASSUME NEW m \in Nat, NEW n \in Nat, NEW e, NEW f,
         \A x \in m..n : AgreeOn(e, f, (x + 1)..n) => e[x] = f[x]
  PROVE  AgreeOn(e, f, m..n)
<1>1. PICK T : T = {x \in m..n : e[x] = f[x]}
  OBVIOUS
<1>2. ASSUME NEW x \in m..n, \A y \in (x + 1)..n : y \in T PROVE x \in T
  <2>1. AgreeOn(e, f, (x + 1)..n)
    BY <1>1, <1>2 DEF AgreeOn
  <2> QED BY <1>1, <2>1
<1>3. \A x \in m..n : x \in T
  BY <1>2, LaterInduction
<1> QED BY <1>1, <1>3 DEF AgreeOn
=============================================================================
